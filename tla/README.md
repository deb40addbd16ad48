# Toy-Redis in TLA+

A verification project for TIDC/toy-redis: a Redis-like server in C++ with its own event loop,
message queue, log, hash table and ring buffer. The modules here are translations of the headers
under `src/`; TLC checks them on small instances and TLAPS proves the most important properties for
every value of the constants. `PROJECT.json` maps every definition to the lines it stands for.

## 1. The system

| part | source | state | operations | used by |
|---|---|---|---|---|
| `MessageQueue` | `base/message_queue.hpp` | put list, get list, count, two mutexes, two condition variables, `non_block` | `Push`, `Pop` (with `SwapQueue`), `SetNotWait` | any threads; in the program, `Log` |
| `Log` | `base/log.hpp` | `stop_`, worker thread, queue, `ref_count_`, a thread-local buffer | constructor, `Print`/`Post`, worker loop, `LogTo`, destructor | everything; one object exists before `main` |
| `FixedBuffer` | `base/fixed_buffer.hpp` | array, used length | `Append`, `Update`, `Clear` | `Log` |
| `IOService`, file events | `net/io_service.hpp`, `net/epoll_poller.hpp` | `events_` (mask and two handlers per descriptor), `fdEvent`, the kernel's epoll set, `fired_fds_` | `AddEventListener`, `DeleteEventListener`, `Poll`, `ProcessEvents` | the server |
| `IOService`, timers and tasks | `net/io_service.hpp`, `net/timer.hpp`, `base/time_helper.hpp`, `ipc/pipe.hpp` | heap of timers, queue of tasks, pipe, last clock reading, `stop_` | `SetTimeout`, `SetInterval`, `RunInLoop`, `WakeUp`, `Stop`, `Run` | users of the library; the tests |
| `ToyRedisServer`, `RedisClient` | `toy-redis/server.hpp`, `toy-redis/client.hpp`, `net/anet.hpp` | `list_` of clients, `dict_`; per client `queryBuf`, request type, `result_` | accept, read and parse, `get`/`set`, reply, free | TCP peers |
| `Dictionary` | `base/dictionary.hpp` | buckets, size, mask, used | `Add`, `Replace`, `Delete`, `Find`, `Expand`, copy, move | the server |
| `RingQueue` | `base/ring_queue.hpp` | array, `front_`, `end_`, `length_` | `Push`, `Pop`, `Front`, `Clear` | `fired_fds_` of the poller |
| `ZipMap` | `base/zipmap.hpp` | buffer, index, their sizes, `wait_freed_`, `used_` | `Set`, `Get`, `Delete`, `Zip` | its test |
| `SimpleDynamicString` | `base/simple_dynamic_string.hpp` | `length_`, `free_`, `buffer_` | construction, copy, move, `Append`, `MakeRoomFor`, `Range`, `Trim`, `Split` | `queryBuf` and `result_` of `RedisClient` |
| select and kqueue pollers, `List`, utilities | the other headers | | | tests, or nothing that is built on Linux |

How they interact. The server is one thread: `MainLoop` calls `epoll_wait`, pushes what is ready to
the ring `fired_fds_`, and `ProcessEvents` calls the handlers of each fired descriptor, which
accept, read, execute commands on the dictionary, and add or delete listeners of the same reactor
while it iterates. What interleaves with it is the network. The queue and the log are where threads
meet: any thread pushes, one worker pops, and a third party switches the queue to non-blocking mode
and drains it.

Where it is hard, and what makes each part correct:

* `MessageQueue`: two lists under two mutexes, notifications sent after the unlock, `notify_one` for
  consumers, a count read in place of the list it counts, and a `SetNotWait` that takes no lock.
  Correct means: one FIFO queue, no wakeup lost that someone needs, every message delivered. (A
  bounded one it is not, see section 4.)
* File events: the same fact in three places (kernel, poller, event table), updated one after the
  other with errors ignored; `close` changes the first behind the back of the others; handlers
  change the table while a batch of fired events is handled. Correct means: the three agree, but
  between a `close` and its clean-up, no event or handler reaches the wrong connection, nothing
  blocks the only thread.
* Server: descriptor numbers are reused at once, handlers hold raw pointers to clients, replies wait
  for a write event, peers leave at any moment. Correct means: an atomic table, at most one answer
  per command, and in a closed loop exactly one for each `set`.
* Timers and tasks: callbacks set timers and post tasks while the containers are being traversed;
  time is wall-clock time that may be set forward and back; waits are rounded. Correct means:
  nothing lost, doubled or drifting, nothing early by more than the clock was set forward, and no
  oversleeping.
* `Log`: a flag written by two threads, a start-up handshake, a count of objects, and a destructor
  that pops beside the worker, each writing an entry in two calls. Correct means: every entry
  written exactly once, and in one piece where one thread writes.
* `SimpleDynamicString`: a length, a free space and an allocation that must agree, and loops that
  check none of them. Correct means: each call does to the text what it says, and memory is left
  only in ways that can be named. Four of its comments are not kept (section 4).
* `Dictionary`, `RingQueue`, `AlignExpandSize`, `time_helper`, `ZipMap`: index arithmetic and
  layouts at their boundaries. Correct means: a finite map, a bounded FIFO, the reference
  definition, a list of bindings, and no write outside.

The hazards of the code, each at its line with the properties aimed at it, are in `PROJECT.json`
under `hazards`.

## 2. The modules

| module | stands for | promises (abstract module) | proofs |
|---|---|---|---|
| `MessageQueue` | `MessageQueue<T>` | `FifoQueue` | `MessageQueueProofs` |
| `FixedBuffer` | `FixedBuffer`, as operators on one record | | |
| `Log` (extends `MessageQueue`, `FixedBuffer`) | `Log` | | `LogProofs` |
| `EpollReactor` | `IOService`'s event table and `EpollPoller`, as operators on one record | | |
| `Server` (extends `EpollReactor`) | `ToyRedisServer`, `RedisClient`, `ProcessEvents`, with TCP peers | `KeyValueService` | `ServerProofs` |
| `TimeHelper` | arithmetic on `timeval`s | | in `IOServiceProofs` |
| `IOService` (extends `TimeHelper`) | `MainLoop` with timers, tasks, wake-ups | | `IOServiceProofs` |
| `AlignExpandSize` | the growth policy | `LeastPower`, in the same module | |
| `Dictionary` | `Dictionary` | `FiniteMap` | `DictionaryProofs` |
| `RingQueue` | `RingQueue` | `BoundedFifo` | `RingQueueProofs` |
| `ZipMap` | `ZipMap` | `Bindings` | `ZipMapProofs` |
| `SimpleDynamicString` | `SimpleDynamicString` | `Texts` | `SimpleDynamicStringProofs` |
| `Subsequences` | what a filter leaves of a sequence, for `ZipMap` and `Bindings` | | in `ZipMapProofs` |
| `MC...` | small instances for TLC | | |

A definition with a suffix (`HasRoom_OffByOne`, `Disarm_Forgotten`, ...) stands before the
definition it varies and is used by no specification. It is a plausible bug: put in the place of the
original it makes the property it is listed with in `PROJECT.json` (`mutants`) fail, which shows
that the property depends on that code.

### MessageQueue

A step is a critical section, a notification, or a change of a wait set. `cv.wait(lock, predicate)`
is modelled as its loop: `Block` (predicate false, mutex still held), `Sleep` (mutex released and
wait set joined, atomically), a notification or `SpuriousWakeup`, `Relock`, and the predicate again.
That `Block` and `Sleep` are two steps matters, because `SetNotWait` writes `non_block` without
`put_mutex_` between them. `Push` is `PushLock`, `PushEnqueue`, `PushNotify`; `Pop` is `PopLock`,
then `PopTake` or `SwapLock`, `SwapLists`, `SwapNotify`. The refinement takes `getList \o putList`
for the abstract queue, which has an order and no bound. The bound is a matter of its own:
`ListsBounded` holds of each list, but a swap empties the count while the consumers' list is still
full, so that the two together hold up to `2 * max_length` messages, and `QueueBounded`, which is
what line 32 of the header says, fails. A `Pop` takes effect when it unlinks the head, or when it
swaps in an empty list.

### Log

The `Log` objects of one thread, as all of the server's are, the worker they share, and any number
of logging threads. The two ends of the start-up handshake are steps (`TestStarted`,
`SleepUntilStarted`, `WorkerStarts`, `WorkerTells`); the constructor's mutex is a local variable, so
nothing orders them, and a notification between the constructor's test and its sleep is lost: the
constructor would then hang, before `main`. Every `RedisClient` makes and destroys Logs:
`AnotherLog` and `ReleaseLog` move the count, and `Destroy` is the last destructor (`stop_ = true`),
followed by the three steps of `SetNotWait`, by `CloserPops`, `CloserWrites` and `CloserWritesText`
until `Pop` returns nothing, and by `Join`. `Exit` is `exit(1)` in a server that cannot listen: only
the static `Log` is destroyed, it is not the last, and the joinable worker ends the process. The
sleep of 100 ms orders nothing and is left out. Entries are messages of the queue, whose actions are
conjoined, so that what is proved of `MessageQueue` carries over. Writing one is two steps, for the
code calls `write` twice, and between them the other thread may write. What is written is what
`LogTo` leaves in its thread's `FixedBuffer`; that no piece of an earlier entry comes with it is a
property. A `Log` is destroyed only when no thread is inside `Push`, as for any C++ object.

### EpollReactor and Server

The reactor is one record: `registered` (kernel), `polled` (`fdEvent`), `mask` (`events_[fd].mask_`)
and the two handlers. `AddEventListener` and `DeleteEventListener` are operators on it, because a
server step calls several of them, and `DeleteEventListener` calls `DeleteEvent` twice, as the code
does.

A step of `Server` is one call of `epoll_wait`, `accept`, `read`, `write` or `close`, with the code
that runs up to the next of them. Calls of `epoll_ctl` belong to the step in which they are made:
only the next `epoll_wait` looks at what they change. The end of a file is three steps: `ReadEof`
(`read` returns 0), `CloseFd` (the kernel forgets the descriptor, and its number is free) and `Free`
(the listeners and the client go). Between the last two, peers move, and the poller, the event table
and `list_` still name what the kernel has forgotten (`Cleaning`). Handling a fired descriptor is a
read step, or those three, and a write step; `current.events` is the mask that `ProcessEvents`
copies before the first. Each peer has one connection; it may connect, send or leave (`fin`: orderly
close, `rst`: abort) between any two steps. Commands are tuples; commands that arrive before a read
are one text (`Merge`), for the protocol has no terminator. `fate` says whether the process runs, or
how it ended: a failed assertion, `std::bad_function_call`, `SIGPIPE`, or an endless loop in a
handler. What ends a run is part of the model, and properties say which of these can happen to which
peers.

### IOService and TimeHelper

`pc` walks through `MainLoop`: the callback before sleeping, `epoll_wait` with the wait that was
computed, the timers (taken as a batch, then called one by one), the events (the pipe), the tasks
(taken as a batch, then called one by one). Callbacks are any code: while one runs, any number of
timers and tasks may be added, the loop may be stopped, and `WakeUp` may be called. Time is
`elapsed`, in microseconds, and `gettimeofday` shows `elapsed` with what the clock was set forward
and less what it was set back by, in any number of steps at any moments (`SetClock`); `epoll_wait`
measures true time. `timeval`s are pairs, computed by the operators of `TimeHelper`, with the number
of milliseconds to the second and microseconds to the millisecond as parameters.

`SetTimeout` takes a `uint64_t`, `AddMilliseconds` an `int64_t` and `epoll_wait` an `int`:
`ToSigned` is the conversion, with `MaxLong` and `MaxInt` for the largest. A delay that comes out
negative is due at once, and a wait that does has no end. The pipe holds `PipeCapacity` bytes, and
its writing end blocks: other threads wait for room, and a callback that calls `WakeUp` on a full
pipe waits for the loop it is part of (`WakeUpBlocks`, `stuck`).

### Dictionary, AlignExpandSize, RingQueue, ZipMap, SimpleDynamicString

An object of `Dictionary` is a record with the members of the class; a bucket is the set of its
entries, since their order changes no result while keys are unique (which is proved). `Expand`
rebuilds every bucket with the new mask. Growth is a parameter, `AlignedSize`, of which the proofs
assume only that it is at least what was asked for; the runs use `AlignExpandSize`, the code's
binary search. `RingQueue` has the array, both indexes and the length; the order of its elements is
not stored, and the refinement reads it off the array. The buffer of `ZipMap` is the sequence of its
blocks, each with its length and with its first byte as far as it matters (`cleared`); offsets are
sums of lengths. Memory that no `Set` has written is a `Hole`. Sums and filters are recursive
functions (`Ends`, `Only`), which proofs can unfold. A write outside the map's memory sets `fate` to
`corrupt` and ends the model, since anything may follow. A string of `SimpleDynamicString` is its
length, its free space and the bytes of its allocation. Each call is its effect and the bytes it
touches: one that would leave the allocation is recorded in `astray`, with its arguments, and ends
the model. `size_t` wraps at `Word`, so that the lengths which come out below zero in `Range` are
what they are in the code; a `Trim` whose second loop wraps goes astray. A view is the first `n`
bytes of a text, and `AppendView` appends the text to its terminator, or goes astray if it has none.
`Texts` says what the calls do to the text where they do what a caller may expect; `Trim`, which
never cuts anything and returns, and `AppendView`, which is `AppendBytes` of another text than the
view, are not among them. Where the code's comments say more (section 4), `RoomPromised` and
`AstrayExplained` name the case. `ZipMap` has two sets of hash codes: `Hash`, by which `Find` and
`Delete` look for a key, and `SetHashes`, under which `Set` may file it, for it hashes the bytes up
to the first terminator in memory. `Bindings` therefore keeps the hash code with each binding.

## 3. The runs

| run | instance | what it asks |
|---|---|---|
| `queue_safety` | 2 producers with 3 messages each, 2 consumers, capacity 2, `SetNotWait` at any moment, symmetry | bounds of the lists, lost wakeups, and that it is a FIFO queue |
| `queue_not_wait` | 2 producers, 2 consumers, fairness | violated: after `SetNotWait` a `Pop` may still sleep for ever |
| `queue_bound` | 2 producers, 2 consumers, capacity 1 | violated: the whole queue holds 2 messages in blocking mode |
| `server_closed_loop` | 2 peers, 2 descriptors, 2 commands each, peers wait for answers, fairness | the server stays up, is an atomic table, answers each `set` |
| `server_open_loop` | 2 peers, 1 client descriptor, 2 commands each of every kind, `fin` and `rst` at any moment | the seven invariants of the reactor and the clients |
| `server_empty_handler` | 2 peers, 1 command each | violated: `ProcessEvents` calls an empty `std::function` |
| `dictionary` | 2 objects, 3 keys of which 2 collide until the table grows, first table of 2 | bucket of every entry, count and load, and that both are finite maps; by its assumptions, `AlignExpandSize` for 2 to 5000, and that of 1 it makes 2 |
| `ring_queue` | 4 slots, 2 elements | that it is a bounded FIFO |
| `io_service` | 2 requests (timers or tasks), delays of 1 and 2 ms where an `int` holds 1 and an `int64_t` 2, a pipe of 1 byte and 1 wake-up, 2 microseconds of time and what the clock is set by: 3 forward, 9 back, fairness | how early, how late and on what grid timers run; timers and tasks accounted for; what is due, posted or woken is served; by its assumptions, the arithmetic of `timeval`s, and what becomes of longer delays |
| `log` | 2 threads with 2 entries, the second longer than the buffer, capacity 2, 2 objects, fairness | every entry once, and how many are torn; the flag; a sleeper at the time of `SetNotWait`'s notification returns |
| `zip_map` | 4 keys (two with one hash code, of which one may be filed under another, one with a zero low byte, one with a zero hash code), 2 lengths of values, an index of 3, 4 calls of `Set` | sizes, where memory is corrupted, and that it is a list of bindings |
| `sds` | 2 strings of up to 3 bytes, a letter in two cases, texts of up to 2 and views of their beginnings | the effect of each call, the terminator, the room promised, and how memory is left; by its assumption, `Split` on texts of up to 5 |

Why the bounds are enough. *Queue*: capacity 2 with 6 messages lets both lists be full while
producers wait, and two consumers reach the wait for `get_mutex_`, the hand-over of a half-consumed
list, and the race for a notification; with one producer or one message fewer no new kind of wait
appears, and the theorems cover all numbers. *Server*: with two client descriptors, two clients are
served at once; with one, every connection of the second peer reuses the first one's number, in the
same batch if it likes, and `accept` fails while it is taken. Two commands are what it takes for
commands to merge, for two replies to share a write, and for a reply to follow a failed one. The
seven invariants are theorems for any numbers. *Dictionary*: three keys double the first table (2
instead of 4 buckets) once, and the hash puts two keys together before and apart after; two objects
are what a copy or a move needs. *Ring*: every position of the window, full and empty. *IOService*:
a second is 2 ms of 2 µs and the clock starts just before a carry, so that the 5 µs by which it
moves on see a carry, two periods and both roundings of the wait; a set-back of 9 µs is more than
the limit of a second, and 3 µs forward are more than a millisecond, so that a step comes out of the
rounding of a wait; the theorems are of any steps. A wait of 2 ms, where `MaxInt` is 1, is the least
that comes out negative; delays of 3 ms and more, where `MaxLong` is 2, come out negative
themselves, which an assumption of `MCIOService` says for all of them and no timer of the run has;
one byte fills the pipe, and a callback then blocks. At `MaxTime` the clock stops and waits run out:
this bounds the run, and only delays what is not yet due. *Log*: capacity 2 is the least for which
the destructor finds several entries, and two objects the least of which one is not the last.
*SimpleDynamicString*: 3 bytes are a text and an addition of either length, a view of 1 byte of 2 is
the least that is cut, and `Trim` of 1 byte finds or misses it at either end; two strings share what
a copy keeps. *ZipMap*: the index grows in two steps and is overrun by the fourth `Set`; blocks of 3
to 6 bytes, three of which are steps of `Zip`, give holes of both kinds.

`CHECK_DEADLOCK FALSE` where the program may rightly stop: a server whose peers have all left (or
whose process has ended), a stopped or stuck loop, a destroyed log, a corrupt map, a string gone
astray. The queue runs check deadlock.

### What the properties say

*Queue.* `NoLostPush`, `NoLostRoom`: nobody sleeps on a message or on room unless somebody is on the
way to wake it (both would be wrong if `Push` or `SwapQueue` decided or notified otherwise, and both
need `OneConsumerWaits`, the reason why `notify_one` is enough). `EntriesWritten` of the log is
their consequence under fairness.

*Server.* `RegistrationsAgree`: poller and table agree at every step, and the kernel with them, but
between a `close` and its clean-up, when the closed descriptor alone is one that the kernel has
forgotten and the others name. `ClientsMatchSockets` says the same of `list_` and the open sockets,
and that nothing is left of a descriptor when its number may be taken again. `WriteHandlersAlive`,
`ReadHandlerReady`: descriptor reuse never confuses two connections, no write handler outlives the
`RedisClient` it points to (of other captures see section 6), and the assertion in `clientHandler`
holds for every event still to be handled in a batch. `NoBlockingCall`: a blocking `accept` or
`read` is only called when it returns at once. `ReplyArmed`, `NoExtraAnswer`: replies are neither
stranded, while there is a connection, nor doubled. `ImplementsTable`: with well-behaved peers the
server is one atomic table in which `set` keeps the first value (`Dictionary::Add`).

*IOService.* `TimersAccounted`: between heap and batch no timer is lost or doubled. `NeverEarly`:
the k-th run of a timer comes no sooner than k delays of true time after it was set, less what the
clock was set forward meanwhile, until a rollover is detected: the code can promise no more, for its
deadlines are times of that clock. `NoDrift`: deadlines of a periodic timer stay on its grid. Both,
and `NoOversleep`, are of delays that an `int64_t` holds (of others see section 4). `NoOversleep`:
the wait ends less than a millisecond after the nearest deadline, or what the clock was set forward
during it later, and at once when a task waits; it has no end only if the clock was set back or
every timer was set further ahead than an `int` holds. `TasksInOrder`: every task once, in the order
of posting. `DueTimerRuns`, `TaskRuns`, `WakeUpHeard`: whatever callbacks do, until one of them
stops the loop or waits for it, and in `DueTimerRuns` unless the wait is without end.

*Log.* `AllWrittenOnce`: no piece is written twice, every piece is the header or the text of one
entry and of no other, a text comes after its header, and when the destructor has returned every
entry is there. `FewTorn`: lines are whole while the worker alone writes, and beside it the
destructor tears at most three. `EntriesWritten`, even if the destructor never returns, but not if
the process exits; `StopAgrees`: the worker's `stop_ = false` never undoes the destructor's `stop_ =
true`.

*ZipMap.* `ImplementsBindings`: `Set` never replaces, and lookups and deletions take the oldest
binding of the key that is filed under its hash code, and no other key's; `Zip` forgets those whose
hash code ends in a zero byte, and nothing else. Bindings that `Set` filed under another hash code
stay, and are not found. `SoundUntilHoled`: memory is corrupted only by more than 64 calls of `Set`
in the life of a map, or by a `Zip` of a map with a hole.

*SimpleDynamicString.* `ImplementsTexts`: growing, cutting and copying do to the text what they do
to a sequence, until a call goes astray; but `Trim` does nothing to it, and a view is appended with
what follows it up to the next terminator (section 4). `AstrayExplained` names the ways in which one
does, among them every `Trim` that finds its prefix; `RoomPromised` the only source of a wrong free
space; `Terminated` that searches stay inside all the same.

*Dictionary and ring.* Stated with the modules.

### Fairness

*Queue and log*: weak fairness on every step of a thread that is running, strong fairness on taking
a mutex (which is released again and again); the worker of `Log` calls `Pop` until it is stopped.
Spurious wakeups are possible and never promised; nobody has to push, to call `SetNotWait`, or to
destroy a log. *Server*: weak fairness on the event loop as a whole, a single thread; no peer has to
do anything. *IOService*: weak fairness on the loop, callbacks included (they return, unless they
wait for the pipe), and on time.

## 4. Findings

1. `SetNotWait` stores `non_block` and notifies without `put_mutex_`. A consumer between its
   predicate and its sleep misses both, and sleeps until the next `Push`, with `get_mutex_` held;
   line 40 says `Get()` then returns at once. The destructor of `Log` relies on it: its own `Pop`
   would wait for that mutex for ever (`queue_not_wait`).
2. `ProcessEvents` copies the mask before the read handler runs. When that meets end of file while
   the descriptor is also writable and a reply is waiting, the write handler is empty by the time it
   is called: `std::bad_function_call` (`server_empty_handler`).
3. `max_length`, by line 32 of `message_queue.hpp` the greatest length of the queue, bounds each of
   its two lists: in blocking mode the queue holds up to twice as many messages (`queue_bound`).

Contradicted by a comment or a test as well, but without a run of its own: the model has the
behaviour, in the definition named.

* `SIGPIPE` is not ignored. A write that reports the reset of a connection leaves its handler armed,
  and so does a read that reports it: the next reply to the same connection is written into a broken
  pipe and ends the process (`WriteBrokenPipe` of `Server`), where line 208 of `client.hpp` expects
  failures to be survived.
* `AlignExpandSize(1)` is 2, where line 252 of `dictionary.hpp` asks for the least power of two, 1
  (`OneMakesTwo`, an assumption of the run `dictionary`). From 2 on the comment is right.
* A delay of 2^63 ms or more becomes negative in `timer.hpp` line 45, and the timer is due at once,
  where line 125 says that it is due the delay after its creation (`LongDelaysAreNegative`, an
  assumption of the run `io_service`).
* A copy of a `SimpleDynamicString` keeps the free space of the original but not its allocation:
  `Avail()` (line 86) promises bytes that are not there, and `Append` writes to them. `RoomPromised`
  says that copying is the only source of it.
* `Append` of a `string_view` (line 142) appends what a reader of a C string finds at its pointer:
  more than the view, if that is the beginning of a text (`AppendView` of `SimpleDynamicString`
  appends the whole of it), and memory of others, if no terminator follows.
* `Trim` (line 154, and lines 58 to 66 of `tests/test_sds.cpp`) compares the start of the string
  with itself twice and its end never: it leaves what it is asked to take off the end, and if the
  string starts with it, the second loop does not end at zero but reads at index `SIZE_MAX`
  (`AstrayExplained`).
* Appending an empty text to an empty string (lines 18 and 135) writes a terminator through a null
  pointer (`AstrayExplained`). An empty value (`set`, a key and a trailing blank) does that to
  `result_` once `Clean` has freed its buffer.
* `ZipMap::Set` hashes its key up to the first terminator in memory, and stores `key_length` bytes:
  a key that holds a NUL byte, or is a view into a longer text, is not found by that key, as line 99
  says it is. `ImplementsBindings` says under which hash code it is.

Noticed while modelling, without a run, because no doc, comment, assertion or test says what should
be:

* the constructor of `Log` that may hang (section 2);
* a command of one word is never removed from the query buffer, and the loop over the buffer does
  not end (`ReadOneWord` of `Server`);
* a log entry as long as the buffer is written as zeros, and a server that cannot listen is ended by
  `std::terminate` before the reason is written;
* `fdEvent` of the poller is never initialised, and a first entry that is not zero makes `epoll_ctl`
  refuse the first registration, which is why the constant `StaleMasks` exists;
* a timer of 2^31 ms or more may make the wait endless, and a callback that calls `WakeUp` on a full
  pipe waits for itself;
* timers run by a clock that may be set: forward, they are early by as much;
* `Free` clears the `std::function` of the read handler while it runs (`io_service.hpp` line 145),
  and `list_.erase` then uses what it had captured; the handler of the listening socket captures
  `addClient` by reference (`server.hpp` line 89), which is out of scope when it is called;
* `CancelTimeout` has no body and no return value;
* the two ways in which `ZipMap` corrupts memory, and the keys it loses.

## 5. The proofs

`tlapm` checks every theorem below to the last leaf; the SMT backend, Zenon and LS4 are all it uses.
Constants are assumed to be what the named `ASSUME`s of each module say; TLC evaluates them in the
runs.

* **MessageQueueProofs** (any threads, capacity, number of messages): type correctness,
  `CountMatches`, `ListsBounded`, `OneConsumerWaits`, `NoLostPush`, `NoLostRoom`, and the refinement
  of `FifoQueue`. The inductive invariant adds who holds which mutex at each program counter, that a
  consumer at or past `locked` in a swap has found the get list empty, and what `swapped` says of
  the get list at `notify`. `NoLostPush` needs `OneConsumerWaits` in its step, since it is what
  guarantees that `notify_one` hits the right thread.
* **LogProofs** (any threads, entries, lengths, capacity, number of objects): `StopAgrees`,
  `AllWrittenOnce` and `FewTorn`. What they use of the queue is carried over by a lemma,
  `QueueSteps` (`LogSpec => Spec`, which the form of the actions gives). `StopAgrees`, which needs
  to know what the constructor has seen of the worker; and `AllWrittenOnce`. The last follows an
  entry from the queue to the thread that popped it to what is written: it is in exactly one of the
  three (`EntryInv`). The queue is used through its abstract view, the FIFO of
  `ImplementsFifoQueue`, whose steps the refinement gives; the buffers are empty between two entries
  (`BufferInv`), which is why no piece has another entry's cells; and the closer leaves its loop
  only on an empty queue, when no thread is pushing (`DrainInv`). A `Pop` that returns nothing must
  not look like a message: `EmptyAssumption`. `FewTorn` is not inductive either: `TearInv` counts
  what the worker may still tear once the destructor pops (three before it has popped an entry, two
  while that entry's header is the last piece, one after another piece, none when it has stopped),
  and says whose header was written last, since an entry is torn by the piece that comes behind its
  header.
* **ServerProofs** (any peers, descriptors, commands; `StaleMasks \subseteq {{}}`, that is, clear
  memory): `RegistrationsAgree`, `ClientsMatchSockets`, `WriteHandlersAlive`, `ReplyArmed`,
  `ReadHandlerReady`, `NoBlockingCall`, `NoExtraAnswer`. None is inductive alone: an agreement of
  masks says nothing of handlers, and `ReadHandlerReady` speaks of events fired earlier. The
  invariant has, besides shapes of the variables, which handler a descriptor may have given its
  owner, that connections in the backlog are distinct and not yet accepted, that a fired event was
  ready when it fired and that readiness of a descriptor in the batch can only be taken away by its
  own handler. All this is `TidyInv`, and it holds at every step but one: between `CloseFd` and
  `Free` kernel, poller, table and `list_` disagree about one descriptor. There the invariant says
  what is left of its client (`LeftOf`: its entry, listeners that no one will fire, a write handler
  that is its own) and that everyone else is tidy (`RestOf`), while peers connect, send and leave;
  `LeavingInv` has the client still in `list_` when its descriptor is closed, and nothing of the
  descriptor in the batch. `FreePreserves` puts the two together again. The lemmas state what
  `AddEventListener`, `DeleteEventListener` and `CloseDescriptor` do to one descriptor and leave
  alone in the others. `NoExtraAnswer` has an invariant of its own, `AnswerInv`, on top of that one:
  answers written or waiting never outnumber the commands that were read, since a read takes at
  least one command and gives at most one answer. `StaysUp` and `ImplementsTable` are promised to
  some peers only, and `PatientPeers` says to which: they wait for each answer, and send whole
  commands (what the constants of `server_closed_loop` say). Finding 2 and `SIGPIPE` are of peers
  that do not. The invariant is `PatientInv` (`ClosedInv` where nothing is left to tidy up): a peer
  has at most one command under way, which is either unread or answered by a reply that waits; a
  write handler is armed only while a reply waits, and a write event that is about to be handled has
  one; of a connection whose end has been read, none. So no batch has an empty handler to call, no
  write fails, no two commands merge, and a read that executes a command is the atomic step of
  `KeyValueService`; accepting, writing and closing map to its answers, its departures or to
  stutters.
* **SimpleDynamicStringProofs** (any strings, bytes, inputs, rooms; `Word` more than six times the
  bound on lengths, as 2^64 is): `Terminated`, `RoomPromised`, `AstrayExplained`, `CutsExact`, and
  the refinement of `Texts`. The invariant, `Sound`, bounds the allocation from above by `length_ +
  free_ + 1`, from below by the text, and has a terminator no later than behind the text; that the
  allocation is *not* bounded from below by `free_` is `RoomPromised`. A lemma for each call says
  what it makes of a sound string: `RangedIs` and `EmptiedIs` with the modular arithmetic of
  `Range`, also for the results of failed searches; `CStringIs`, that the first terminator of the
  buffer is where a reader of the text stops; `BackwardsIs`, that a `Range` which ends before it
  starts leaves a length no buffer has; `PrefixIs`, that a prefix of the buffer is one of the text.
  `Doing` makes steps of them.
* **DictionaryProofs** (any hash, keys, growth policy): `EntriesInBucket`, `KeysUnique`,
  `UsedCounts`, and the refinement of `FiniteMap` by all objects. `UsedCounts` needs `KeysUnique` (a
  deletion takes one entry away, and no more), and that a growth or a copy moves entries without
  losing any.
* **RingQueueProofs** (any capacity): types, `IndexesAgree` (with a lemma on the modulus), and the
  refinement of `BoundedFifo`.
* **IOServiceProofs** (any number of timers and tasks, any delays, any clock that is set forward and
  back): `TasksInOrder`, `TimersAccounted`, `NoDrift`, `NeverEarly`, `NoOversleep`. The invariant of
  the timers says of each timer in the queue that its deadline is that of its next run, and of each
  one in the batch that it is that of the run it is in: the deadline is moved only when the callback
  returns, so that neither set alone keeps to the grid. It also says that ids are unique over both,
  and that since any request the clock has moved no further than true time and what it was set
  forward. Nothing is said of the deadlines of delays beyond an `int64_t`. `NeverEarly` follows
  because a timer is taken at or after its deadline, `NoOversleep` because a finite heap has a least
  deadline, and because a wait that is too long for an `int` comes from a deadline no further ahead
  than the delay it was made of, `TimersAccounted` because the batch holds each timer that was
  popped. The arithmetic these rest on is proved there too, for any factors: the carry of
  `AddMilliseconds` is exact for every delay that is not negative (`AddExact`), `Less` and `Equal`
  compare by time, and the wait computed from a difference that is not normalised is rounded up by
  less than a millisecond (`WaitExact`).
* **ZipMapProofs** (any keys, values, hash codes, lengths, overhead, index size and growth, calls):
  `ZipFits`, `SoundUntilHoled`, and the refinement of `Bindings`. The size in the header is the sum
  of all blocks; that `wait_freed_` leaves room for what `Zip` keeps is not inductive, for a block
  with a zero low byte looks deleted and is counted only when it is deleted. `MeasuredInv` bounds
  `wait_freed_` by the lengths of the blocks that are cleared and that no entry in use stands for,
  and those `Zip` does not keep. `ConsistentInv`: entries in use stand for different blocks, in the
  order of the buffer, and for every block that `Zip` keeps, so that the first entry of a key, among
  those with its hash code, is its oldest binding there. `CountedInv`: `used_` is at least the
  number of bindings, and more once `Zip` has lost a fragile key, so that `Find` never gives up on a
  map that has the key. `RoomInv` counts the calls of `Set` against the index, and `WholeInv` says
  that holes come from `Zip` alone. Facts about sums and filters of any length (`Additive`,
  `OnlyWeighs`, `OnlyPicks`, `PicksOnly`) are proved by induction over the numbers up to the length,
  one set of numbers at a time (`Least`, `Reach`), since an induction theorem over all predicates is
  beyond the prover.

Model-checked only: liveness under fairness (`SleeperReleased`, `SetAnswered`, `DueTimerRuns`,
`TaskRuns`, `WakeUpHeard`, `EntriesWritten`), which is beyond the prover, and what two loops
compute: the binary search of `AlignExpandSize`, written as a fold, is compared with its definition
from 2 to 5000, and `Split` with its own up to 5 bytes. Every other property that a run expects to
hold is a theorem.

## 6. What is left out

* TCP: a command arrives whole, replies fit the send buffer, a read takes all there is (the code
  reads 1024 bytes). A part of a command that is read alone is a command of `Server` too, most often
  the word on which its loop hangs. Creating the listening socket.
* Descriptors of `MAX_NUMBER_OF_FD` (10240) and more: `accept` fails first. `Expand(0)`, whose shift
  is undefined.
* Builds with `NDEBUG`, where the failed assertion would be something else.
* What the compiler makes of two uses of objects whose life is over: the closure of `clientHandler`,
  which `Free` destroys while it runs, and `addClient`, which the handler of the listening socket
  refers to. The model takes both as if they were alive.
* Signed overflow of seconds and milliseconds, which is undefined: it takes a delay near 2^63 ms,
  and a second period of it or a clock that is set back. Delays of 0 to `SetInterval`, or beyond an
  `int64_t`, which run in every round.
* Which bytes follow a view or a key that no terminator ends: `AppendView` goes astray, and
  `SetHashes` is any set.
* `ServerNext` and `IOService` are two views of one loop: the server sets no timers and posts no
  tasks, and the listeners of `IOService` other than its pipe are those of `Server`.
* `Log` objects of several threads, whose count is not atomic with the test of it; `AddLogFd` after
  the first entry, which nothing does; entries for more than one descriptor.
* The `const` iterator of `RingQueue`, which ignores `front_`; `Next` of `ZipMap`; `Timer::Cancel`:
  nothing calls them.
* The select and kqueue pollers: not built on Linux, and without the `GetFdEventByFd` that
  `ProcessEvents` calls, so that the server does not compile with them. A test uses `SelectPoller`
  alone; it reports a descriptor that may be written as one to read, and never lowers `max_fd_`.
  `DeleteEvent` of `KqueuePoller` passes `EV_ADD`.
* `List` and its iterator: a wrapper of `std::forward_list`, half of whose methods are empty, that
  the server does not use. The utilities have no state.

## 7. Plan

Done: the queue, the reactor and the server, the dictionary, the ring, the event loop, the log,
`ZipMap`, in that order, because the first three carry the program and its concurrency; then the
strings, the log's buffer and its other objects, the width of the wait and the capacity of the pipe.

Every safety invariant, action property and refinement that a run expects to hold is proved. Next,
in this order:

1. What `AlignExpandSize` and `Split` compute, by the induction over a set of numbers that
   `ZipMapProofs` uses.
2. The order in which `epoll_wait` reports descriptors to `fired_fds_`, composed with `RingQueue`.
3. `SelectPoller` as a variant of `EpollReactor`, if a program comes to be built with it.
