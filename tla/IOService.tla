------------------------------ MODULE IOService ------------------------------
(***************************************************************************)
(* The event loop of net::IOService (src/net/io_service.hpp): timers       *)
(* (src/net/timer.hpp), tasks, and the pipe by which other threads wake it *)
(* (src/ipc/pipe.hpp).  Listeners of other descriptors are in EpollReactor *)
(* and Server.                                                             *)
(*                                                                         *)
(* One thread runs the loop, in which pc walks through MainLoop:           *)
(*   setup    before Run                                                   *)
(*   before   in befer_sleep_callback_                                     *)
(*   poll     in epoll_wait, for at most "left" more microseconds          *)
(*   check    about to look for timers that are due                        *)
(*   timer    in the callback of the first timer of the batch              *)
(*   events   in ProcessEvents                                             *)
(*   swap     about to take the queue of tasks                             *)
(*   task     in the first task that was taken                             *)
(*   done     MainLoop has returned                                        *)
(*   stuck    in WakeUp, writing to a pipe that only the loop would drain  *)
(* Callbacks are any code that sets timers, posts tasks, or stops the      *)
(* loop, at any moment of theirs.                                          *)
(*                                                                         *)
(* Time: "elapsed" is true time, which epoll_wait measures its timeout by; *)
(* gettimeofday shows elapsed + forward - setBack, which are by how much   *)
(* the clock was set forward and back, in any number of steps and at any   *)
(* moment.  Everything the loop does takes as long as it likes.            *)
(***************************************************************************)
EXTENDS TimeHelper, Sequences, SequencesExt, FiniteSets

CONSTANTS
  DefaultTimeout,   \* DEFAULT_TIMEOUT_MS
  RolloverSeconds,  \* the 1800 of CheckClockRollover
  Timeouts,         \* bound: the delays given to SetTimeout, in ms
  Intervals,        \* bound: the delays given to SetInterval, in ms
  ClockSteps,       \* bound: by how much the clock is set at once, in usec; back if negative
  MaxForward,       \* bound: by how much it is set forward in all
  MaxSetBack,       \* bound: by how much it is set back in all
  StartOfClock,     \* bound: what gettimeofday shows at first
  MaxRequests,      \* bound: timers ever set and tasks ever posted
  MaxInt,           \* INT_MAX: epoll_wait takes its timeout as an int
  MaxLong,          \* INT64_MAX: AddMilliseconds takes a uint64_t delay as an int64_t
  PipeCapacity,     \* the bytes notify_pipe_ holds
  MaxWakeUps,       \* bound: calls of WakeUp that return
  MaxTime           \* bound: when time stops

ASSUME DelayAssumption ==
  /\ MaxInt \in Nat /\ MaxLong \in Nat /\ MaxInt <= MaxLong
  /\ Timeouts \cup Intervals \subseteq 0 .. 2 * MaxLong + 1
  /\ DefaultTimeout \in 0 .. MaxInt
ASSUME PipeAssumption == PipeCapacity \in Nat \ {0}
ASSUME ClockAssumption ==
  /\ RolloverSeconds \in Nat /\ StartOfClock \in Nat /\ MaxTime \in Nat
  /\ ClockSteps \subseteq Int /\ MaxForward \in Nat /\ MaxSetBack \in 0 .. StartOfClock

VARIABLES
  pc,
  stop,        \* stop_
  timers,      \* timer_queue_, a set of Timers
  batch,       \* timeout_timers, what is left of it
  lastCheck,   \* last_rollover_check_time_
  tasks,       \* pending_task_queue_
  running,     \* the tasks that ProcessPendingTask took, what is left of them
  pipe,        \* how many bytes are in notify_pipe_
  active,      \* active_event_size > 0
  left,        \* how long epoll_wait will wait yet; for ever if it is negative
  elapsed, forward, setBack,
  jumped,      \* history: by how much it was set forward since the loop has read it to wait
  made,        \* history: the timers ever set, by id
  runs,        \* history: how often each of them was taken to be run
  finished,    \* history: the tasks that were run
  wakeUps,     \* history: how often WakeUp was called
  rolled       \* history: CheckClockRollover has returned true

vars == <<pc, stop, timers, batch, lastCheck, tasks, running, pipe, active, left,
          elapsed, forward, setBack, jumped, made, runs, finished, wakeUps, rolled>>

Clock == StartOfClock + elapsed + forward - setBack
Now == Timeval(Clock)

Init ==
  /\ pc = "setup"
  /\ stop = FALSE
  /\ timers = {}
  /\ batch = <<>>
  /\ lastCheck = <<0, 0>>
  /\ tasks = <<>>
  /\ running = <<>>
  /\ pipe = 0
  /\ active = FALSE
  /\ left = 0
  /\ elapsed = 0
  /\ forward = 0
  /\ setBack = 0
  /\ jumped = 0
  /\ made = <<>>
  /\ runs = <<>>
  /\ finished = <<>>
  /\ wakeUps = 0
  /\ rolled = FALSE

-----------------------------------------------------------------------------
(* What callbacks may do, and the program before Run *)

InCallback == pc \in {"setup", "before", "timer", "events", "task"}

Posted == Len(finished) + Len(running) + Len(tasks)

MayRequest == InCallback /\ Len(made) + Posted < MaxRequests

\* The delay as AddMilliseconds takes it.
Signed(delay) == ToSigned(delay, MaxLong)

SetTimer(delay, circle) ==
  /\ MayRequest
  /\ timers' = timers \cup {[id |-> Len(made) + 1, due |-> AddMilliseconds(Now, Signed(delay)),
                             delay |-> delay, circle |-> circle]}
  /\ made' = Append(made, [at |-> elapsed, forward |-> forward, clock |-> Clock,
                           delay |-> delay, circle |-> circle])
  /\ runs' = Append(runs, 0)
  /\ UNCHANGED <<pc, stop, batch, lastCheck, tasks, running, pipe, active, left,
                 elapsed, forward, setBack, jumped, finished, wakeUps, rolled>>

SetTimeout == \E delay \in Timeouts : SetTimer(delay, FALSE)
SetInterval == \E delay \in Intervals : SetTimer(delay, TRUE)

RunInLoop ==
  /\ MayRequest
  /\ tasks' = Append(tasks, Posted + 1)
  /\ UNCHANGED <<pc, stop, timers, batch, lastCheck, running, pipe, active, left,
                 elapsed, forward, setBack, jumped, made, runs, finished, wakeUps, rolled>>

Stop ==
  /\ InCallback
  /\ ~stop
  /\ stop' = TRUE
  /\ UNCHANGED <<pc, timers, batch, lastCheck, tasks, running, pipe, active, left,
                 elapsed, forward, setBack, jumped, made, runs, finished, wakeUps, rolled>>

-----------------------------------------------------------------------------
(* MainLoop *)

NextRound == IF stop THEN "done" ELSE "before"

Run ==
  /\ pc = "setup"
  /\ pc' = NextRound
  /\ UNCHANGED <<stop, timers, batch, lastCheck, tasks, running, pipe, active, left,
                 elapsed, forward, setBack, jumped, made, runs, finished, wakeUps, rolled>>

\* The earliest deadline of a timer in the queue.
Nearest_Last == (CHOOSE t \in timers : \A u \in timers : ~Less(t.due, u.due)).due
Nearest == (CHOOSE t \in timers : \A u \in timers : ~Less(u.due, t.due)).due

GetNearestTimerTimeout_Negative ==
  IF timers = {} THEN DefaultTimeout ELSE ToMilliseconds(Subtract(Nearest, Now))
GetNearestTimerTimeout ==
  IF timers = {} THEN DefaultTimeout
  ELSE LET ms == ToMilliseconds(Subtract(Nearest, Now)) IN IF ms > 0 THEN ms ELSE 0

\* Poll takes it as an int.
Wait == ToSigned(IF tasks # <<>> THEN 0 ELSE GetNearestTimerTimeout, MaxInt) * UsecPerMsec

BeforePoll ==
  /\ pc = "before"
  /\ left' = Wait
  /\ jumped' = 0
  /\ pc' = "poll"
  /\ UNCHANGED <<stop, timers, batch, lastCheck, tasks, running, pipe, active,
                 elapsed, forward, setBack, made, runs, finished, wakeUps, rolled>>

\* epoll_wait returns for a byte in the pipe, or when its time is up.
PollEnds_ByTimeOnly == left = 0
PollEnds == pipe > 0 \/ left = 0

PollReturns ==
  /\ pc = "poll"
  /\ PollEnds
  /\ active' = (pipe > 0)
  /\ left' = 0
  /\ pc' = "check"
  /\ UNCHANGED <<stop, timers, batch, lastCheck, tasks, running, pipe,
                 elapsed, forward, setBack, jumped, made, runs, finished, wakeUps, rolled>>

-----------------------------------------------------------------------------
(* ProcessTimeoutTimer *)

CheckClockRollover ==
  /\ Less(Now, lastCheck)
  /\ ToSeconds(Subtract(lastCheck, Now)) > RolloverSeconds

Due_BySecond(t) == Less(t.due, Now) \/ ToSeconds(t.due) = ToSeconds(Now)
Due(t) == Less(t.due, Now) \/ Equal(t.due, Now)

\* What is popped from timer_queue_: the timers that are due, or all of them if
\* the clock was set back far.
Taken == {t \in timers : CheckClockRollover \/ Due(t)}

\* The orders in which a heap may give them: by deadline, ties as they come.
HeapOrders(S) ==
  {s \in SetToSeqs(S) : \A i, j \in DOMAIN s : i < j => ~Less(s[j].due, s[i].due)}

AfterTimers == IF active THEN "events" ELSE "swap"

TakeTimers ==
  /\ pc = "check"
  /\ batch' \in HeapOrders(Taken)
  /\ timers' = timers \ Taken
  /\ lastCheck' = Now
  /\ runs' = [id \in DOMAIN runs |-> IF \E t \in Taken : t.id = id THEN runs[id] + 1 ELSE runs[id]]
  /\ rolled' = (rolled \/ CheckClockRollover)
  /\ pc' = IF Taken = {} THEN AfterTimers ELSE "timer"
  /\ UNCHANGED <<stop, tasks, running, pipe, active, left, elapsed, forward, setBack, jumped, made,
                 finished, wakeUps>>

\* A periodic timer goes back to the queue when its callback has returned.
UpdateNextCircle_FromNow(t) == [t EXCEPT !.due = AddMilliseconds(Now, Signed(t.delay))]
UpdateNextCircle(t) == [t EXCEPT !.due = AddMilliseconds(t.due, Signed(t.delay))]

PutBack_Always(t) == {UpdateNextCircle(t)}
PutBack(t) == IF t.circle THEN {UpdateNextCircle(t)} ELSE {}

TimerReturns ==
  /\ pc = "timer"
  /\ timers' = timers \cup PutBack(Head(batch))
  /\ batch' = Tail(batch)
  /\ pc' = IF batch' = <<>> THEN AfterTimers ELSE "timer"
  /\ UNCHANGED <<stop, lastCheck, tasks, running, pipe, active, left, elapsed, forward, setBack, jumped,
                 made, runs, finished, wakeUps, rolled>>

-----------------------------------------------------------------------------
(* ProcessEvents, ProcessPendingTask *)

\* ProcessWakeUpNotify reads until the pipe is empty.
ProcessEvents ==
  /\ pc = "events"
  /\ pipe' = 0
  /\ active' = FALSE
  /\ pc' = "swap"
  /\ UNCHANGED <<stop, timers, batch, lastCheck, tasks, running, left,
                 elapsed, forward, setBack, jumped, made, runs, finished, wakeUps, rolled>>

\* The queue is swapped with an empty one.
TasksAfterTake_Copied == tasks
TasksAfterTake == <<>>

TakeTasks ==
  /\ pc = "swap"
  /\ running' = tasks
  /\ tasks' = TasksAfterTake
  /\ pc' = IF tasks = <<>> THEN NextRound ELSE "task"
  /\ UNCHANGED <<stop, timers, batch, lastCheck, pipe, active, left, elapsed, forward, setBack, jumped,
                 made, runs, finished, wakeUps, rolled>>

\* Tasks that were posted meanwhile stay in the queue.
TasksAfterRun_Cleared == <<>>
TasksAfterRun == tasks

TaskReturns ==
  /\ pc = "task"
  /\ finished' = Append(finished, Head(running))
  /\ running' = Tail(running)
  /\ tasks' = TasksAfterRun
  /\ pc' = IF running' = <<>> THEN NextRound ELSE "task"
  /\ UNCHANGED <<stop, timers, batch, lastCheck, pipe, active, left, elapsed, forward, setBack, jumped,
                 made, runs, wakeUps, rolled>>

-----------------------------------------------------------------------------
(* Other threads, and time, until the loop has ended *)

\* A writer waits for room in the pipe.
WakeUp ==
  /\ pc \notin {"done", "stuck"}
  /\ wakeUps < MaxWakeUps
  /\ pipe < PipeCapacity
  /\ wakeUps' = wakeUps + 1
  /\ pipe' = pipe + 1
  /\ UNCHANGED <<pc, stop, timers, batch, lastCheck, tasks, running, active, left,
                 elapsed, forward, setBack, jumped, made, runs, finished, rolled>>

\* So does a callback that calls WakeUp itself, but for ever.
WakeUpBlocks ==
  /\ InCallback
  /\ pipe = PipeCapacity
  /\ pc' = "stuck"
  /\ UNCHANGED <<stop, timers, batch, lastCheck, tasks, running, pipe, active, left,
                 elapsed, forward, setBack, jumped, made, runs, finished, wakeUps, rolled>>

\* A wait ends also when the time of the model has come to its end.
Tick ==
  /\ pc \notin {"done", "stuck"}
  /\ elapsed < MaxTime \/ left > 0
  /\ elapsed' = IF elapsed < MaxTime THEN elapsed + 1 ELSE elapsed
  /\ left' = IF left > 0 THEN left - 1 ELSE left
  /\ UNCHANGED <<pc, stop, timers, batch, lastCheck, tasks, running, pipe, active,
                 forward, setBack, jumped, made, runs, finished, wakeUps, rolled>>

\* An administrator or a time service sets the clock.
SetClock ==
  /\ pc \notin {"done", "stuck"}
  /\ \E step \in ClockSteps :
       IF step > 0
       THEN /\ forward + step <= MaxForward
            /\ forward' = forward + step
            /\ jumped' = jumped + step
            /\ UNCHANGED setBack
       ELSE /\ setBack - step <= MaxSetBack
            /\ setBack' = setBack - step
            /\ UNCHANGED <<forward, jumped>>
  /\ UNCHANGED <<pc, stop, timers, batch, lastCheck, tasks, running, pipe, active, left,
                 elapsed, made, runs, finished, wakeUps, rolled>>

-----------------------------------------------------------------------------
MainLoop ==
  \/ BeforePoll \/ PollReturns \/ TakeTimers \/ TimerReturns
  \/ ProcessEvents \/ TakeTasks \/ TaskReturns

Callback == SetTimeout \/ SetInterval \/ RunInLoop \/ Stop \/ WakeUpBlocks

Next == Run \/ MainLoop \/ Callback \/ WakeUp \/ Tick \/ SetClock

Spec == Init /\ [][Next]_vars

\* Callbacks return, the loop keeps running, and time passes.
FairSpec == Spec /\ WF_vars(MainLoop) /\ WF_vars(Tick)

-----------------------------------------------------------------------------
(* Safety *)

Timer == [id : 1 .. MaxRequests, due : Int \X Int, delay : Nat, circle : BOOLEAN]

\* The variables have the types of the members they stand for.
TypeOK ==
  /\ pc \in {"setup", "before", "poll", "check", "timer", "events", "swap", "task", "done", "stuck"}
  /\ stop \in BOOLEAN /\ active \in BOOLEAN /\ rolled \in BOOLEAN
  /\ timers \subseteq Timer
  /\ batch \in Seq(Timer)
  /\ lastCheck \in Nat \X Nat
  /\ tasks \in Seq(1 .. MaxRequests) /\ running \in Seq(1 .. MaxRequests) /\ finished \in Seq(1 .. MaxRequests)
  /\ pipe \in 0 .. PipeCapacity /\ left \in Int /\ elapsed \in Nat /\ wakeUps \in Nat
  /\ forward \in Nat /\ setBack \in 0 .. StartOfClock /\ jumped \in Nat
  /\ made \in Seq([at : Nat, forward : Nat, clock : Nat, delay : Nat, circle : BOOLEAN])
  /\ runs \in Seq(Nat) /\ Len(runs) = Len(made)

Places(id) ==
  Cardinality({t \in timers : t.id = id}) + Cardinality({i \in DOMAIN batch : batch[i].id = id})

\* No timer is lost or doubled between timer_queue_ and timeout_timers (lines
\* 238-265): a periodic timer is always in one of the two, and a timeout waits
\* in the queue until it is taken, once.
TimersAccounted ==
  \A id \in DOMAIN made :
    IF made[id].circle THEN Places(id) = 1
    ELSE /\ Places(id) <= 1 /\ runs[id] <= 1
         /\ runs[id] = 0 <=> \E t \in timers : t.id = id

\* Until a rollover is detected, the k-th run of a timer is not started before k
\* times its delay have passed, in true time, but for what the clock was set
\* forward meanwhile: carries, the rounding of the wait and clocks that are set
\* back never make it early.  It holds of delays that an int64_t can hold.
NeverEarly ==
  ~rolled => \A id \in DOMAIN made :
    made[id].delay <= MaxLong =>
      runs[id] * made[id].delay * UsecPerMsec
        <= (elapsed - made[id].at) + (forward - made[id].forward)

\* Periodic timers do not drift (lines 86-90 of timer.hpp): however late a
\* callback is run, and also after a rollover, the next deadline is a multiple of the
\* delay after the creation, for delays that an int64_t can hold.
NoDrift ==
  \A t \in timers :
    t.delay <= MaxLong =>
      /\ Normalised(t.due)
      /\ ToMicroseconds(t.due) = made[t.id].clock + (runs[t.id] + 1) * t.delay * UsecPerMsec

\* epoll_wait never waits past the deadline of a timer whose delay an int64_t
\* can hold, but for less than the millisecond by which the wait may be rounded up and
\* what the clock is set forward meanwhile, and never while a task is in the queue
\* (lines 355-363); it waits without end only if every timer was set with more
\* milliseconds than an int holds, or the clock was set back.
NoOversleep ==
  pc = "poll" =>
    /\ \A t \in timers :
         left <= 0 \/ t.delay > MaxLong
           \/ Clock + left < ToMicroseconds(t.due) + UsecPerMsec + jumped
    /\ tasks # <<>> => left = 0
    /\ left < 0 /\ setBack = 0 /\ ~rolled =>
         timers # {} /\ \A t \in timers : t.delay > MaxInt

\* Every task is run once, in the order of the calls of RunInLoop, also when
\* tasks post tasks.
TasksInOrder ==
  LET all == finished \o running \o tasks
  IN  \A i \in DOMAIN all : all[i] = i

-----------------------------------------------------------------------------
(* Liveness, once Run was called *)

IsDue(id) == \E t \in timers : t.id = id /\ Due(t)

\* The loop will not go on: it was stopped, or one of its callbacks waits for it.
Ended == stop \/ pc = "stuck"

\* The wait is without end, for a timer that was set too far ahead or because
\* the clock was set back.
WaitsForEver ==
  left < 0 /\ (setBack > 0 \/ \E id \in DOMAIN made : made[id].delay > MaxInt)

\* A timer that is due is taken, unless the clock is set back or epoll_wait was
\* given too long a wait.
DueTimerRuns ==
  \A id \in 1 .. MaxRequests :
    (pc # "setup" /\ IsDue(id)) ~> (Ended \/ ~IsDue(id) \/ WaitsForEver)

\* A task that was posted is run.
TaskRuns ==
  \A n \in 1 .. MaxRequests : (pc # "setup" /\ Posted >= n) ~> (Ended \/ Len(finished) >= n)

\* Line 186: WakeUp ends a wait, and be it without end, and the byte it wrote is
\* taken from the pipe.
WakeUpHeard == (pc # "setup" /\ pipe > 0) ~> (Ended \/ pipe = 0)
==============================================================================
