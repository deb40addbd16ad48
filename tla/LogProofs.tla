------------------------------ MODULE LogProofs ------------------------------
(***************************************************************************)
(* Proofs about Log, for any number of threads and messages, any capacity, *)
(* any texts, any buffer of more than two cells:                           *)
(*   - the flag by which the worker is started and stopped is never out of *)
(*     step with the two threads that write it;                            *)
(*   - every entry is written whole, once, before the last Log is gone;    *)
(*   - all but three are written unbroken.                                 *)
(* The second follows an entry from the queue, a FIFO queue by what        *)
(* MessageQueueProofs shows, to a thread that pops, and to what is written.*)
(***************************************************************************)
EXTENDS Log, MessageQueueProofs, FiniteSetTheorems

-----------------------------------------------------------------------------
(* The queue *)

\* By their definitions the steps of a Log are steps of its MessageQueue or leave it
\* alone, so that the invariants of the one are invariants of the other.
LEMMA QueueSteps == LogSpec => Spec
<1>1. LogInit => Init
  BY DEF LogInit
<1>2. ASSUME [LogNext]_allVars PROVE [Next]_vars
  <2>1. CASE Constructor
    BY <2>1 DEF Constructor, CreateWorker, TestStarted, SleepUntilStarted, WakeSpuriously
  <2>2. CASE WorkerFunction
    <3>1. CASE WorkerPops
      <4>1. Worker \in Consumers
        BY ConsumersAssumption
      <4>2. PopLock(Worker) \/ ConsumerNext(Worker)
        BY <3>1 DEF WorkerPops
      <4>3. ConsumerNext(Worker)
        BY <4>2 DEF ConsumerNext
      <4> QED  BY <4>1, <4>3 DEF Next
    <3> QED  BY <2>2, <3>1 DEF WorkerFunction, WorkerStarts, WorkerTells, WorkerTests, WorkerWrites,
              WorkerWritesText
  <2>3. CASE Destructor
    <3>1. CASE CloserPops
      <4>1. Closer \in Consumers
        BY ConsumersAssumption
      <4>2. PopLock(Closer) \/ ConsumerNext(Closer)
        BY <3>1 DEF CloserPops
      <4>3. ConsumerNext(Closer)
        BY <4>2 DEF ConsumerNext
      <4> QED  BY <4>1, <4>3 DEF Next
    <3>2. CASE SwitchQueue
      BY <3>2 DEF SwitchQueue, Next
    <3> QED  BY <2>3, <3>1, <3>2 DEF Destructor, Destroy, CloserWrites, CloserWritesText,
              Join
  <2>4. CASE \E p \in Producers : Post(p)
    BY <2>4 DEF Post, Next
  <2>5. CASE OtherObjects
    BY <2>5 DEF OtherObjects, AnotherLog, ReleaseLog, Exit
  <2>6. CASE UNCHANGED allVars
    BY <2>6 DEF allVars
  <2> QED  BY <1>2, <2>1, <2>2, <2>3, <2>4, <2>5, <2>6 DEF LogNext
<1> QED  BY <1>1, <1>2, PTL DEF LogSpec, Spec

-----------------------------------------------------------------------------
(* The flag *)

Constructing == {"start", "test", "deciding", "waiting"}
Working == {"tell", "loop", "pop", "popping", "text"}

\* StopAgrees is not inductive: that the worker cannot still be about to store
\* stop_ = false when the destructor stores true rests on what the constructor
\* waited for, and the destructor stops it only when the count is down to none.
FlagInv ==
  /\ worker \in {"unborn", "born", "ended"} \cup Working
  /\ life \in {"alive", "aborted"} \cup Constructing \cup Destroying
  /\ objects \in Nat
  /\ life = "start" <=> worker = "unborn"
  /\ worker \in {"unborn", "born"} => stop
  /\ life \in Constructing /\ worker \notin {"unborn", "born"} =>
       ~stop /\ worker \in Working
  /\ life \in {"alive", "aborted"} => ~stop /\ worker \in Working /\ objects > 0
  /\ life \in Constructing \ {"start"} => objects = 1
  /\ life \in Destroying => stop /\ objects = 0 /\ worker \notin {"unborn", "born"}

LEMMA FlagInit == LogInit => FlagInv
BY DEF LogInit, FlagInv, Constructing, Destroying, Working

LEMMA FlagStep == FlagInv /\ [LogNext]_allVars => FlagInv'
<1> SUFFICES ASSUME FlagInv, [LogNext]_allVars PROVE FlagInv'
  OBVIOUS
<1> USE DEF FlagInv, Constructing, Destroying, Working
<1>1. CASE Constructor
  <2>1. CASE CreateWorker
    BY <2>1 DEF CreateWorker
  <2>2. CASE TestStarted
    BY <2>2 DEF TestStarted, ConstructorWaits
  <2>3. CASE SleepUntilStarted
    BY <2>3 DEF SleepUntilStarted
  <2>4. CASE WakeSpuriously
    BY <2>4 DEF WakeSpuriously
  <2> QED  BY <1>1, <2>1, <2>2, <2>3, <2>4 DEF Constructor
<1>2. CASE WorkerFunction
  <2>1. CASE WorkerStarts
    BY <2>1 DEF WorkerStarts
  <2>2. CASE WorkerTells
    BY <2>2 DEF WorkerTells
  <2>3. CASE WorkerTests
    BY <2>3 DEF WorkerTests, WorkerStops
  <2>4. CASE WorkerPops
    BY <2>4 DEF WorkerPops, logVars
  <2>5. CASE WorkerWrites
    BY <2>5 DEF WorkerWrites
  <2>6. CASE WorkerWritesText
    BY <2>6 DEF WorkerWritesText
  <2> QED  BY <1>2, <2>1, <2>2, <2>3, <2>4, <2>5, <2>6 DEF WorkerFunction
<1>3. CASE Destructor
  <2>1. CASE Destroy
    BY <2>1 DEF Destroy, LastObject
  <2>2. CASE SwitchQueue
    BY <2>2 DEF SwitchQueue
  <2>3. CASE CloserPops
    BY <2>3 DEF CloserPops, logVars
  <2>4. CASE CloserWrites
    BY <2>4 DEF CloserWrites
  <2>5. CASE Join
    BY <2>5 DEF Join
  <2>6. CASE CloserWritesText
    BY <2>6 DEF CloserWritesText, AfterDrain
  <2> QED  BY <1>3, <2>1, <2>2, <2>3, <2>4, <2>5, <2>6 DEF Destructor
<1>4. CASE \E p \in Producers : Post(p)
  BY <1>4 DEF Post, logVars
<1>5. CASE OtherObjects
  <2>1. CASE AnotherLog
    BY <2>1 DEF AnotherLog
  <2>2. CASE ReleaseLog
    BY <2>2 DEF ReleaseLog
  <2>3. CASE Exit
    BY <2>3 DEF Exit
  <2> QED  BY <1>5, <2>1, <2>2, <2>3 DEF OtherObjects
<1>6. CASE UNCHANGED allVars
  BY <1>6 DEF allVars, logVars
<1> QED  BY <1>1, <1>2, <1>3, <1>4, <1>5, <1>6 DEF LogNext

\* While a constructed Log is left the worker goes round, and its stop_ = false
\* never undoes the last destructor's stop_ = true (lines 189-197, 211-214 and
\* 288), for any threads, capacity, entries and number of objects.
THEOREM StopAgreesCorrect == LogSpec => []StopAgrees
<1>1. FlagInv => StopAgrees
  BY DEF FlagInv, StopAgrees, Constructing, Destroying, Working
<1> QED  BY <1>1, FlagInit, FlagStep, PTL DEF LogSpec
-----------------------------------------------------------------------------
(* The entries *)

Among(x, s) == \E i \in DOMAIN s : s[i] = x
Distinct(s) == \A i, j \in DOMAIN s : s[i] = s[j] => i = j

Phase(c) == IF c = Worker THEN worker ELSE life

\* c has popped an entry, and has not written the whole of it.
Holds(c) == Phase(c) \in {"popping", "text"} /\ result[c] # Empty

Pieces == {Header(m) : m \in Message} \cup {Text(m) : m \in Message}

\* Nobody is in Pop but a thread that is popping, and nobody is in Push when the
\* last Log is destroyed.
ThreadInv ==
  /\ \A c \in Consumers : pc[c] # "idle" => Phase(c) = "popping" /\ result[c] = Empty
  /\ \A c \in Consumers : Phase(c) = "text" => result[c] # Empty
  /\ life \in Destroying => \A p \in Producers : pc[p] = "idle"

\* Between two entries a buffer is empty, whatever its cells hold.
BufferInv ==
  /\ DOMAIN buffer = Consumers
  /\ \A c \in Consumers : buffer[c] = [data |-> buffer[c].data, used |-> 0]

WrittenInv ==
  /\ written \in Seq(Pieces)
  /\ Distinct(written)
  /\ \A m \in Message : \A i \in DOMAIN written :
       written[i] = Text(m) => \E j \in 1 .. i : written[j] = Header(m)
  /\ \A m \in Message : Among(Header(m), written) => Pushed(m)

\* An entry is in the queue once, or with one thread, or written.
QueuedInv ==
  /\ contents \in Seq(Message)
  /\ Distinct(contents)
  /\ \A m \in Message : Among(m, contents) => Pushed(m) /\ ~Among(Header(m), written)

HeldInv ==
  \A c \in Consumers : Holds(c) =>
    /\ result[c] \in Message
    /\ Pushed(result[c])
    /\ ~Among(result[c], contents)
    /\ Among(Header(result[c]), written) <=> Phase(c) = "text"
    /\ ~Among(Text(result[c]), written)
    /\ \A d \in Consumers : Holds(d) /\ result[d] = result[c] => d = c

KeptInv ==
  \A m \in Message : Pushed(m) =>
    \/ Among(m, contents)
    \/ \E c \in Consumers : Holds(c) /\ result[c] = m
    \/ Among(Text(m), written)

\* The closer stops when it has seen the queue empty, and nothing is posted then.
DrainInv ==
  /\ life = "popping" /\ Closer \notin asking /\ result[Closer] = Empty => contents = <<>>
  /\ life \in {"join", "gone"} => contents = <<>>
  /\ life = "gone" => worker = "ended"

EntryInv == WrittenInv /\ QueuedInv /\ HeldInv /\ KeptInv

-----------------------------------------------------------------------------
(* Sequences whose elements are distinct *)

\* Appending a new element keeps them distinct.
LEMMA AppendAdds ==
  ASSUME NEW S, NEW s \in Seq(S), NEW e \in S
  PROVE  /\ \A x : Among(x, Append(s, e)) <=> Among(x, s) \/ x = e
         /\ Distinct(s) /\ ~Among(e, s) => Distinct(Append(s, e))
<1>1. /\ Append(s, e) \in Seq(S)
      /\ Len(Append(s, e)) = Len(s) + 1
      /\ \A i \in 1 .. Len(s) : Append(s, e)[i] = s[i]
      /\ Append(s, e)[Len(s) + 1] = e
  BY AppendProperties
<1>2. /\ DOMAIN s = 1 .. Len(s) /\ Len(s) \in Nat
      /\ DOMAIN Append(s, e) = 1 .. Len(s) + 1
  BY <1>1
<1>3. ASSUME NEW x PROVE Among(x, Append(s, e)) <=> Among(x, s) \/ x = e
  <2>1. CASE Among(x, Append(s, e))
    <3>1. PICK i \in 1 .. Len(s) + 1 : Append(s, e)[i] = x
      BY <1>2, <2>1 DEF Among
    <3> QED  BY <1>1, <1>2, <2>1, <3>1 DEF Among
  <2>2. CASE Among(x, s)
    <3>1. PICK i \in 1 .. Len(s) : s[i] = x
      BY <1>2, <2>2 DEF Among
    <3>2. i \in 1 .. Len(s) + 1 /\ Append(s, e)[i] = x
      BY <1>1, <1>2, <3>1
    <3> QED  BY <1>2, <2>2, <3>2 DEF Among
  <2>3. CASE x = e
    <3>1. Len(s) + 1 \in 1 .. Len(s) + 1
      BY <1>2
    <3> QED  BY <1>1, <1>2, <2>3, <3>1 DEF Among
  <2> QED  BY <2>1, <2>2, <2>3
<1>4. ASSUME Distinct(s), ~Among(e, s) PROVE Distinct(Append(s, e))
  <2> SUFFICES ASSUME NEW i \in 1 .. Len(s) + 1, NEW j \in 1 .. Len(s) + 1,
                      Append(s, e)[i] = Append(s, e)[j]
               PROVE  i = j
    BY <1>2 DEF Distinct
  <2>1. \A k \in 1 .. Len(s) : s[k] # e
    BY <1>2, <1>4 DEF Among
  <2>2. CASE i \in 1 .. Len(s) /\ j \in 1 .. Len(s)
    BY <1>1, <1>2, <1>4, <2>2 DEF Distinct
  <2>3. CASE i = Len(s) + 1 \/ j = Len(s) + 1
    BY <1>1, <1>2, <2>1, <2>3
  <2> QED  BY <1>2, <2>2, <2>3
<1> QED  BY <1>3, <1>4

\* Taking the head removes it, and nothing else.
LEMMA TailRemoves ==
  ASSUME NEW S, NEW s \in Seq(S), s # <<>>, Distinct(s)
  PROVE  /\ Among(Head(s), s)
         /\ Distinct(Tail(s))
         /\ \A x : Among(x, Tail(s)) <=> Among(x, s) /\ x # Head(s)
<1>1. /\ Tail(s) \in Seq(S)
      /\ Len(Tail(s)) = Len(s) - 1
      /\ \A i \in 1 .. Len(Tail(s)) : Tail(s)[i] = s[i + 1]
  BY HeadTailProperties
<1>2. /\ DOMAIN s = 1 .. Len(s) /\ Len(s) \in Nat \ {0}
      /\ DOMAIN Tail(s) = 1 .. Len(s) - 1
      /\ Head(s) = s[1]
  BY <1>1, EmptySeq, LenProperties
<1>3. \A i \in 1 .. Len(s) - 1 : Tail(s)[i] = s[i + 1] /\ i + 1 \in 1 .. Len(s)
  BY <1>1, <1>2
<1>4. Among(Head(s), s)
  BY <1>2 DEF Among
<1>5. Distinct(Tail(s))
  BY <1>2, <1>3 DEF Distinct
<1>6. ASSUME NEW x PROVE Among(x, Tail(s)) <=> Among(x, s) /\ x # Head(s)
  <2>1. ASSUME Among(x, Tail(s)) PROVE Among(x, s) /\ x # Head(s)
    <3>1. PICK i \in 1 .. Len(s) - 1 : Tail(s)[i] = x
      BY <1>2, <2>1 DEF Among
    <3> QED  BY <1>2, <1>3, <3>1 DEF Among, Distinct
  <2>2. ASSUME Among(x, s), x # Head(s) PROVE Among(x, Tail(s))
    <3>1. PICK i \in 1 .. Len(s) : s[i] = x
      BY <1>2, <2>2 DEF Among
    <3>2. i - 1 \in 1 .. Len(s) - 1 /\ (i - 1) + 1 = i
      BY <1>2, <2>2, <3>1
    <3>3. Tail(s)[i - 1] = x
      BY <1>3, <3>1, <3>2
    <3> QED  BY <1>2, <3>2, <3>3 DEF Among
  <2> QED  BY <2>1, <2>2
<1> QED  BY <1>4, <1>5, <1>6

-----------------------------------------------------------------------------
(* What LogTo writes *)

LEMMA OneCell ==
  ASSUME NEW S, NEW s \in Seq(S), NEW x \in S, Len(s) = 1, s[1] = x
  PROVE  s = <<x>>
<1>1. <<x>> \in Seq(S) /\ Len(<<x>>) = 1 /\ <<x>>[1] = x
  OBVIOUS
<1>2. \A i \in 1 .. Len(s) : s[i] = <<x>>[i]
  BY <1>1
<1> QED  BY <1>1, <1>2, SeqEqual

\* The part of a pair of cells that begins at i and ends at j.
LEMMA PartOfPair ==
  ASSUME NEW f, NEW x, NEW y, f[1] = x, f[2] = y
  PROVE  /\ SubSeq(f, 1, 1) = <<x>>
         /\ SubSeq(f, 2, 2) = <<y>>
         /\ SubSeq(f, 1, 2) = <<x, y>>
<1>1. \A i \in 1 .. 2 : f[i] \in {x, y}
  OBVIOUS
<1>2. SubSeq(f, 1, 1) = <<x>>
  <2>1. /\ SubSeq(f, 1, 1) \in Seq({x, y})
        /\ Len(SubSeq(f, 1, 1)) = IF 1 <= 1 THEN 1 - 1 + 1 ELSE 0
        /\ \A k \in 1 .. 1 - 1 + 1 : SubSeq(f, 1, 1)[k] = f[1 + k - 1]
    BY <1>1, SubSeqProperties
  <2> DEFINE s == SubSeq(f, 1, 1)
  <2>2. s \in Seq({x, y}) /\ Len(s) = 1 /\ s[1] = x
    BY <2>1
  <2> HIDE DEF s
  <2>3. s = <<x>>
    BY <2>2, OneCell
  <2> QED  BY <2>3 DEF s
<1>3. SubSeq(f, 2, 2) = <<y>>
  <2>1. /\ SubSeq(f, 2, 2) \in Seq({x, y})
        /\ Len(SubSeq(f, 2, 2)) = IF 2 <= 2 THEN 2 - 2 + 1 ELSE 0
        /\ \A k \in 1 .. 2 - 2 + 1 : SubSeq(f, 2, 2)[k] = f[2 + k - 1]
    BY <1>1, SubSeqProperties
  <2> DEFINE s == SubSeq(f, 2, 2)
  <2>2. s \in Seq({x, y}) /\ Len(s) = 1 /\ s[1] = y
    BY <2>1
  <2> HIDE DEF s
  <2>3. s = <<y>>
    BY <2>2, OneCell
  <2> QED  BY <2>3 DEF s
<1>4. SubSeq(f, 1, 2) = <<x, y>>
  <2>1. /\ SubSeq(f, 1, 2) \in Seq({x, y})
        /\ Len(SubSeq(f, 1, 2)) = IF 1 <= 2 THEN 2 - 1 + 1 ELSE 0
        /\ \A i \in 1 .. 2 - 1 + 1 : SubSeq(f, 1, 2)[i] = f[1 + i - 1]
    BY <1>1, SubSeqProperties
  <2>2. <<x, y>> \in Seq({x, y}) /\ Len(<<x, y>>) = 2 /\ <<x, y>>[1] = x /\ <<x, y>>[2] = y
    OBVIOUS
  <2> DEFINE s == SubSeq(f, 1, 2)
  <2>3. s \in Seq({x, y}) /\ Len(s) = 2 /\ s[1] = x /\ s[2] = y
    BY <2>1
  <2> HIDE DEF s
  <2>4. \A i \in 1 .. Len(s) : s[i] = <<x, y>>[i]
    BY <2>2, <2>3
  <2>5. s = <<x, y>>
    BY <2>2, <2>3, <2>4, SeqEqual
  <2> QED  BY <2>5 DEF s
<1> QED  BY <1>2, <1>3, <1>4

LEMMA FormattedBuffer ==
  ASSUME NEW d, NEW u, NEW text
  PROVE  Formatted([data |-> d, used |-> u], text)
           = [data |-> Written(d, 0, Append(Fit(text), Nul)), used |-> u]
BY DEF Formatted

LEMMA ClearedBuffer ==
  ASSUME NEW d, NEW u
  PROVE  Clear(Zeroed([data |-> d, used |-> u])) = [data |-> NewBuffer.data, used |-> 0]
<1>1. Zeroed([data |-> d, used |-> u]) = [data |-> NewBuffer.data, used |-> u]
  BY DEF Zeroed
<1>2. \A e : Clear([data |-> e, used |-> u]) = [data |-> e, used |-> 0]
  BY DEF Clear
<1> QED  BY <1>1, <1>2

LEMMA AppendedBuffer ==
  ASSUME NEW d, NEW u, NEW cells
  PROVE  Appended(Update([data |-> d, used |-> 0], u), cells)
           = [data |-> Written(d, u, cells), used |-> u + Len(cells)]
BY DEF Appended, Update

\* Whatever a buffer held, the header is written from it whole and alone.
LEMMA HeaderWritten ==
  ASSUME NEW b, NEW d, b = [data |-> d, used |-> 0], NEW m
  PROVE  UsedCells(WithHeader(b, m)) = HeaderOf(m)
<1> DEFINE time == <<m, "time">>
           level == <<m, "level">>
           once == Written(d, 0, Append(<<time>>, Nul))
           twice == Written(once, 1, <<level>>)
<1>1. SubSeq(HeaderOf(m), 1, 1) = <<time>> /\ SubSeq(HeaderOf(m), 2, 2) = <<level>>
  BY PartOfPair DEF HeaderOf
<1>2. /\ Fit(<<time>>) = <<time>>
      /\ 1 \in 1 .. BufferSize /\ 2 \in 1 .. BufferSize
  BY HeaderAssumption, BufferSizeAssumption DEF Fit
<1>3. once[1] = time
  <2>1. 1 - 0 \in DOMAIN Append(<<time>>, Nul) /\ Append(<<time>>, Nul)[1 - 0] = time
    OBVIOUS
  <2> QED  BY <1>2, <2>1 DEF Written
<1> HIDE DEF once
<1>4. twice[1] = time
  <2>1. 1 - 1 \notin DOMAIN <<level>>
    OBVIOUS
  <2> QED  BY <1>2, <1>3, <2>1 DEF Written
<1>5. twice[2] = level
  <2>1. 2 - 1 \in DOMAIN <<level>> /\ <<level>>[2 - 1] = level
    OBVIOUS
  <2> QED  BY <1>2, <2>1 DEF Written
<1>6. WithHeader(b, m) = [data |-> twice, used |-> 2]
  <2>1. Formatted(b, <<time>>) = [data |-> once, used |-> 0]
    BY <1>2, FormattedBuffer DEF once
  <2>2. Appended(Update([data |-> once, used |-> 0], 1), <<level>>)
          = [data |-> twice, used |-> 1 + Len(<<level>>)]
    BY AppendedBuffer
  <2>3. 1 + Len(<<level>>) = 2
    OBVIOUS
  <2> HIDE DEF twice, time, level
  <2> QED  BY <1>1, <2>1, <2>2, <2>3 DEF WithHeader
<1>7. UsedCells([data |-> twice, used |-> 2]) = SubSeq(twice, 1, 2)
  BY DEF UsedCells
<1>8. SubSeq(twice, 1, 2) = <<time, level>>
  <2> HIDE DEF twice, time, level
  <2> QED  BY <1>4, <1>5, PartOfPair
<1> QED  BY <1>6, <1>7, <1>8 DEF HeaderOf

\* A text that fits comes out, one that does not is as many zeroes.
LEMMA TextWritten ==
  ASSUME NEW b, NEW d, b = [data |-> d, used |-> 0], NEW m \in Message
  PROVE  TextCells(b, m) = Text(m).cells
<1> DEFINE n == TextLength[m[2]]
<1>1. n \in Nat
  BY TextAssumption DEF Message
<1>2. CASE IsLong(m)
  BY <1>2 DEF TextCells, Text
<1>3. CASE ~IsLong(m)
  <2>1. n < BufferSize
    BY <1>1, <1>3, BufferSizeAssumption DEF IsLong
  <2>2. /\ TextOf(m) \in Seq({<<m, "text", i>> : i \in 1 .. n})
        /\ Len(TextOf(m)) = n
        /\ \A i \in 1 .. n : TextOf(m)[i] = <<m, "text", i>>
    BY <1>1 DEF TextOf
  <2>3. Fit(TextOf(m)) = TextOf(m)
    BY <2>1, <2>2 DEF Fit
  <2> DEFINE cells == Written(d, 0, Append(TextOf(m), Nul))
  <2>4. Formatted(b, TextOf(m)).data = cells
    BY <2>3 DEF Formatted
  <2>5. ASSUME NEW i \in 1 .. n PROVE cells[i] = TextOf(m)[i]
    <3>1. i \in 1 .. BufferSize /\ i - 0 = i
      BY <1>1, <2>1, BufferSizeAssumption
    <3>2. i \in DOMAIN Append(TextOf(m), Nul) /\ Append(TextOf(m), Nul)[i] = TextOf(m)[i]
      BY <1>1, <2>2
    <3> QED  BY <3>1, <3>2 DEF Written
  <2> HIDE DEF cells
  <2>6. SubSeq(cells, 1, n) = TextOf(m)
    <3>1. \A i \in 1 .. n : cells[i] \in {<<m, "text", j>> : j \in 1 .. n}
      BY <2>2, <2>5
    <3>2. /\ SubSeq(cells, 1, n) \in Seq({<<m, "text", j>> : j \in 1 .. n})
          /\ Len(SubSeq(cells, 1, n)) = IF 1 <= n THEN n - 1 + 1 ELSE 0
          /\ \A i \in 1 .. n - 1 + 1 : SubSeq(cells, 1, n)[i] = cells[1 + i - 1]
      BY <1>1, <3>1, SubSeqProperties
    <3>3. Len(SubSeq(cells, 1, n)) = n /\ \A i \in 1 .. n : SubSeq(cells, 1, n)[i] = TextOf(m)[i]
      BY <1>1, <2>5, <3>2
    <3> QED  BY <2>2, <3>2, <3>3, SeqEqual
  <2> QED  BY <1>3, <2>4, <2>6 DEF TextCells, Text
<1> QED  BY <1>2, <1>3

-----------------------------------------------------------------------------
(* What each kind of step does to the entries *)

\* Most steps move no entry.
LEMMA NothingMoves ==
  ASSUME EntryInv,
         UNCHANGED <<contents, sent, written>>,
         \A c \in Consumers : Holds(c)' <=> Holds(c),
         \A c \in Consumers : Holds(c) => result'[c] = result[c] /\ Phase(c)' = Phase(c)
  PROVE  EntryInv'
<1>1. WrittenInv'
  BY DEF EntryInv, WrittenInv, Pushed, Among, Distinct
<1>2. QueuedInv'
  BY DEF EntryInv, QueuedInv, Pushed, Among, Distinct
<1>3. HeldInv'
  BY DEF EntryInv, HeldInv, Pushed, Among
<1>4. KeptInv'
  BY DEF EntryInv, KeptInv, Pushed, Among
<1> QED  BY <1>1, <1>2, <1>3, <1>4 DEF EntryInv

\* A new entry goes to the end of the queue.
LEMMA PushMoves ==
  ASSUME EntryInv, NEW p \in Producers,
         sent \in [Producers -> Nat], <<p, sent[p] + 1>> \in Message,
         contents' = Append(contents, <<p, sent[p] + 1>>),
         sent' = [sent EXCEPT ![p] = @ + 1],
         UNCHANGED <<written, result>>,
         \A c \in Consumers : Holds(c)' <=> Holds(c),
         \A c \in Consumers : Phase(c)' = Phase(c)
  PROVE  EntryInv'
<1> DEFINE new == <<p, sent[p] + 1>>
<1>1. /\ ~Pushed(new)
      /\ \A m \in Message : Pushed(m)' <=> Pushed(m) \/ m = new
  BY DEF Pushed, Message
<1>2. /\ contents \in Seq(Message) /\ new \in Message
      /\ ~Among(new, contents)
      /\ Distinct(contents)
      /\ contents' = Append(contents, new)
  BY <1>1 DEF EntryInv, QueuedInv
<1> HIDE DEF new
<1>3. /\ contents' \in Seq(Message)
      /\ Distinct(contents')
      /\ \A x : Among(x, contents') <=> Among(x, contents) \/ x = new
  <2>1. Append(contents, new) \in Seq(Message)
    BY <1>2, AppendProperties
  <2>2. Distinct(Append(contents, new))
    BY <1>2, AppendAdds
  <2>3. \A x : Among(x, Append(contents, new)) <=> Among(x, contents) \/ x = new
    BY <1>2, AppendAdds
  <2> QED  BY <1>2, <2>1, <2>2, <2>3
<1>4. /\ Distinct(contents)' <=> Distinct(contents')
      /\ \A x : Among(x, contents)' <=> Among(x, contents')
      /\ \A x : Among(x, written)' <=> Among(x, written)
  BY DEF Distinct, Among
<1>5. WrittenInv'
  BY <1>1 DEF EntryInv, WrittenInv, Among, Distinct
<1>6. QueuedInv'
  BY <1>1, <1>3, <1>4 DEF EntryInv, QueuedInv, WrittenInv
<1>7. HeldInv'
  BY <1>1, <1>3, <1>4 DEF EntryInv, HeldInv
<1>8. KeptInv'
  BY <1>1, <1>3, <1>4 DEF EntryInv, KeptInv
<1> QED  BY <1>5, <1>6, <1>7, <1>8 DEF EntryInv

\* The oldest entry of the queue goes to the thread that pops.
LEMMA TakeMoves ==
  ASSUME EntryInv, NEW c \in Consumers, ~Holds(c),
         contents # <<>>, contents' = Tail(contents),
         result' = [result EXCEPT ![c] = Head(contents)], c \in DOMAIN result,
         Phase(c) = "popping",
         UNCHANGED <<sent, written>>,
         \A d \in Consumers : Phase(d)' = Phase(d),
         \A d \in Consumers : Holds(d)' <=> Phase(d)' \in {"popping", "text"} /\ result'[d] # Empty,
         \A d \in Consumers : d \in DOMAIN result
  PROVE  EntryInv'
<1> DEFINE old == Head(contents)
<1>1. /\ old \in Message
      /\ Among(old, contents)
      /\ contents' \in Seq(Message)
      /\ Distinct(contents')
      /\ \A x : Among(x, contents') <=> Among(x, contents) /\ x # old
  BY TailRemoves, HeadTailProperties DEF EntryInv, QueuedInv
<1>2. /\ Distinct(contents)' <=> Distinct(contents')
      /\ \A x : Among(x, contents)' <=> Among(x, contents')
      /\ \A x : Among(x, written)' <=> Among(x, written)
      /\ \A m : Pushed(m)' <=> Pushed(m)
  BY DEF Distinct, Among, Pushed
<1>3. /\ result'[c] = old /\ Holds(c)'
      /\ \A d \in Consumers \ {c} : result'[d] = result[d] /\ (Holds(d)' <=> Holds(d))
  BY <1>1, EmptyAssumption DEF Holds
<1> HIDE DEF old
<1>4. Pushed(old) /\ ~Among(Header(old), written) /\ ~Among(Text(old), written)
  <2>1. Pushed(old) /\ ~Among(Header(old), written)
    BY <1>1 DEF EntryInv, QueuedInv
  <2>2. ~Among(Text(old), written)
    BY <1>1, <2>1 DEF EntryInv, WrittenInv, Among
  <2> QED  BY <2>1, <2>2
<1>5. WrittenInv'
  BY <1>2 DEF EntryInv, WrittenInv, Among, Distinct
<1>6. QueuedInv'
  BY <1>1, <1>2 DEF EntryInv, QueuedInv
<1>7. HeldInv'
  <2>1. ASSUME NEW d \in Consumers, Holds(d)'
        PROVE  /\ result'[d] \in Message
               /\ Pushed(result'[d])
               /\ ~Among(result'[d], contents')
               /\ Among(Header(result'[d]), written) <=> Phase(d)' = "text"
               /\ ~Among(Text(result'[d]), written)
    <3>1. CASE d = c
      BY <1>1, <1>3, <1>4, <3>1
    <3>2. CASE d # c
      BY <1>1, <1>3, <2>1, <3>2 DEF EntryInv, HeldInv
    <3> QED  BY <3>1, <3>2
  <2>2. ASSUME NEW d \in Consumers, Holds(d)', NEW e \in Consumers, Holds(e)',
               result'[d] = result'[e]
        PROVE  d = e
    BY <1>1, <1>3, <2>2 DEF EntryInv, HeldInv
  <2>3. \A d \in Consumers :
          /\ Pushed(result[d])' <=> Pushed(result'[d])
          /\ Among(result[d], contents)' <=> Among(result'[d], contents')
          /\ Among(Header(result[d]), written)' <=> Among(Header(result'[d]), written)
          /\ Among(Text(result[d]), written)' <=> Among(Text(result'[d]), written)
    BY DEF Pushed, Among, Header, Text
  <2> QED  BY <2>1, <2>2, <2>3 DEF HeldInv
<1>8. KeptInv'
  <2> SUFFICES ASSUME NEW m \in Message, Pushed(m)
               PROVE  \/ Among(m, contents')
                      \/ \E d \in Consumers : Holds(d)' /\ result'[d] = m
                      \/ Among(Text(m), written)
    BY <1>2 DEF KeptInv
  <2>1. CASE m = old
    BY <1>3, <2>1
  <2>2. CASE m # old
    BY <1>1, <1>3, <2>2 DEF EntryInv, KeptInv
  <2> QED  BY <2>1, <2>2
<1> QED  BY <1>5, <1>6, <1>7, <1>8 DEF EntryInv

\* Pieces are equal only when they are the same part of the same entry.
LEMMA PiecesDiffer ==
  /\ \A m, n : Header(m) # Text(n)
  /\ \A m, n : Header(m) = Header(n) => m = n
  /\ \A m, n : Text(m) = Text(n) => m = n
<1>1. \A m : /\ Header(m).part = "header" /\ Header(m).entry = m
             /\ Text(m).part = "text" /\ Text(m).entry = m
  BY DEF Header, Text
<1> QED  BY <1>1

\* What writing one more piece does.
LEMMA WritingAdds ==
  ASSUME WrittenInv, NEW m \in Message, Pushed(m), NEW piece \in {Header(m), Text(m)},
         ~Among(piece, written),
         piece = Text(m) => Among(Header(m), written),
         written' = Append(written, piece),
         sent' = sent
  PROVE  /\ WrittenInv'
         /\ \A x : Among(x, written') <=> Among(x, written) \/ x = piece
<1>1. piece \in Pieces /\ written \in Seq(Pieces) /\ Distinct(written)
  BY DEF Pieces, WrittenInv
<1>2. /\ Append(written, piece) \in Seq(Pieces)
      /\ Len(Append(written, piece)) = Len(written) + 1
      /\ \A i \in 1 .. Len(written) : Append(written, piece)[i] = written[i]
      /\ Append(written, piece)[Len(written) + 1] = piece
  BY <1>1, AppendProperties
<1>3. Distinct(Append(written, piece))
  BY <1>1, AppendAdds
<1>4. \A x : Among(x, Append(written, piece)) <=> Among(x, written) \/ x = piece
  BY <1>1, AppendAdds
<1>5. DOMAIN written = 1 .. Len(written) /\ Len(written) \in Nat
  BY <1>1
<1>6. DOMAIN written' = 1 .. Len(written) + 1
  BY <1>2
<1>7. ASSUME NEW n \in Message, NEW i \in 1 .. Len(written) + 1, written'[i] = Text(n)
      PROVE  \E j \in 1 .. i : written'[j] = Header(n)
  <2>1. CASE i \in 1 .. Len(written)
    <3>1. PICK j \in 1 .. i : written[j] = Header(n)
      BY <1>2, <1>5, <1>7, <2>1 DEF WrittenInv
    <3>2. j \in 1 .. Len(written)
      BY <1>5, <2>1, <3>1
    <3> QED  BY <1>2, <3>1, <3>2
  <2>2. CASE i = Len(written) + 1
    <3>1. piece = Text(n)
      BY <1>2, <1>7, <2>2
    <3>2. piece = Text(m) /\ m = n
      BY <3>1, PiecesDiffer
    <3>3. PICK j \in 1 .. Len(written) : written[j] = Header(n)
      BY <1>5, <3>2 DEF Among
    <3>4. j \in 1 .. i
      BY <1>5, <2>2, <3>3
    <3> QED  BY <1>2, <3>3, <3>4
  <2> QED  BY <1>5, <2>1, <2>2
<1>8. \A n \in Message : Among(Header(n), written') => Pushed(n)
  <2>1. \A n \in Message : Header(n) = piece => n = m
    BY PiecesDiffer
  <2> QED  BY <1>4, <2>1 DEF WrittenInv
<1>9. WrittenInv'
  <2>1. written' \in Seq(Pieces) /\ Distinct(written')
    BY <1>2, <1>3
  <2>2. /\ Distinct(written)' <=> Distinct(written')
        /\ \A n : Among(Header(n), written)' <=> Among(Header(n), written')
        /\ \A n : Pushed(n)' <=> Pushed(n)
        /\ Pieces' = Pieces
    BY DEF Distinct, Among, Header, Text, Pushed, Pieces
  <2>3. \A n \in Message : \A i \in DOMAIN written' :
          written'[i] = Text(n) => \E j \in 1 .. i : written'[j] = Header(n)
    BY <1>6, <1>7
  <2> QED  BY <1>8, <2>1, <2>2, <2>3 DEF WrittenInv, Header, Text
<1> QED  BY <1>4, <1>9

\* A thread that has popped an entry writes its header ...
LEMMA HeaderMoves ==
  ASSUME EntryInv, NEW c \in Consumers, Holds(c), Phase(c) = "popping",
         Phase(c)' = "text",
         \A d \in Consumers \ {c} : Phase(d)' = Phase(d),
         written' = Append(written, Header(result[c])),
         UNCHANGED <<contents, sent, result>>
  PROVE  EntryInv'
<1>1. PICK m : m = result[c]
  OBVIOUS
<1>2. /\ m \in Message /\ Pushed(m) /\ ~Among(m, contents)
      /\ ~Among(Header(m), written) /\ ~Among(Text(m), written)
  BY <1>1 DEF EntryInv, HeldInv
<1>3. /\ WrittenInv'
      /\ \A x : Among(x, written') <=> Among(x, written) \/ x = Header(m)
  BY <1>1, <1>2, WritingAdds, PiecesDiffer DEF EntryInv
<1>4. \A d \in Consumers : Holds(d)' <=> Holds(d)
  BY DEF Holds
<1>5. \A n : /\ Among(n, contents)' <=> Among(n, contents)
             /\ Pushed(n)' <=> Pushed(n)
             /\ Among(Header(n), written)' <=> Among(Header(n), written) \/ n = m
             /\ Among(Text(n), written)' <=> Among(Text(n), written)
  <2>1. \A n : /\ Among(n, contents)' <=> Among(n, contents)
               /\ Pushed(n)' <=> Pushed(n)
               /\ Among(Header(n), written)' <=> Among(Header(n), written')
               /\ Among(Text(n), written)' <=> Among(Text(n), written')
    BY DEF Among, Pushed, Header, Text
  <2> QED  BY <1>3, <2>1, PiecesDiffer
<1>6. QueuedInv'
  BY <1>2, <1>5 DEF EntryInv, QueuedInv, Distinct
<1>7. HeldInv'
  <2> SUFFICES ASSUME NEW d \in Consumers, Holds(d)
               PROVE  /\ result[d] \in Message
                      /\ Pushed(result[d])
                      /\ ~Among(result[d], contents)
                      /\ Among(Header(result[d]), written) \/ result[d] = m <=> Phase(d)' = "text"
                      /\ ~Among(Text(result[d]), written)
                      /\ \A e \in Consumers : Holds(e) /\ result[e] = result[d] => e = d
    <3>1. \A d \in Consumers :
            /\ Pushed(result[d])' <=> Pushed(result[d])
            /\ Among(result[d], contents)' <=> Among(result[d], contents)
            /\ Among(Header(result[d]), written)' <=> Among(Header(result[d]), written')
            /\ Among(Text(result[d]), written)' <=> Among(Text(result[d]), written')
      BY DEF Pushed, Among, Header, Text
    <3>2. \A d \in Consumers :
            /\ Among(Header(result[d]), written') <=> Among(Header(result[d]), written) \/ result[d] = m
            /\ Among(Text(result[d]), written') <=> Among(Text(result[d]), written)
      BY <1>3, PiecesDiffer
    <3> QED  BY <1>4, <3>1, <3>2 DEF HeldInv
  <2>1. CASE d = c
    BY <1>1, <2>1 DEF EntryInv, HeldInv
  <2>2. CASE d # c
    BY <1>1, <2>2 DEF EntryInv, HeldInv
  <2> QED  BY <2>1, <2>2
<1>8. KeptInv'
  BY <1>4, <1>5 DEF EntryInv, KeptInv
<1> QED  BY <1>3, <1>6, <1>7, <1>8 DEF EntryInv

\* ... and its text.
LEMMA TextMoves ==
  ASSUME EntryInv, NEW c \in Consumers, Holds(c), Phase(c) = "text",
         Phase(c)' \notin {"popping", "text"},
         \A d \in Consumers \ {c} : Phase(d)' = Phase(d),
         written' = Append(written, Text(result[c])),
         UNCHANGED <<contents, sent, result>>
  PROVE  EntryInv'
<1>1. PICK m : m = result[c]
  OBVIOUS
<1>2. /\ m \in Message /\ Pushed(m) /\ ~Among(m, contents)
      /\ Among(Header(m), written) /\ ~Among(Text(m), written)
  BY <1>1 DEF EntryInv, HeldInv
<1>3. /\ WrittenInv'
      /\ \A x : Among(x, written') <=> Among(x, written) \/ x = Text(m)
  BY <1>1, <1>2, WritingAdds, PiecesDiffer DEF EntryInv
<1>4. \A d \in Consumers : Holds(d)' <=> Holds(d) /\ d # c
  BY DEF Holds
<1>5. \A n : /\ Among(n, contents)' <=> Among(n, contents)
             /\ Pushed(n)' <=> Pushed(n)
             /\ Among(Header(n), written)' <=> Among(Header(n), written)
             /\ Among(Text(n), written)' <=> Among(Text(n), written) \/ n = m
  <2>1. \A n : /\ Among(n, contents)' <=> Among(n, contents)
               /\ Pushed(n)' <=> Pushed(n)
               /\ Among(Header(n), written)' <=> Among(Header(n), written')
               /\ Among(Text(n), written)' <=> Among(Text(n), written')
    BY DEF Among, Pushed, Header, Text
  <2> QED  BY <1>3, <2>1, PiecesDiffer
<1>6. QueuedInv'
  BY <1>5 DEF EntryInv, QueuedInv, Distinct
<1>7. HeldInv'
  <2> SUFFICES ASSUME NEW d \in Consumers, Holds(d), d # c
               PROVE  /\ result[d] \in Message
                      /\ Pushed(result[d])
                      /\ ~Among(result[d], contents)
                      /\ Among(Header(result[d]), written) <=> Phase(d) = "text"
                      /\ ~(Among(Text(result[d]), written) \/ result[d] = m)
                      /\ \A e \in Consumers : Holds(e) /\ result[e] = result[d] => e = d
    <3>1. \A d \in Consumers :
            /\ Pushed(result[d])' <=> Pushed(result[d])
            /\ Among(result[d], contents)' <=> Among(result[d], contents)
            /\ Among(Header(result[d]), written)' <=> Among(Header(result[d]), written')
            /\ Among(Text(result[d]), written)' <=> Among(Text(result[d]), written')
      BY DEF Pushed, Among, Header, Text
    <3>2. \A d \in Consumers :
            /\ Among(Header(result[d]), written') <=> Among(Header(result[d]), written)
            /\ Among(Text(result[d]), written') <=> Among(Text(result[d]), written) \/ result[d] = m
      BY <1>3, PiecesDiffer
    <3> QED  BY <1>4, <3>1, <3>2 DEF HeldInv
  <2> QED  BY <1>1 DEF EntryInv, HeldInv
<1>8. KeptInv'
  BY <1>1, <1>4, <1>5 DEF EntryInv, KeptInv
<1> QED  BY <1>3, <1>6, <1>7, <1>8 DEF EntryInv

-----------------------------------------------------------------------------
(* What a step of the queue is to the entries *)

OthersStay(t) == \A u \in Threads \ {t} : pc'[u] = "idle" <=> pc[u] = "idle"

LEMMA ProducerStep ==
  ASSUME IInv, NEW p \in Producers, ProducerNext(p)
  PROVE  /\ OthersStay(p)
         /\ UNCHANGED <<result, asking>>
         /\ \/ UNCHANGED <<contents, sent>>
            \/ /\ contents' = Append(contents, <<p, sent[p] + 1>>)
               /\ sent' = [sent EXCEPT ![p] = @ + 1]
               /\ sent[p] < Quota
<1>1. OthersStay(p)
  <2>1. CASE PushNotify(p)
    <3>1. PICK W \in OneOf(GetWaiters) : pc' = [Wake(W) EXCEPT ![p] = "idle"]
      BY <2>1 DEF PushNotify
    <3>2. W \subseteq GetWaiters
      BY <3>1 DEF OneOf
    <3> QED  BY <3>1, <3>2 DEF Wake, GetWaiters, OthersStay
  <2>2. CASE SpuriousWakeup(p)
    BY <2>2 DEF SpuriousWakeup, Wake, OthersStay
  <2>3. CASE ~PushNotify(p) /\ ~SpuriousWakeup(p)
    BY <2>3 DEF IInv, TypeOK, ProducerNext, PushLock, PushEnqueue, Block, Sleep, Relock, OthersStay
  <2> QED  BY <2>1, <2>2, <2>3
<1>2. CASE PushEnqueue(p)
  BY <1>1, <1>2, PushRefines DEF Queue!Put, contents, asking
<1>3. CASE ~PushEnqueue(p)
  <2>1. UNCHANGED Queue!vars
    BY <1>3, ProducerStutters DEF ProducerNext
  <2> QED  BY <1>1, <2>1 DEF Queue!vars, contents, asking
<1> QED  BY <1>2, <1>3

LEMMA AskStep ==
  ASSUME IInv, NEW c \in Consumers, PopLock(c)
  PROVE  /\ OthersStay(c)
         /\ UNCHANGED <<contents, sent>>
         /\ asking' = asking \cup {c}
         /\ result' = [result EXCEPT ![c] = Empty]
<1>1. OthersStay(c)
  BY DEF IInv, TypeOK, PopLock, OthersStay
<1> QED  BY <1>1, PopLockRefines DEF Queue!Ask, contents, asking

LEMMA ConsumerStep ==
  ASSUME IInv, NEW c \in Consumers, ConsumerNext(c), pc[c] # "idle"
  PROVE  /\ OthersStay(c)
         /\ sent' = sent
         /\ \/ UNCHANGED <<contents, result, asking>>
            \/ /\ contents # <<>>
               /\ contents' = Tail(contents)
               /\ result' = [result EXCEPT ![c] = Head(contents)]
               /\ asking' = asking \ {c}
               /\ pc'[c] = "idle"
            \/ /\ contents = <<>>
               /\ asking' = asking \ {c}
               /\ UNCHANGED <<contents, result>>
<1>1. OthersStay(c)
  BY ThreadAssumption DEF IInv, TypeOK, Threads, ConsumerNext, PopLock, PopTake, SwapLock, SwapLists,
     SwapNotify, Block, Sleep, SpuriousWakeup, Relock, Wake, PutWaiters, OthersStay
<1>2. CASE PopTake(c)
  <2>1. pc'[c] = "idle"
    BY <1>2 DEF IInv, TypeOK, PopTake, Threads
  <2> QED  BY <1>1, <1>2, <2>1, PopTakeRefines DEF Queue!Take, contents, asking
<1>3. CASE SwapLists(c)
  BY <1>1, <1>3, SwapRefines DEF Queue!TakeNothing, Queue!vars, SwapLists, contents, asking
<1>4. CASE ~PopTake(c) /\ ~SwapLists(c)
  <2>1. ~PopLock(c)
    BY DEF PopLock
  <2>2. UNCHANGED Queue!vars
    BY <1>4, <2>1, ConsumerStutters DEF ConsumerNext
  <2> QED  BY <1>1, <2>2 DEF Queue!vars, contents, asking
<1> QED  BY <1>2, <1>3, <1>4

LEMMA SwitchStep ==
  ASSUME IInv, SetNotWait
  PROVE  /\ \A t \in Threads : pc'[t] = "idle" <=> pc[t] = "idle"
         /\ UNCHANGED <<contents, sent, result, asking>>
<1>1. \A t \in Threads : pc'[t] = "idle" <=> pc[t] = "idle"
  BY DEF IInv, TypeOK, Threads, SetNotWait, SetNonBlock, SwitchNotifyGet, SwitchNotifyPut, OneOf,
     Wake, GetWaiters, PutWaiters
<1> QED  BY <1>1, SwitchRefines DEF Queue!StopWaiting, Queue!vars, contents, asking

-----------------------------------------------------------------------------
(* The invariant of the Log *)

LogInv == ThreadInv /\ BufferInv /\ EntryInv /\ DrainInv

LEMMA LogInvInit == LogInit => LogInv
<1> SUFFICES ASSUME LogInit PROVE LogInv
  OBVIOUS
<1>1. /\ contents = <<>> /\ written = <<>> /\ life = "start" /\ worker = "unborn"
      /\ \A t \in Threads : pc[t] = "idle"
      /\ \A m \in Message : ~Pushed(m)
  BY EmptySeq, ConcatEmptySeq, QuotaAssumption DEF LogInit, Init, contents, Pushed, Message
<1>2. \A x : ~Among(x, <<>>)
  BY DEF Among
<1>3. ThreadInv
  BY <1>1, ConsumersAssumption DEF ThreadInv, Phase, Destroying, Threads
<1>4. BufferInv
  BY DEF BufferInv, LogInit, NewBuffer
<1>5. EntryInv
  <2>1. /\ <<>> \in Seq(Pieces) /\ <<>> \in Seq(Message)
        /\ Distinct(<<>>)
    BY DEF Distinct
  <2> QED  BY <1>1, <1>2, <2>1, ConsumersAssumption DEF EntryInv, WrittenInv, QueuedInv, HeldInv, KeptInv,
              Holds, Phase
<1>6. DrainInv
  BY <1>1 DEF DrainInv
<1> QED  BY <1>3, <1>4, <1>5, <1>6 DEF LogInv

\* Starting, stopping, and other objects.
LEMMA QuietStep ==
  ASSUME LogInv, UNCHANGED <<vars, buffer, written>>,
         \A c \in Consumers :
           Phase(c)' = Phase(c) \/ {Phase(c), Phase(c)'} \cap {"popping", "text"} = {},
         life' \in Destroying => life \in Destroying \/ \A p \in Producers : pc[p] = "idle",
         \/ life' = life
         \/ life' \notin {"popping", "join", "gone"}
         \/ life = "join" /\ worker' = "ended",
         worker = "ended" => worker' = "ended"
  PROVE  LogInv'
<1>1. /\ UNCHANGED <<contents, sent, asking, result, written, pc, buffer>>
      /\ \A c \in Consumers : Holds(c)' <=> Holds(c)
      /\ \A c \in Consumers : Holds(c) => Phase(c)' = Phase(c)
  BY DEF vars, contents, asking, Holds
<1>2. ThreadInv'
  BY <1>1 DEF LogInv, ThreadInv
<1>3. BufferInv'
  BY <1>1 DEF LogInv, BufferInv
<1>4. EntryInv'
  BY <1>1, NothingMoves DEF LogInv
<1>5. DrainInv'
  BY <1>1 DEF LogInv, DrainInv, Destroying
<1> QED  BY <1>2, <1>3, <1>4, <1>5 DEF LogInv

LEMMA PostStep ==
  ASSUME LogInv, IInv, NEW p \in Producers, Post(p)
  PROVE  LogInv'
<1>1. /\ ProducerNext(p) /\ p \in Threads
      /\ UNCHANGED <<life, worker, buffer, written>>
  BY DEF Post, logVars, Threads
<1>2. life \notin Destroying
  BY DEF LogInv, ThreadInv, Post, Destroying
<1>3. /\ OthersStay(p)
      /\ UNCHANGED <<result, asking>>
      /\ \/ UNCHANGED <<contents, sent>>
         \/ /\ contents' = Append(contents, <<p, sent[p] + 1>>)
            /\ sent' = [sent EXCEPT ![p] = @ + 1]
            /\ sent[p] < Quota
  BY <1>1, ProducerStep
<1>4. /\ \A c \in Consumers : pc'[c] = "idle" <=> pc[c] = "idle"
      /\ \A c \in Consumers : Phase(c)' = Phase(c) /\ (Holds(c)' <=> Holds(c))
  BY <1>1, <1>3, ThreadAssumption DEF OthersStay, Threads, Phase, Holds
<1>5. ThreadInv'
  BY <1>1, <1>2, <1>3, <1>4 DEF LogInv, ThreadInv
<1>6. BufferInv'
  BY <1>1 DEF LogInv, BufferInv
<1>7. EntryInv'
  <2>1. CASE UNCHANGED <<contents, sent>>
    BY <1>1, <1>3, <1>4, <2>1, NothingMoves DEF LogInv
  <2>2. CASE /\ contents' = Append(contents, <<p, sent[p] + 1>>)
             /\ sent' = [sent EXCEPT ![p] = @ + 1]
             /\ sent[p] < Quota
    <3>1. sent \in [Producers -> Nat] /\ <<p, sent[p] + 1>> \in Message
      BY <2>2, QuotaAssumption DEF IInv, TypeOK, Message
    <3> QED  BY <1>1, <1>3, <1>4, <2>2, <3>1, PushMoves DEF LogInv
  <2> QED  BY <1>3, <2>1, <2>2
<1>8. DrainInv'
  <2>1. life \notin {"popping", "join", "gone"}
    BY <1>2 DEF Destroying
  <2> QED  BY <1>1, <2>1 DEF DrainInv
<1> QED  BY <1>5, <1>6, <1>7, <1>8 DEF LogInv

\* A thread calls Pop.
LEMMA AskLogStep ==
  ASSUME LogInv, IInv, NEW c \in Consumers, PopLock(c),
         Phase(c) \notin {"popping", "text", "ended"}, Phase(c)' = "popping",
         \A d \in Consumers \ {c} : Phase(d)' = Phase(d),
         life \in Destroying \/ life' \notin Destroying,
         UNCHANGED <<buffer, written>>
  PROVE  LogInv'
<1>1. /\ OthersStay(c)
      /\ UNCHANGED <<contents, sent>>
      /\ asking' = asking \cup {c}
      /\ result' = [result EXCEPT ![c] = Empty]
      /\ Consumers \subseteq DOMAIN result
  BY AskStep DEF IInv, TypeOK
<1>2. /\ result'[c] = Empty
      /\ \A d \in Consumers \ {c} : result'[d] = result[d] /\ (pc'[d] = "idle" <=> pc[d] = "idle")
  BY <1>1 DEF OthersStay, Threads
<1>3. /\ ~Holds(c) /\ ~Holds(c)'
      /\ \A d \in Consumers \ {c} : Holds(d)' <=> Holds(d)
  BY <1>2 DEF Holds
<1>4. ThreadInv'
  <2>1. \A p \in Producers : pc'[p] = "idle" <=> pc[p] = "idle"
    BY <1>1, ThreadAssumption DEF OthersStay, Threads
  <2> QED  BY <1>2, <2>1 DEF LogInv, ThreadInv
<1>5. BufferInv'
  BY DEF LogInv, BufferInv
<1>6. EntryInv'
  BY <1>1, <1>2, <1>3, NothingMoves DEF LogInv
<1>7. DrainInv'
  <2>1. CASE c = Closer
    <3>1. life' = "popping" /\ Closer \in asking'
      BY <1>1, <2>1, ConsumersAssumption DEF Phase
    <3> QED  BY <3>1 DEF DrainInv
  <2>2. CASE c = Worker
    <3>1. life' = life /\ worker # "ended" /\ result'[Closer] = result[Closer]
      BY <1>2, <2>2, ConsumersAssumption DEF Phase
    <3> QED  BY <1>1, <3>1 DEF LogInv, DrainInv
  <2> QED  BY <2>1, <2>2, ConsumersAssumption
<1> QED  BY <1>4, <1>5, <1>6, <1>7 DEF LogInv

\* A thread goes on in Pop.
LEMMA PopLogStep ==
  ASSUME LogInv, IInv, NEW c \in Consumers, pc[c] # "idle", ConsumerNext(c),
         UNCHANGED logVars
  PROVE  LogInv'
<1>1. /\ OthersStay(c)
      /\ sent' = sent
      /\ \/ UNCHANGED <<contents, result, asking>>
         \/ /\ contents # <<>>
            /\ contents' = Tail(contents)
            /\ result' = [result EXCEPT ![c] = Head(contents)]
            /\ asking' = asking \ {c}
            /\ pc'[c] = "idle"
         \/ /\ contents = <<>>
            /\ asking' = asking \ {c}
            /\ UNCHANGED <<contents, result>>
  BY ConsumerStep
<1>2. /\ Consumers \subseteq DOMAIN result
      /\ contents \in Seq(Message)
      /\ Phase(c) = "popping" /\ result[c] = Empty /\ ~Holds(c)
  BY DEF LogInv, IInv, TypeOK, EntryInv, QueuedInv, ThreadInv, Holds
<1>3. /\ UNCHANGED <<life, worker, buffer, written>>
      /\ \A d \in Consumers : Phase(d)' = Phase(d)
      /\ \A d \in Consumers : Holds(d)' <=> Phase(d)' \in {"popping", "text"} /\ result'[d] # Empty
      /\ \A d \in Consumers \ {c} : result'[d] = result[d]
      /\ \A t \in Threads \ {c} : pc'[t] = "idle" <=> pc[t] = "idle"
      /\ Consumers \subseteq Threads
  BY <1>1, <1>2 DEF logVars, Phase, Holds, OthersStay, Threads
<1>4. ThreadInv'
  <2>1. \A p \in Producers : pc'[p] = "idle" <=> pc[p] = "idle"
    BY <1>3, ThreadAssumption DEF Threads
  <2>2. \A d \in Consumers \ {c} : pc'[d] = "idle" <=> pc[d] = "idle"
    BY <1>3
  <2>3. pc'[c] # "idle" => result'[c] = Empty
    BY <1>1, <1>2
  <2>4. Phase(c)' # "text"
    BY <1>2, <1>3
  <2> QED  BY <1>2, <1>3, <2>1, <2>2, <2>3, <2>4 DEF LogInv, ThreadInv
<1>5. BufferInv'
  BY <1>3 DEF LogInv, BufferInv
<1>6. EntryInv'
  <2>1. CASE UNCHANGED <<contents, result>>
    <3>1. \A d \in Consumers : Holds(d)' <=> Holds(d)
      BY <1>3, <2>1 DEF Holds
    <3> QED  BY <1>1, <1>3, <2>1, <3>1, NothingMoves DEF LogInv
  <2>2. CASE /\ contents # <<>>
             /\ contents' = Tail(contents)
             /\ result' = [result EXCEPT ![c] = Head(contents)]
    BY <1>1, <1>2, <1>3, <2>2, TakeMoves DEF LogInv
  <2> QED  BY <1>1, <2>1, <2>2
<1>7. DrainInv'
  <2>1. contents = <<>> => contents' = <<>>
    BY <1>1
  <2>2. ASSUME life = "popping", Closer \notin asking', result'[Closer] = Empty
        PROVE  contents' = <<>>
    <3>1. CASE UNCHANGED <<contents, result, asking>>
      BY <2>2, <3>1 DEF LogInv, DrainInv
    <3>2. CASE contents = <<>>
      BY <2>1, <3>2
    <3>3. CASE contents # <<>> /\ result' = [result EXCEPT ![c] = Head(contents)] /\ asking' = asking \ {c}
      <4>1. Head(contents) \in Message
        BY <1>2, <3>3, HeadTailProperties
      <4>2. c # Closer
        BY <1>2, <2>2, <3>3, <4>1, EmptyAssumption
      <4>3. Closer \notin asking /\ result[Closer] = Empty
        BY <2>2, <3>3, <4>2
      <4> QED  BY <2>1, <2>2, <4>3 DEF LogInv, DrainInv
    <3> QED  BY <1>1, <3>1, <3>2, <3>3
  <2> QED  BY <1>3, <2>1, <2>2 DEF LogInv, DrainInv
<1> QED  BY <1>4, <1>5, <1>6, <1>7 DEF LogInv

LEMMA SwitchLogStep ==
  ASSUME LogInv, IInv, SwitchQueue
  PROVE  LogInv'
<1>1. /\ \A t \in Threads : pc'[t] = "idle" <=> pc[t] = "idle"
      /\ UNCHANGED <<contents, sent, result, asking>>
  BY SwitchStep DEF SwitchQueue
<1>2. /\ life = "switch" /\ life' \in {"switch", "drain"}
      /\ UNCHANGED <<worker, buffer, written>>
  BY DEF SwitchQueue
<1>3. /\ \A c \in Consumers : Holds(c)' <=> Holds(c)
      /\ \A c \in Consumers : Holds(c) => Phase(c)' = Phase(c)
      /\ \A c \in Consumers : Phase(c)' = Phase(c) \/ {Phase(c), Phase(c)'} \cap {"popping", "text"} = {}
  BY <1>1, <1>2 DEF Holds, Phase
<1>4. ThreadInv'
  BY <1>1, <1>2, <1>3 DEF LogInv, ThreadInv, Destroying, Threads
<1>5. BufferInv'
  BY <1>2 DEF LogInv, BufferInv
<1>6. EntryInv'
  BY <1>1, <1>2, <1>3, NothingMoves DEF LogInv
<1>7. DrainInv'
  BY <1>2 DEF DrainInv
<1> QED  BY <1>4, <1>5, <1>6, <1>7 DEF LogInv

\* What a thread writes of the entry it got.
LEMMA HeaderOut ==
  ASSUME LogInv, NEW c \in Consumers, WriteHeader(c)
  PROVE  /\ result[c] = Empty => written' = written
         /\ result[c] # Empty => written' = Append(written, Header(result[c]))
<1>1. CASE result[c] = Empty
  BY <1>1 DEF WriteHeader
<1>2. CASE result[c] # Empty
  <2>1. PICK d : buffer[c] = [data |-> d, used |-> 0]
    BY DEF LogInv, BufferInv
  <2>2. UsedCells(WithHeader(buffer[c], result[c])) = HeaderOf(result[c])
    BY <2>1, HeaderWritten
  <2>3. written' = Append(written, Header(result[c]))
    BY <1>2, <2>2 DEF WriteHeader, Write, Header
  <2> QED  BY <1>2, <2>3
<1> QED  BY <1>1, <1>2

LEMMA TextOut ==
  ASSUME LogInv, NEW c \in Consumers, Phase(c) = "text", WriteText(c)
  PROVE  /\ Holds(c) /\ result[c] \in Message
         /\ written' = Append(written, Text(result[c]))
<1>1. PICK d : buffer[c] = [data |-> d, used |-> 0]
  BY DEF LogInv, BufferInv
<1>2. Holds(c) /\ result[c] \in Message
  BY DEF LogInv, ThreadInv, EntryInv, HeldInv, Holds
<1>3. TextCells(buffer[c], result[c]) = Text(result[c]).cells
  BY <1>1, <1>2, TextWritten
<1>4. Text(result[c]) = [entry |-> result[c], part |-> "text", cells |-> Text(result[c]).cells]
  BY DEF Text
<1>5. written' = Append(written, Text(result[c]))
  BY <1>3, <1>4 DEF WriteText, Write
<1> QED  BY <1>2, <1>5

\* A thread is back from Pop, and writes the header of what it got.
LEMMA HeaderStep ==
  ASSUME LogInv, NEW c \in Consumers, Phase(c) = "popping", pc[c] = "idle",
         WriteHeader(c), UNCHANGED vars,
         result[c] # Empty => Phase(c)' = "text",
         result[c] = Empty => Phase(c)' = IF c = Worker THEN "loop" ELSE "join",
         \A d \in Consumers \ {c} : Phase(d)' = Phase(d),
         life \in Destroying \/ life' \notin Destroying
  PROVE  LogInv'
<1>1. /\ UNCHANGED <<contents, sent, asking, result, pc>>
      /\ c \notin asking
  BY DEF vars, contents, asking
<1>2. buffer[c] = [data |-> buffer[c].data, used |-> 0] /\ c \in DOMAIN buffer
  BY DEF LogInv, BufferInv
<1>3. ThreadInv'
  BY <1>1 DEF LogInv, ThreadInv
<1>4. BufferInv'
  <2>1. CASE result[c] = Empty
    BY <2>1 DEF WriteHeader, LogInv, BufferInv
  <2>2. CASE result[c] # Empty
    <3>1. PICK b : b = WithHeader(buffer[c], result[c])
      OBVIOUS
    <3>2. PICK d, u : b = [data |-> d, used |-> u]
      BY <3>1 DEF WithHeader, Appended
    <3>3. Clear(Zeroed(b)) = [data |-> NewBuffer.data, used |-> 0]
      BY <3>2, ClearedBuffer
    <3>4. buffer' = [buffer EXCEPT ![c] = Clear(Zeroed(b))]
      BY <2>2, <3>1 DEF WriteHeader
    <3>5. PICK e : buffer' = [buffer EXCEPT ![c] = [data |-> e, used |-> 0]]
      BY <3>3, <3>4
    <3> QED  BY <1>2, <3>5 DEF LogInv, BufferInv
  <2> QED  BY <2>1, <2>2
<1>5. EntryInv'
  <2>1. CASE result[c] = Empty
    <3>1. Phase(c)' \notin {"popping", "text"} /\ written' = written
      BY <2>1 DEF WriteHeader
    <3>2. \A d \in Consumers : Holds(d)' <=> Holds(d)
      BY <1>1, <2>1, <3>1 DEF Holds
    <3>3. \A d \in Consumers : Holds(d) => result'[d] = result[d] /\ Phase(d)' = Phase(d)
      BY <1>1, <2>1 DEF Holds
    <3> QED  BY <1>1, <3>1, <3>2, <3>3, NothingMoves DEF LogInv
  <2>2. CASE result[c] # Empty
    <3>3. written' = Append(written, Header(result[c]))
      BY <2>2, HeaderOut
    <3>4. Holds(c) /\ Phase(c)' = "text"
      BY <2>2 DEF Holds
    <3> QED  BY <1>1, <3>3, <3>4, HeaderMoves DEF LogInv
  <2> QED  BY <2>1, <2>2
<1>6. DrainInv'
  <2>1. CASE c = Closer
    <3>1. life = "popping" /\ life' \in {"text", "join"} /\ (life' = "join" => result[c] = Empty)
      BY <2>1, ConsumersAssumption DEF Phase
    <3> QED  BY <1>1, <2>1, <3>1 DEF LogInv, DrainInv
  <2>2. CASE c = Worker
    <3>1. life' = life /\ worker = "popping"
      BY <2>2, ConsumersAssumption DEF Phase
    <3> QED  BY <1>1, <3>1 DEF LogInv, DrainInv
  <2> QED  BY <2>1, <2>2, ConsumersAssumption
<1> QED  BY <1>3, <1>4, <1>5, <1>6 DEF LogInv

LEMMA TextStep ==
  ASSUME LogInv, NEW c \in Consumers, Phase(c) = "text",
         WriteText(c), UNCHANGED vars,
         Phase(c)' \in {"loop", "drain"},
         \A d \in Consumers \ {c} : Phase(d)' = Phase(d),
         life \in Destroying \/ life' \notin Destroying
  PROVE  LogInv'
<1>1. /\ UNCHANGED <<contents, sent, asking, result, pc>>
      /\ Phase(c)' \notin {"popping", "text"}
  BY DEF vars, contents, asking
<1>2. buffer[c] = [data |-> buffer[c].data, used |-> 0] /\ c \in DOMAIN buffer
  BY DEF LogInv, BufferInv
<1>3. PICK d : buffer[c] = [data |-> d, used |-> 0]
  BY <1>2
<1>4. Holds(c) /\ result[c] \in Message
  BY DEF LogInv, ThreadInv, EntryInv, HeldInv, Holds
<1>5. ThreadInv'
  BY <1>1 DEF LogInv, ThreadInv
<1>6. BufferInv'
  <2>1. PICK e : Formatted(buffer[c], TextOf(result[c])) = [data |-> e, used |-> 0]
    BY <1>3, FormattedBuffer
  <2>2. buffer' = [buffer EXCEPT ![c] = [data |-> e, used |-> 0]]
    BY <2>1 DEF WriteText
  <2> QED  BY <1>2, <2>2 DEF LogInv, BufferInv
<1>7. EntryInv'
  <2>3. written' = Append(written, Text(result[c]))
    BY TextOut
  <2> QED  BY <1>1, <1>4, <2>3, TextMoves DEF LogInv
<1>8. DrainInv'
  <2>1. CASE c = Closer
    <3>1. life' \in {"loop", "drain"}
      BY <2>1, ConsumersAssumption DEF Phase
    <3> QED  BY <3>1 DEF DrainInv
  <2>2. CASE c = Worker
    <3>1. life' = life /\ worker = "text"
      BY <2>2, ConsumersAssumption DEF Phase
    <3> QED  BY <1>1, <3>1 DEF LogInv, DrainInv
  <2> QED  BY <2>1, <2>2, ConsumersAssumption
<1> QED  BY <1>5, <1>6, <1>7, <1>8 DEF LogInv

LEMMA LogInvStep == LogInv /\ IInv /\ FlagInv /\ [LogNext]_allVars => LogInv'
<1> SUFFICES ASSUME LogInv, IInv, FlagInv, [LogNext]_allVars PROVE LogInv'
  OBVIOUS
<1> USE DEF Phase, Destroying
<1>1. CASE Constructor
  <2>1. CASE CreateWorker
    <3>1. /\ life = "start" /\ life' = "test" /\ worker = "unborn" /\ worker' = "born"
          /\ UNCHANGED <<vars, buffer, written>>
      BY <2>1 DEF CreateWorker, FlagInv
    <3> QED  BY <3>1, QuietStep
  <2>2. CASE TestStarted
    BY <2>2, QuietStep DEF TestStarted
  <2>3. CASE SleepUntilStarted
    BY <2>3, QuietStep DEF SleepUntilStarted
  <2>4. CASE WakeSpuriously
    BY <2>4, QuietStep DEF WakeSpuriously
  <2> QED  BY <1>1, <2>1, <2>2, <2>3, <2>4 DEF Constructor
<1>2. CASE WorkerFunction
  <2>1. CASE WorkerStarts \/ WorkerTells \/ WorkerTests
    <3>1. CASE WorkerStarts
      BY <3>1, QuietStep DEF WorkerStarts
    <3>2. CASE WorkerTells
      BY <3>2, QuietStep DEF WorkerTells
    <3>3. CASE WorkerTests
      BY <3>3, QuietStep DEF WorkerTests
    <3> QED  BY <2>1, <3>1, <3>2, <3>3
  <2>2. CASE WorkerPops
    <3>1. CASE worker = "pop" /\ PopLock(Worker) /\ worker' = "popping"
      BY <2>2, <3>1, AskLogStep, ConsumersAssumption DEF WorkerPops, LogInv, ThreadInv
    <3>2. CASE pc[Worker] # "idle" /\ ConsumerNext(Worker) /\ UNCHANGED logVars
      BY <3>2, PopLogStep, ConsumersAssumption
    <3> QED  BY <2>2, <3>1, <3>2 DEF WorkerPops
  <2>3. CASE WorkerWrites
    BY <2>3, HeaderStep, ConsumersAssumption DEF WorkerWrites
  <2>4. CASE WorkerWritesText
    BY <2>4, TextStep, ConsumersAssumption DEF WorkerWritesText
  <2> QED  BY <1>2, <2>1, <2>2, <2>3, <2>4 DEF WorkerFunction
<1>3. CASE Destructor
  <2>1. CASE Destroy
    BY <2>1, QuietStep DEF Destroy
  <2>2. CASE SwitchQueue
    BY <2>2, SwitchLogStep
  <2>3. CASE CloserPops
    <3>1. CASE life = "drain" /\ PopLock(Closer) /\ life' = "popping"
      BY <2>3, <3>1, AskLogStep, ConsumersAssumption DEF CloserPops, LogInv, ThreadInv
    <3>2. CASE pc[Closer] # "idle" /\ ConsumerNext(Closer) /\ UNCHANGED logVars
      BY <3>2, PopLogStep, ConsumersAssumption
    <3> QED  BY <2>3, <3>1, <3>2 DEF CloserPops
  <2>4. CASE CloserWrites
    BY <2>4, HeaderStep, ConsumersAssumption DEF CloserWrites
  <2>5. CASE CloserWritesText
    BY <2>5, TextStep, ConsumersAssumption DEF CloserWritesText, AfterDrain
  <2>6. CASE Join
    BY <2>6, QuietStep DEF Join
  <2> QED  BY <1>3, <2>1, <2>2, <2>3, <2>4, <2>5, <2>6 DEF Destructor
<1>4. CASE \E p \in Producers : Post(p)
  BY <1>4, PostStep
<1>5. CASE OtherObjects
  <2>1. /\ life = "alive" /\ life' \in {"alive", "aborted"}
        /\ UNCHANGED <<vars, worker, buffer, written>>
    BY <1>5 DEF OtherObjects, AnotherLog, ReleaseLog, Exit
  <2> QED  BY <2>1, QuietStep
<1>6. CASE UNCHANGED allVars
  BY <1>6, QuietStep DEF allVars, logVars
<1> QED  BY <1>1, <1>2, <1>3, <1>4, <1>5, <1>6 DEF LogNext

LEMMA AllWrittenFromLogInv == LogInv => AllWrittenOnce
<1> SUFFICES ASSUME LogInv PROVE AllWrittenOnce
  OBVIOUS
<1>1. ASSUME NEW i \in DOMAIN written
      PROVE  /\ written[i] \in {Header(written[i].entry), Text(written[i].entry)}
             /\ written[i] = Text(written[i].entry) =>
                  \E j \in 1 .. i : written[j] = Header(written[i].entry)
  <2>1. written[i] \in Pieces
    BY DEF LogInv, EntryInv, WrittenInv
  <2>2. PICK m \in Message : written[i] = Header(m) \/ written[i] = Text(m)
    BY <2>1 DEF Pieces
  <2>3. written[i].entry = m
    BY <2>2 DEF Header, Text
  <2> QED  BY <2>2, <2>3 DEF LogInv, EntryInv, WrittenInv
<1>2. ASSUME life = "gone", NEW m \in Message, Pushed(m)
      PROVE  IsWritten(Text(m))
  <2>1. contents = <<>> /\ worker = "ended"
    BY <1>2 DEF LogInv, DrainInv
  <2>2. \A c \in Consumers : ~Holds(c)
    BY <1>2, <2>1 DEF Holds, Phase
  <2>3. ~Among(m, contents)
    BY <2>1 DEF Among
  <2>4. Among(Text(m), written)
    BY <1>2, <2>2, <2>3 DEF LogInv, EntryInv, KeptInv
  <2> QED  BY <2>4 DEF Among, IsWritten
<1>3. Distinct(written)
  BY DEF LogInv, EntryInv, WrittenInv
<1> QED  BY <1>1, <1>2, <1>3 DEF AllWrittenOnce, Distinct

LEMMA Invariants == LogSpec => [](IInv /\ FlagInv /\ LogInv)
<1>1. LogSpec => []IInv
  BY QueueSteps, Invariance
<1>2. LogSpec => []FlagInv
  BY FlagInit, FlagStep, PTL DEF LogSpec
<1>3. LogInv /\ (IInv /\ FlagInv) /\ [LogNext]_allVars => LogInv'
  BY LogInvStep
<1> QED  BY <1>1, <1>2, <1>3, LogInvInit, PTL DEF LogSpec

\* Nothing but whole entries is written, no part of one twice or before its
\* header, and everything posted has been when the last destructor has returned
\* (lines 209-235 and 275-300), for any threads, capacity, entries and objects.
THEOREM AllWrittenOnceCorrect == LogSpec => []AllWrittenOnce
BY Invariants, AllWrittenFromLogInv, PTL

-----------------------------------------------------------------------------
(* Torn entries *)

\* The places where an entry is torn: Torn, of any sequence of pieces.
TornIn(s) ==
  {i \in 1 .. Len(s) - 1 : s[i].part = "header" /\ s[i + 1].entry # s[i].entry}

\* The last piece of s is a header, whose text is still to come.
EndsInHeader(s) == s # <<>> /\ s[Len(s)].part = "header"

\* A piece tears no entry but the one that was written last, and that only if
\* it is another's.
LEMMA OneMoreTorn ==
  ASSUME NEW S, NEW s \in Seq(S), NEW e \in S
  PROVE  /\ Cardinality(TornIn(s)) \in Nat
         /\ Cardinality(TornIn(Append(s, e))) \in Nat
         /\ Cardinality(TornIn(Append(s, e))) <= Cardinality(TornIn(s)) + 1
         /\ (EndsInHeader(s) => s[Len(s)].entry = e.entry) => TornIn(Append(s, e)) = TornIn(s)
<1> DEFINE t == Append(s, e)
<1>1. /\ t \in Seq(S) /\ Len(t) = Len(s) + 1 /\ Len(s) \in Nat
      /\ \A i \in 1 .. Len(s) : t[i] = s[i]
      /\ t[Len(s) + 1] = e
      /\ s # <<>> => Len(s) > 0
  OBVIOUS
<1> HIDE DEF t
<1>2. \A i \in 1 .. Len(s) - 1 : t[i] = s[i] /\ t[i + 1] = s[i + 1]
  <2> SUFFICES ASSUME NEW i \in 1 .. Len(s) - 1
               PROVE  t[i] = s[i] /\ t[i + 1] = s[i + 1]
    OBVIOUS
  <2>1. i \in 1 .. Len(s) /\ i + 1 \in 1 .. Len(s)
    BY <1>1
  <2> QED  BY <1>1, <2>1
<1>3. TornIn(s) \subseteq TornIn(t)
  BY <1>1, <1>2 DEF TornIn
<1>4. ASSUME NEW i \in TornIn(t), i \notin TornIn(s)
      PROVE  i = Len(s) /\ EndsInHeader(s) /\ s[Len(s)].entry # e.entry
  <2>1. i \in 1 .. Len(s) /\ t[i].part = "header" /\ t[i + 1].entry # t[i].entry
    BY <1>1, <1>4 DEF TornIn
  <2>2. i \notin 1 .. Len(s) - 1
    BY <1>2, <1>4, <2>1 DEF TornIn
  <2>3. i = Len(s)
    BY <1>1, <2>1, <2>2
  <2> QED  BY <1>1, <2>1, <2>3 DEF EndsInHeader
<1>5. IsFiniteSet(TornIn(s))
  <2>1. IsFiniteSet(1 .. Len(s) - 1)
    BY <1>1, FS_Interval
  <2> QED  BY <2>1, FS_Subset DEF TornIn
<1>6. IsFiniteSet(TornIn(s) \cup {Len(s)})
      /\ Cardinality(TornIn(s) \cup {Len(s)}) <= Cardinality(TornIn(s)) + 1
      /\ Cardinality(TornIn(s)) \in Nat
  <2>1. PICK T, n : T = TornIn(s) /\ n = Cardinality(T)
    OBVIOUS
  <2>2. IsFiniteSet(T) /\ n \in Nat
    BY <1>5, <2>1, FS_CardinalityType
  <2>3. PICK m : m = Cardinality(T \cup {Len(s)})
    OBVIOUS
  <2>4. IsFiniteSet(T \cup {Len(s)}) /\ m = IF Len(s) \in T THEN n ELSE n + 1
    BY <2>1, <2>2, <2>3, FS_AddElement
  <2>5. m <= n + 1
    BY <2>2, <2>4
  <2> QED  BY <2>1, <2>2, <2>3, <2>4, <2>5
<1>7. TornIn(t) \subseteq TornIn(s) \cup {Len(s)}
  BY <1>4
<1>8. /\ Cardinality(TornIn(t)) <= Cardinality(TornIn(s) \cup {Len(s)})
      /\ IsFiniteSet(TornIn(t)) /\ Cardinality(TornIn(t)) \in Nat
      /\ Cardinality(TornIn(s) \cup {Len(s)}) \in Nat
  BY <1>6, <1>7, FS_Subset, FS_CardinalityType
<1>9. Cardinality(TornIn(t)) <= Cardinality(TornIn(s)) + 1
  <2>1. PICK a, b, d : /\ a = Cardinality(TornIn(t)) /\ b = Cardinality(TornIn(s) \cup {Len(s)})
                       /\ d = Cardinality(TornIn(s))
    OBVIOUS
  <2>2. a \in Nat /\ b \in Nat /\ d \in Nat /\ a <= b /\ b <= d + 1
    BY <1>6, <1>8, <2>1
  <2>3. a <= d + 1
    BY <2>2
  <2> QED  BY <2>1, <2>3
<1>10. (EndsInHeader(s) => s[Len(s)].entry = e.entry) => TornIn(t) = TornIn(s)
  BY <1>3, <1>4
<1> QED  BY <1>6, <1>8, <1>9, <1>10 DEF t

\* The closer has been told to pop and write beside the worker.
Draining == {"drain", "popping", "text", "join", "gone"}

EndsWith(piece) == written # <<>> /\ written[Len(written)] = piece

\* How many more entries can be torn: one by the header and one by the text of
\* the last entry of the worker, and that entry between them.
StillToTear ==
  IF worker \in {"pop", "popping"} THEN 3
  ELSE IF worker # "text" THEN 0
  ELSE IF EndsWith(Header(result[Worker])) THEN 2 ELSE 1

\* FewTorn is not inductive: it rests on how many pieces the worker may still
\* write, and on whose header was written last.
TearInv ==
  /\ life \notin Draining => Torn = {}
  /\ Cardinality(Torn) \in Nat
  /\ Cardinality(Torn) + StillToTear <= 3
  /\ EndsInHeader(written) =>
       \E c \in Consumers : Phase(c) = "text" /\ EndsWith(Header(result[c]))

\* A step that writes nothing.
LEMMA TearKept ==
  ASSUME TearInv, written' = written,
         \A c \in Consumers : Phase(c) = "text" =>
           Phase(c)' = "text" /\ result'[c] = result[c],
         worker' = "text" => worker = "text",
         worker' \in {"pop", "popping"} =>
           worker \in {"pop", "popping"} \/ life \notin Draining,
         life' \notin Draining => life \notin Draining
  PROVE  TearInv'
<1>1. Torn' = Torn
  BY DEF Torn
<1>2. PICK before, after : before = StillToTear /\ after = StillToTear'
  OBVIOUS
<1>3. \A c \in Consumers : Phase(c) = "text" =>
        (EndsWith(Header(result[c]))' <=> EndsWith(Header(result[c])))
  BY DEF EndsWith, Header
<1>4. Cardinality(Torn)' + StillToTear' <= 3
  <2>1. PICK n : n = Cardinality(Torn) /\ n \in Nat
    BY DEF TearInv
  <2>2. Cardinality(Torn)' = n
    BY <1>1, <2>1
  <2>3. /\ before \in Nat /\ after \in Nat /\ after <= 3 /\ n + before <= 3
    BY <1>2, <2>1 DEF StillToTear, TearInv
  <2>4. n + after <= 3
    <3>1. CASE life \notin Draining
      <4>1. n = 0
        BY <2>1, <3>1, FS_EmptySet DEF TearInv
      <4> QED  BY <2>3, <4>1
    <3>2. CASE life \in Draining
      <4>1. Worker \in Consumers /\ (worker = "text" <=> Phase(Worker) = "text")
        BY ConsumersAssumption DEF Phase
      <4>2. after <= before
        BY <1>2, <1>3, <3>2, <4>1 DEF StillToTear
      <4> QED  BY <2>1, <2>3, <4>2
    <3> QED  BY <3>1, <3>2
  <2> QED  BY <1>2, <2>2, <2>4
<1>5. /\ (life \notin Draining => Torn = {})'
      /\ (Cardinality(Torn) \in Nat)'
  BY <1>1 DEF TearInv, Draining
<1>6. (EndsInHeader(written) =>
         \E c \in Consumers : Phase(c) = "text" /\ EndsWith(Header(result[c])))'
  BY <1>3 DEF TearInv, EndsInHeader
<1> QED  BY <1>4, <1>5, <1>6 DEF TearInv

\* What was written last is a header only while one thread is about to write the
\* text of it.
LEMMA WhoseHeader ==
  ASSUME TearInv, LogInv, EndsInHeader(written)
  PROVE  \E c \in Consumers : /\ Holds(c) /\ Phase(c) = "text"
                              /\ EndsWith(Header(result[c]))
                              /\ written[Len(written)].entry = result[c]
<1>1. PICK c \in Consumers : Phase(c) = "text" /\ EndsWith(Header(result[c]))
  BY DEF TearInv
<1>2. Holds(c)
  BY <1>1 DEF LogInv, ThreadInv, Holds
<1>3. written[Len(written)].entry = result[c]
  BY <1>1 DEF EndsWith, Header
<1> QED  BY <1>1, <1>2, <1>3

\* A thread that has popped an entry writes its header, or the text after it.
WritesHeader(c) ==
  /\ Phase(c) = "popping" /\ Phase(c)' = "text"
  /\ written' = Append(written, Header(result[c]))

WritesText(c) ==
  /\ Phase(c) = "text" /\ Phase(c)' = IF c = Worker THEN "loop" ELSE "drain"
  /\ written' = Append(written, Text(result[c]))

LEMMA PieceWritten ==
  ASSUME LogInv, NEW c \in Consumers, Holds(c), WritesHeader(c) \/ WritesText(c)
  PROVE  /\ Cardinality(Torn) \in Nat /\ Cardinality(Torn') \in Nat
         /\ Cardinality(Torn') <= Cardinality(Torn) + 1
         /\ (EndsInHeader(written) => written[Len(written)].entry = result[c]) => Torn' = Torn
         /\ written' # <<>>
         /\ WritesHeader(c) => written'[Len(written')] = Header(result[c])
         /\ WritesText(c) => written'[Len(written')] = Text(result[c])
<1>1. written \in Seq(Pieces) /\ result[c] \in Message
  BY DEF LogInv, EntryInv, WrittenInv, HeldInv
<1>2. PICK piece \in {Header(result[c]), Text(result[c])} :
        /\ written' = Append(written, piece)
        /\ WritesHeader(c) => piece = Header(result[c])
        /\ WritesText(c) => piece = Text(result[c])
  BY DEF WritesHeader, WritesText
<1>3. piece \in Pieces /\ piece.entry = result[c]
  BY <1>1, <1>2 DEF Pieces, Header, Text
<1>4. Torn = TornIn(written) /\ Torn' = TornIn(Append(written, piece))
  BY <1>2 DEF Torn, TornIn
<1>5. Append(written, piece) # <<>> /\ Append(written, piece)[Len(Append(written, piece))] = piece
  BY <1>1, <1>3
<1> QED  BY <1>1, <1>2, <1>3, <1>4, <1>5, OneMoreTorn

LEMMA WorkerTears ==
  ASSUME TearInv, LogInv, FlagInv, WritesHeader(Worker) \/ WritesText(Worker), Holds(Worker),
         UNCHANGED <<life, result>>
  PROVE  TearInv'
<1>1. Worker \in Consumers /\ Closer \in Consumers /\ Worker # Closer
      /\ Phase(Worker) = worker /\ Phase(Worker)' = worker' /\ Phase(Closer) = life
      /\ \A c \in Consumers : c = Worker \/ c = Closer
  BY ConsumersAssumption DEF Phase
<1>2. /\ Cardinality(Torn) \in Nat /\ Cardinality(Torn') \in Nat
      /\ Cardinality(Torn') <= Cardinality(Torn) + 1
      /\ (EndsInHeader(written) => written[Len(written)].entry = result[Worker]) => Torn' = Torn
      /\ written' # <<>>
      /\ WritesHeader(Worker) => written'[Len(written')] = Header(result[Worker])
      /\ WritesText(Worker) => written'[Len(written')] = Text(result[Worker])
  BY <1>1, PieceWritten
<1>3. life \notin Draining => Torn' = {}
  <2> SUFFICES ASSUME life \notin Draining PROVE Torn' = {}
    OBVIOUS
  <2>1. EndsInHeader(written) => written[Len(written)].entry = result[Worker]
    BY <1>1, WhoseHeader DEF Draining
  <2> QED  BY <1>2, <2>1 DEF TearInv
<1>4. PICK n, m, before, after : /\ n = Cardinality(Torn) /\ m = Cardinality(Torn')
                                 /\ before = StillToTear /\ after = StillToTear'
  OBVIOUS
<1>5. n \in Nat /\ m \in Nat /\ m <= n + 1 /\ n + before <= 3
  BY <1>2, <1>4 DEF TearInv
<1>6. CASE WritesHeader(Worker)
  <2>1. before = 3 /\ worker' = "text"
    BY <1>1, <1>4, <1>6 DEF StillToTear, WritesHeader
  <2>2. EndsWith(Header(result[Worker]))'
    BY <1>2, <1>6 DEF EndsWith, Header
  <2>3. after = 2
    BY <1>4, <2>1, <2>2 DEF StillToTear
  <2>4. m + after <= 3
    BY <1>5, <2>1, <2>3
  <2>5. \E c \in Consumers : Phase(c)' = "text" /\ EndsWith(Header(result[c]))'
    BY <1>1, <2>1, <2>2
  <2> QED  BY <1>2, <1>3, <1>4, <2>4, <2>5 DEF TearInv, Draining
<1>7. CASE WritesText(Worker)
  <2>1. worker = "text" /\ worker' = "loop" /\ after = 0
    BY <1>1, <1>4, <1>7 DEF StillToTear, WritesText
  <2>2. m + after <= 3
    <3>1. CASE EndsWith(Header(result[Worker]))
      <4>1. written[Len(written)].entry = result[Worker]
        BY <3>1 DEF EndsWith, Header
      <4>2. m = n /\ before = 2
        BY <1>2, <1>4, <2>1, <3>1, <4>1 DEF StillToTear
      <4> QED  BY <1>5, <2>1, <4>2
    <3>2. CASE ~EndsWith(Header(result[Worker]))
      <4>1. before = 1
        BY <1>4, <2>1, <3>2 DEF StillToTear
      <4> QED  BY <1>5, <2>1, <4>1
    <3> QED  BY <3>1, <3>2
  <2>3. ~EndsInHeader(written')
    BY <1>2, <1>7 DEF EndsInHeader, Text
  <2> QED  BY <1>2, <1>3, <1>4, <2>2, <2>3 DEF TearInv, Draining, EndsInHeader
<1> QED  BY <1>6, <1>7

LEMMA CloserTears ==
  ASSUME TearInv, LogInv, FlagInv, WritesHeader(Closer) \/ WritesText(Closer), Holds(Closer),
         UNCHANGED <<worker, result>>
  PROVE  TearInv'
<1>1. Worker \in Consumers /\ Closer \in Consumers /\ Worker # Closer
      /\ Phase(Worker) = worker /\ Phase(Closer) = life /\ Phase(Closer)' = life'
      /\ \A c \in Consumers : c = Worker \/ c = Closer
  BY ConsumersAssumption DEF Phase
<1>2. /\ Cardinality(Torn) \in Nat /\ Cardinality(Torn') \in Nat
      /\ Cardinality(Torn') <= Cardinality(Torn) + 1
      /\ (EndsInHeader(written) => written[Len(written)].entry = result[Closer]) => Torn' = Torn
      /\ written' # <<>>
      /\ WritesHeader(Closer) => written'[Len(written')] = Header(result[Closer])
      /\ WritesText(Closer) => written'[Len(written')] = Text(result[Closer])
  BY <1>1, PieceWritten
<1>3. life' \in Draining
  BY <1>1 DEF WritesHeader, WritesText, Draining
<1>4. PICK n, m, before, after : /\ n = Cardinality(Torn) /\ m = Cardinality(Torn')
                                 /\ before = StillToTear /\ after = StillToTear'
  OBVIOUS
<1>5. n \in Nat /\ m \in Nat /\ m <= n + 1 /\ n + before <= 3
  BY <1>2, <1>4 DEF TearInv
<1>6. \A k \in Message : worker = "text" /\ result[Worker] = k =>
        written'[Len(written')] # Header(k)
  <2>1. SUFFICES ASSUME worker = "text", result[Worker] \in Message
                 PROVE  written'[Len(written')] # Header(result[Worker])
    OBVIOUS
  <2>2. Holds(Worker)
    BY <1>1, <2>1 DEF LogInv, ThreadInv, Holds
  <2>3. result[Worker] # result[Closer]
    BY <1>1, <2>2 DEF LogInv, EntryInv, HeldInv
  <2> QED  BY <1>2, <2>3, PiecesDiffer
<1>7. worker = "text" => result[Worker] \in Message
  BY <1>1 DEF LogInv, ThreadInv, EntryInv, HeldInv, Holds
<1>8. worker = "text" => ~EndsWith(Header(result[Worker]))'
  BY <1>6, <1>7 DEF EndsWith, Header
<1>9. m + after <= 3
  <2>1. CASE worker = "text" /\ EndsWith(Header(result[Worker]))
    <3>1. before = 2 /\ after = 1
      BY <1>4, <1>8, <2>1 DEF StillToTear
    <3> QED  BY <1>5, <3>1
  <2>2. CASE ~(worker = "text" /\ EndsWith(Header(result[Worker])))
    <3>1. after = before /\ before \in Nat
      BY <1>4, <1>8, <2>2 DEF StillToTear
    <3>2. EndsInHeader(written) => written[Len(written)].entry = result[Closer]
      BY <1>1, <2>2, WhoseHeader
    <3>3. m = n
      BY <1>2, <1>4, <3>2
    <3> QED  BY <1>5, <3>1, <3>3
  <2> QED  BY <2>1, <2>2
<1>10. EndsInHeader(written') => Phase(Closer)' = "text" /\ EndsWith(Header(result[Closer]))'
  <2>1. CASE WritesHeader(Closer)
    BY <1>2, <2>1 DEF EndsWith, Header, WritesHeader
  <2>2. CASE WritesText(Closer)
    BY <1>2, <2>2 DEF EndsInHeader, Text
  <2> QED  BY <2>1, <2>2
<1> QED  BY <1>1, <1>2, <1>3, <1>4, <1>9, <1>10 DEF TearInv, Draining, EndsInHeader

LEMMA TearStep == TearInv /\ LogInv /\ IInv /\ FlagInv /\ [LogNext]_allVars => TearInv'
<1> SUFFICES ASSUME TearInv, LogInv, IInv, FlagInv, [LogNext]_allVars PROVE TearInv'
  OBVIOUS
<1>0. /\ Worker \in Consumers /\ Closer \in Consumers /\ Worker # Closer
      /\ Phase(Worker) = worker /\ Phase(Closer) = life
      /\ Phase(Worker)' = worker' /\ Phase(Closer)' = life'
      /\ \A c \in Consumers : c = Worker \/ c = Closer
  BY ConsumersAssumption DEF Phase
<1>1. ASSUME UNCHANGED <<worker, written, result>>, life # "text",
             life' \notin Draining => life \notin Draining
      PROVE  TearInv'
  BY <1>0, <1>1, TearKept
<1>2. ASSUME UNCHANGED <<life, written, result>>, worker # "text", worker' # "text",
             worker' \in {"pop", "popping"} =>
               worker \in {"pop", "popping"} \/ life \notin Draining
      PROVE  TearInv'
  BY <1>0, <1>2, TearKept
<1>3. ASSUME UNCHANGED <<life, worker, written>>, UNCHANGED result
      PROVE  TearInv'
  BY <1>0, <1>3, TearKept DEF Phase
<1>4. DOMAIN result = Consumers
  BY DEF IInv, TypeOK
<1>5. ASSUME NEW c \in Consumers, pc[c] # "idle", ConsumerNext(c), UNCHANGED logVars
      PROVE  TearInv'
  <2>0. result' = result \/ result' = [result EXCEPT ![c] = Head(contents)]
    BY <1>5, ConsumerStep
  <2>1. Phase(c) = "popping" /\ \A d \in Consumers : d # c => result'[d] = result[d]
    BY <1>5, <1>4, <2>0 DEF LogInv, ThreadInv
  <2>2. UNCHANGED <<life, worker, written>>
    BY <1>5 DEF logVars
  <2> QED  BY <2>1, <2>2, TearKept DEF Phase
<1>6. ASSUME NEW c \in Consumers, PopLock(c)
      PROVE  \A d \in Consumers : d # c => result'[d] = result[d]
  BY <1>6, <1>4, AskStep
<1>7. CASE Constructor
  <2>1. CASE CreateWorker
    BY <2>1, TearKept, <1>0 DEF CreateWorker, FlagInv, Draining, vars
  <2>2. CASE TestStarted \/ SleepUntilStarted \/ WakeSpuriously
    BY <1>1, <2>2 DEF TestStarted, SleepUntilStarted, WakeSpuriously, Draining, vars
  <2> QED  BY <1>7, <2>1, <2>2 DEF Constructor
<1>8. CASE WorkerFunction
  <2>1. CASE WorkerStarts
    BY <1>2, <2>1 DEF WorkerStarts, vars
  <2>2. CASE WorkerTells
    BY <1>0, <2>2, TearKept DEF WorkerTells, vars, Draining
  <2>3. CASE WorkerTests
    <3>1. worker' = "pop" => life \notin Draining
      BY <2>3 DEF WorkerTests, WorkerStops, FlagInv, Destroying, Draining
    <3> QED  BY <1>2, <2>3, <3>1 DEF WorkerTests, vars
  <2>4. CASE WorkerPops
    <3>1. CASE worker = "pop" /\ PopLock(Worker) /\ worker' = "popping"
                 /\ UNCHANGED <<stop, life, objects, buffer, written>>
      BY <1>0, <1>6, <3>1, TearKept
    <3> QED  BY <1>0, <1>5, <2>4, <3>1 DEF WorkerPops
  <2>5. CASE WorkerWrites
    <3>1. WriteHeader(Worker) /\ UNCHANGED <<life, result>> /\ worker = "popping"
      BY <2>5 DEF WorkerWrites, vars
    <3>2. CASE result[Worker] = Empty
      BY <1>0, <1>2, <2>5, <3>1, <3>2, HeaderOut DEF WorkerWrites
    <3>3. CASE result[Worker] # Empty
      <4>1. Holds(Worker) /\ WritesHeader(Worker)
        BY <1>0, <2>5, <3>1, <3>3, HeaderOut DEF WorkerWrites, Holds, WritesHeader
      <4> QED  BY <3>1, <4>1, WorkerTears
    <3> QED  BY <3>2, <3>3
  <2>6. CASE WorkerWritesText
    <3>1. Holds(Worker) /\ WritesText(Worker) /\ UNCHANGED <<life, result>>
      BY <1>0, <2>6, TextOut DEF WorkerWritesText, WritesText, vars
    <3> QED  BY <3>1, WorkerTears
  <2> QED  BY <1>8, <2>1, <2>2, <2>3, <2>4, <2>5, <2>6 DEF WorkerFunction
<1>9. CASE Destructor
  <2>1. CASE Destroy
    BY <1>1, <2>1 DEF Destroy, vars, Draining
  <2>2. CASE SwitchQueue
    BY <1>1, <2>2, SwitchStep DEF SwitchQueue, Draining
  <2>3. CASE CloserPops
    <3>1. CASE life = "drain" /\ PopLock(Closer) /\ life' = "popping"
                 /\ UNCHANGED <<stop, worker, objects, buffer, written>>
      BY <1>0, <1>6, <3>1, TearKept DEF Draining
    <3> QED  BY <1>0, <1>5, <2>3, <3>1 DEF CloserPops
  <2>4. CASE CloserWrites
    <3>1. WriteHeader(Closer) /\ UNCHANGED <<worker, result>> /\ life = "popping"
      BY <2>4 DEF CloserWrites, vars
    <3>2. CASE result[Closer] = Empty
      BY <1>0, <1>1, <2>4, <3>1, <3>2, HeaderOut DEF CloserWrites, Draining
    <3>3. CASE result[Closer] # Empty
      <4>1. Holds(Closer) /\ WritesHeader(Closer)
        BY <1>0, <2>4, <3>1, <3>3, HeaderOut DEF CloserWrites, Holds, WritesHeader
      <4> QED  BY <3>1, <4>1, CloserTears
    <3> QED  BY <3>2, <3>3
  <2>5. CASE CloserWritesText
    <3>1. Holds(Closer) /\ WritesText(Closer) /\ UNCHANGED <<worker, result>>
      BY <1>0, <2>5, TextOut DEF CloserWritesText, WritesText, AfterDrain, vars
    <3> QED  BY <3>1, CloserTears
  <2>6. CASE Join
    BY <1>1, <2>6 DEF Join, Draining, vars
  <2> QED  BY <1>9, <2>1, <2>2, <2>3, <2>4, <2>5, <2>6 DEF Destructor
<1>10. CASE \E p \in Producers : Post(p)
  BY <1>3, <1>10, ProducerStep DEF Post, logVars
<1>11. CASE OtherObjects
  BY <1>1, <1>11 DEF OtherObjects, AnotherLog, ReleaseLog, Exit, Draining, vars
<1>12. CASE UNCHANGED allVars
  BY <1>3, <1>12 DEF allVars, logVars, vars
<1> QED  BY <1>7, <1>8, <1>9, <1>10, <1>11, <1>12 DEF LogNext

\* Lines come out whole until the last destructor pops and writes beside the
\* worker, and then all but three do (lines 218-227 and 290-297), for any number
\* of threads, entries and objects.
THEOREM FewTornCorrect == LogSpec => []FewTorn
<1>1. LogSpec => [](IInv /\ FlagInv /\ LogInv)
  BY Invariants
<1>2. LogInit => TearInv
  <2> SUFFICES ASSUME LogInit PROVE TearInv
    OBVIOUS
  <2>1. written = <<>> /\ Torn = {} /\ StillToTear = 0 /\ Cardinality(Torn) = 0
    BY FS_EmptySet DEF LogInit, Torn, StillToTear
  <2> QED  BY <2>1 DEF TearInv, EndsInHeader
<1>3. TearInv /\ (IInv /\ FlagInv /\ LogInv) /\ [LogNext]_allVars => TearInv'
  BY TearStep
<1>4. TearInv => FewTorn
  <2> SUFFICES ASSUME TearInv PROVE FewTorn
    OBVIOUS
  <2>1. PICK n, left : n = Cardinality(Torn) /\ left = StillToTear
    OBVIOUS
  <2>2. n \in Nat /\ left \in Nat /\ n + left <= 3
    BY <2>1 DEF TearInv, StillToTear
  <2>3. n <= 3
    BY <2>2
  <2> QED  BY <2>1, <2>3 DEF TearInv, FewTorn, Draining
<1> QED  BY <1>1, <1>2, <1>3, <1>4, PTL DEF LogSpec
==============================================================================
