------------------------------ MODULE FifoQueue ------------------------------
(***************************************************************************)
(* What base::MessageQueue (src/base/message_queue.hpp) promises its       *)
(* callers of order: one FIFO queue, with none of its locks.  Pushing      *)
(* appends one message atomically; a Pop takes the oldest message, or      *)
(* nothing at all once the queue is in non-blocking mode and is empty.     *)
(* How many messages it holds is a property of MessageQueue.               *)
(***************************************************************************)
EXTENDS Naturals, Sequences

CONSTANTS
  Producers,   \* threads that call Push
  Consumers,   \* threads that call Pop
  Quota,       \* bound: the number of messages a producer sends
  Empty        \* the empty optional

VARIABLES
  queue,       \* the messages pushed and not yet popped, oldest first
  nonBlock,    \* SetNotWait has been called
  sent,        \* sent[p]: how many messages p has pushed
  asking,      \* the consumers whose Pop has not been answered
  result       \* result[c]: the optional of the last (or current) Pop of c

vars == <<queue, nonBlock, sent, asking, result>>

Message == Producers \X (1 .. Quota)

Init ==
  /\ queue = <<>>
  /\ nonBlock = FALSE
  /\ sent = [p \in Producers |-> 0]
  /\ asking = {}
  /\ result = [c \in Consumers |-> Empty]

Put(p) ==
  /\ sent[p] < Quota
  /\ queue' = Append(queue, <<p, sent[p] + 1>>)
  /\ sent' = [sent EXCEPT ![p] = @ + 1]
  /\ UNCHANGED <<nonBlock, asking, result>>

Ask(c) ==
  /\ c \notin asking
  /\ asking' = asking \cup {c}
  /\ result' = [result EXCEPT ![c] = Empty]
  /\ UNCHANGED <<queue, nonBlock, sent>>

Take(c) ==
  /\ c \in asking
  /\ queue # <<>>
  /\ result' = [result EXCEPT ![c] = Head(queue)]
  /\ queue' = Tail(queue)
  /\ asking' = asking \ {c}
  /\ UNCHANGED <<nonBlock, sent>>

\* An empty answer is given only in non-blocking mode, and only when every
\* message that was pushed has been popped.
TakeNothing(c) ==
  /\ c \in asking
  /\ nonBlock
  /\ queue = <<>>
  /\ asking' = asking \ {c}
  /\ UNCHANGED <<queue, nonBlock, sent, result>>

StopWaiting ==
  /\ ~nonBlock
  /\ nonBlock' = TRUE
  /\ UNCHANGED <<queue, sent, asking, result>>

Next ==
  \/ \E p \in Producers : Put(p)
  \/ \E c \in Consumers : Ask(c) \/ Take(c) \/ TakeNothing(c)
  \/ StopWaiting

Spec == Init /\ [][Next]_vars
==============================================================================
