--------------------------- MODULE KeyValueService ---------------------------
(***************************************************************************)
(* What the toy-redis server is to clients that wait for each answer: one  *)
(* table that every command reads or writes atomically.  A key keeps the   *)
(* first value it is set to; a get of an absent key, and a command the     *)
(* server does not know, is answered by nothing at all.                    *)
(***************************************************************************)
EXTENDS Naturals, Sequences

CONSTANTS Peers, Keys, Values, Missing, Commands, NoCommand

VARIABLES
  store,      \* store[k]: the value of k, or Missing
  request,    \* request[p]: the command of p that was not executed yet
  answer,     \* answer[p]: what was computed for p and not delivered yet
  replies     \* replies[p]: the answers delivered to p

vars == <<store, request, answer, replies>>

Init ==
  /\ store = [k \in Keys |-> Missing]
  /\ request = [p \in Peers |-> NoCommand]
  /\ answer = [p \in Peers |-> <<>>]
  /\ replies = [p \in Peers |-> <<>>]

Submit(p, c) ==
  /\ request[p] = NoCommand
  /\ answer[p] = <<>>
  /\ request' = [request EXCEPT ![p] = c]
  /\ UNCHANGED <<store, answer, replies>>

Executed(p) == request' = [request EXCEPT ![p] = NoCommand]

Set(p, k, v) ==
  /\ request[p] = <<"set", k, v>>
  /\ store' = IF store[k] = Missing THEN [store EXCEPT ![k] = v] ELSE store
  /\ answer' = [answer EXCEPT ![p] = <<"ok">>]
  /\ Executed(p)
  /\ UNCHANGED replies

Get(p, k) ==
  /\ request[p] = <<"get", k>>
  /\ answer' = [answer EXCEPT ![p] = IF store[k] = Missing THEN <<>> ELSE <<store[k]>>]
  /\ Executed(p)
  /\ UNCHANGED <<store, replies>>

Ignore(p) ==
  /\ request[p] # NoCommand
  /\ request[p][1] \notin {"get", "set"}
  /\ Executed(p)
  /\ UNCHANGED <<store, answer, replies>>

Deliver(p) ==
  /\ answer[p] # <<>>
  /\ replies' = [replies EXCEPT ![p] = @ \o answer[p]]
  /\ answer' = [answer EXCEPT ![p] = <<>>]
  /\ UNCHANGED <<store, request>>

Next ==
  \E p \in Peers :
    \/ \E c \in Commands : Submit(p, c)
    \/ \E k \in Keys : Get(p, k) \/ \E v \in Values : Set(p, k, v)
    \/ Ignore(p)
    \/ Deliver(p)

Spec == Init /\ [][Next]_vars
==============================================================================
