------------------------------- MODULE Server -------------------------------
(***************************************************************************)
(* ToyRedisServer (src/toy-redis/server.hpp), its RedisClients             *)
(* (src/toy-redis/client.hpp) and the event loop that drives them          *)
(* (IOService::MainLoop and ProcessEvents, src/net/io_service.hpp), with   *)
(* the TCP connections of the clients, here called peers.                  *)
(*                                                                         *)
(* The server is one thread.  What interleaves with it is the network: a   *)
(* peer may connect, send or leave between any two of its steps, and so    *)
(* between epoll_wait and the handlers it leads to.  A step of the server  *)
(* is one call of epoll_wait, accept, read, write or close, with the code  *)
(* that runs up to the next of them.  epoll_ctl is no step of its own:     *)
(* what it changes only the next epoll_wait looks at.  What runs between   *)
(* close and the next call is: then the kernel has forgotten a descriptor  *)
(* that the poller, the IOService and list_ still name.  Handling a fired  *)
(* descriptor is a read step (at the end of a file, three) and a write     *)
(* step, and the events that both look at (current) are computed before.   *)
(*                                                                         *)
(* Bytes: a command is a tuple, <<"set", k, v>>, <<"get", k>>, <<"other">> *)
(* (two words or more, unknown), <<"word">> (one word) or <<"bulk">> (text *)
(* that starts with '*').  A read takes all that has arrived; commands     *)
(* have no terminator, so those that arrive together are one text (Merge). *)
(***************************************************************************)
EXTENDS EpollReactor, Integers, Sequences, SequencesExt

CONSTANTS
  ListenFd,      \* ipfd_, the listening socket
  Peers,         \* the clients of the server, each with one connection
  Nobody,        \* the owner of a closed descriptor
  Keys, Values,
  Missing,       \* a key is not in the dictionary
  Junk,          \* a word that two commands run together have made
  NoEvent,       \* no event is being handled
  Commands,      \* what peers send
  MaxSends,      \* bound: commands sent by a peer
  ClosedLoop,    \* peers wait for each answer before they send or leave
  Leaving,       \* how peers may leave: "fin" (close) and "rst" (abort)
  StaleMasks     \* what the uninitialized EpollPoller::fdEvent may hold: {{}} is
                 \* memory that happens to be clear

ASSUME HandlersAssumption == Handlers = {"accept", "client"} \cup Peers
ASSUME DescriptorsAssumption ==
  /\ Descriptors \subseteq Nat
  /\ ListenFd \in Descriptors
ASSUME StaleMasksAssumption == StaleMasks \subseteq SUBSET Events
ASSUME LeavingAssumption == Leaving \subseteq {"fin", "rst"}
ASSUME PeersAssumption ==
  /\ Nobody \notin Peers
  /\ "accept" \notin Peers /\ "client" \notin Peers

VARIABLES
  reactor,    \* the IOService and its poller
  fate,       \* "running", or what ended the process
  step,       \* start, poll (before epoll_wait), read and write (in ProcessEvents),
              \* close and free (in readQueryFromClient, at the end of a file)
  fired,      \* fired_fds_, not yet handled
  current,    \* the fired descriptor being handled, with the events to handle
  store,      \* dict_
  client,     \* client[p]: the RedisClient of p in list_, or NoClient
  owner,      \* owner[fd]: the peer whose connection the server has open as fd
  stream,     \* stream[p]: none, open, or how p left: fin, rst (a reset that
              \* no system call has reported), closed (a write meets SIGPIPE)
  backlog,    \* the connections not yet accepted, oldest first
  inbox,      \* inbox[p]: the commands of p not yet read
  sends,      \* sends[p]: how many commands p has sent
  replies     \* replies[p]: the answers p has received

vars == <<reactor, fate, step, fired, current, store, client, owner, stream,
          backlog, inbox, sends, replies>>

peerVars == <<stream, backlog, inbox, sends, replies>>

Fds == Descriptors \ {ListenFd}

NewClient(fd) == [fd |-> fd, requestType |-> "initial", result |-> <<>>]

\* A RedisClient that is not in list_ has no descriptor.
NoClient == NewClient(-1)
Listed == {p \in Peers : client[p] # NoClient}

Init ==
  /\ \E masks \in [Descriptors -> StaleMasks] : reactor = NewReactor(masks)
  /\ fate = "running"
  /\ step = "start"
  /\ fired = {}
  /\ current = NoEvent
  /\ store = [k \in Keys |-> Missing]
  /\ client = [p \in Peers |-> NoClient]
  /\ owner = [fd \in Fds |-> Nobody]
  /\ stream = [p \in Peers |-> "none"]
  /\ backlog = <<>>
  /\ inbox = [p \in Peers |-> <<>>]
  /\ sends = [p \in Peers |-> 0]
  /\ replies = [p \in Peers |-> <<>>]

-----------------------------------------------------------------------------
(* Peers *)

\* A closed-loop peer has no command under way.
Idle(p) == ClosedLoop => Len(replies[p]) = sends[p]

Connect(p) ==
  /\ stream[p] = "none"
  /\ step # "start"
  /\ stream' = [stream EXCEPT ![p] = "open"]
  /\ backlog' = Append(backlog, p)
  /\ UNCHANGED <<reactor, fate, step, fired, current, store, client, owner,
                 inbox, sends, replies>>

Send(p) ==
  /\ stream[p] = "open"
  /\ sends[p] < MaxSends
  /\ Idle(p)
  /\ \E c \in Commands : inbox' = [inbox EXCEPT ![p] = Append(@, c)]
  /\ sends' = [sends EXCEPT ![p] = @ + 1]
  /\ UNCHANGED <<reactor, fate, step, fired, current, store, client, owner,
                 stream, backlog, replies>>

Leave(p) ==
  /\ stream[p] = "open"
  /\ Idle(p)
  /\ \E how \in Leaving : stream' = [stream EXCEPT ![p] = how]
  /\ UNCHANGED <<reactor, fate, step, fired, current, store, client, owner,
                 backlog, inbox, sends, replies>>

-----------------------------------------------------------------------------
(* Starting, and waiting for events *)

\* The constructor registers the listening socket and ignores whether it could.
Start ==
  /\ step = "start"
  /\ reactor' = AddEventListener(reactor, ListenFd, "Read", "accept")
  /\ step' = "poll"
  /\ UNCHANGED <<fate, fired, current, store, client, owner>>
  /\ UNCHANGED peerVars

\* The state of a socket: a send buffer is never full here.
Ready(fd) ==
  IF fd = ListenFd THEN IF backlog = <<>> THEN {} ELSE {"Read"}
  ELSE IF owner[fd] = Nobody THEN {}
  ELSE IF inbox[owner[fd]] = <<>> /\ stream[owner[fd]] = "open" THEN {"Write"}
  ELSE Events

Fired(fd) == FiredEvents(reactor, fd, Ready(fd))

Poll ==
  /\ fate = "running"
  /\ step = "poll"
  /\ fired' = {[fd |-> fd, events |-> Fired(fd)] : fd \in {d \in Descriptors : Fired(d) # {}}}
  /\ fired' # {}
  /\ step' = "read"
  /\ UNCHANGED <<reactor, fate, current, store, client, owner>>
  /\ UNCHANGED peerVars

-----------------------------------------------------------------------------
(* ProcessEvents: the read half *)

\* The mask that decides which handlers are called is copied once, before the
\* read handler runs.
EventsToHandle(e) == e.events \cap reactor.polled[e.fd]

Dispatch(e) ==
  /\ fate = "running"
  /\ step = "read"
  /\ e \in fired
  /\ fired' = fired \ {e}
  /\ current' = [fd |-> e.fd, events |-> EventsToHandle(e)]

CallsRead(e, handler) ==
  /\ Dispatch(e)
  /\ "Read" \in EventsToHandle(e)
  /\ reactor.readHandler[e.fd] = handler

\* The read handler has returned.
Returned == step' = "write"

NoRead(e) ==
  /\ Dispatch(e)
  /\ "Read" \notin EventsToHandle(e)
  /\ Returned
  /\ UNCHANGED <<reactor, fate, store, client, owner>>
  /\ UNCHANGED peerVars

FreeFds == {fd \in Fds : owner[fd] = Nobody}

\* accept fails when the process has no descriptor left.
AcceptFails(e) ==
  /\ CallsRead(e, "accept")
  /\ FreeFds = {}
  /\ Returned
  /\ UNCHANGED <<reactor, fate, store, client, owner>>
  /\ UNCHANGED peerVars

\* addClient: the new RedisClient goes to list_ and is watched for reading,
\* which it asserts to succeed.
AddClient(p, fd) ==
  /\ client' = [client EXCEPT ![p] = NewClient(fd)]
  /\ reactor' = AddEventListener(reactor, fd, "Read", "client")
  /\ fate' = IF AddSucceeds(reactor, fd) THEN fate ELSE "assert"

\* accept gives the lowest free descriptor.
Accept(e) ==
  /\ CallsRead(e, "accept")
  /\ backlog # <<>>
  /\ \E fd \in FreeFds :
       /\ \A other \in FreeFds : fd <= other
       /\ owner' = [owner EXCEPT ![fd] = Head(backlog)]
       /\ AddClient(Head(backlog), fd)
  /\ backlog' = Tail(backlog)
  /\ Returned
  /\ UNCHANGED <<store, stream, inbox, sends, replies>>

\* The RedisClients that clientHandler may find by their descriptor.  It asserts
\* that there is one, and std::function that there is a handler: neither fails
\* here (ReadHandlerReady).
ClientsOf(fd) == {p \in Listed : client[p].fd = fd}

-----------------------------------------------------------------------------
(* RedisClient::readQueryFromClient *)

OneWord(c) == c[1] \in {"word", "bulk"}

\* What the words of two commands that arrive together make.
Merge(a, b) ==
  CASE a[1] = "get" -> <<"get", Junk>>
    [] a[1] = "set" /\ OneWord(b) -> <<"set", a[2], Junk>>
    [] OneWord(a) /\ OneWord(b) -> <<"word">>
    [] OTHER -> <<"other">>

Text(p) == FoldLeft(Merge, Head(inbox[p]), Tail(inbox[p]))

\* processInputBuffer: the first character a client ever sends decides how
\* all it sends is read; a multi-bulk request is not implemented.
RequestType(p) ==
  IF client[p].requestType # "initial" THEN client[p].requestType
  ELSE IF Head(inbox[p])[1] = "bulk" THEN "bulk" ELSE "inline"

\* ProcessCommand.
AddToStore_Replace(k, v) == [store EXCEPT ![k] = v]
AddToStore(k, v) == IF store[k] = Missing THEN [store EXCEPT ![k] = v] ELSE store

StoreAfter(c) == IF c[1] = "set" THEN AddToStore(c[2], c[3]) ELSE store

Answer(c) ==
  IF c[1] = "set" THEN <<"ok">>
  ELSE IF c[1] = "get" /\ c[2] \in Keys /\ store[c[2]] # Missing THEN <<store[c[2]]>>
  ELSE <<>>

ReadsFrom(e, p) ==
  /\ CallsRead(e, "client")
  /\ p \in ClientsOf(e.fd)

Consume(p) ==
  /\ inbox' = [inbox EXCEPT ![p] = <<>>]
  /\ Returned
  /\ UNCHANGED <<owner, stream, backlog, sends, replies>>

\* Both get and set arm the write handler themselves.
Arms_SetOnly(reply) == reply = <<"ok">>
Arms(reply) == reply # <<>>

\* The reply is appended to result_, and a write handler armed to send it.
ArmReply(p, fd, reply) ==
  /\ client' = [client EXCEPT ![p].requestType = RequestType(p), ![p].result = @ \o reply]
  /\ reactor' = IF Arms(reply) THEN AddEventListener(reactor, fd, "Write", p) ELSE reactor

ReadCommand(e, p) ==
  /\ ReadsFrom(e, p)
  /\ inbox[p] # <<>>
  /\ RequestType(p) = "inline"
  /\ ~OneWord(Text(p))
  /\ ArmReply(p, e.fd, Answer(Text(p)))
  /\ store' = StoreAfter(Text(p))
  /\ Consume(p)
  /\ UNCHANGED fate

\* A command of one word leaves the query buffer as it is, and
\* processInputBuffer loops on it for ever.
ReadOneWord(e, p) ==
  /\ ReadsFrom(e, p)
  /\ inbox[p] # <<>>
  /\ RequestType(p) = "inline"
  /\ OneWord(Text(p))
  /\ fate' = "hung"
  /\ Consume(p)
  /\ UNCHANGED <<reactor, store, client>>

\* Multi-bulk text stays in the query buffer.
ReadBulk(e, p) ==
  /\ ReadsFrom(e, p)
  /\ inbox[p] # <<>>
  /\ RequestType(p) = "bulk"
  /\ ArmReply(p, e.fd, <<>>)
  /\ Consume(p)
  /\ UNCHANGED <<fate, store>>

\* read reports the reset of the connection, once; the client is kept.
ReadError(e, p) ==
  /\ ReadsFrom(e, p)
  /\ inbox[p] = <<>>
  /\ stream[p] = "rst"
  /\ stream' = [stream EXCEPT ![p] = "closed"]
  /\ Returned
  /\ UNCHANGED <<reactor, fate, store, client, owner, backlog, inbox, sends, replies>>

\* read returns 0: the end of the file.
ReadEof(e, p) ==
  /\ ReadsFrom(e, p)
  /\ inbox[p] = <<>>
  /\ stream[p] \in {"fin", "closed"}
  /\ step' = "close"
  /\ UNCHANGED <<reactor, fate, store, client, owner>>
  /\ UNCHANGED peerVars

\* From here on the number of the descriptor is free.
CloseFd ==
  /\ step = "close"
  /\ owner' = [owner EXCEPT ![current.fd] = Nobody]
  /\ reactor' = CloseDescriptor(reactor, current.fd)
  /\ step' = "free"
  /\ UNCHANGED <<fate, fired, current, store, client>>
  /\ UNCHANGED peerVars

Freed_ReadOnly(r, fd) == DeleteEventListener(r, fd, "Read")
Freed(r, fd) == DeleteEventListener(DeleteEventListener(r, fd, "Read"), fd, "Write")

\* Free, and clientHandler's removal of the RedisClient from list_.
Free ==
  /\ step = "free"
  /\ \E p \in ClientsOf(current.fd) : client' = [client EXCEPT ![p] = NoClient]
  /\ reactor' = Freed(reactor, current.fd)
  /\ Returned
  /\ UNCHANGED <<fate, fired, current, store, owner>>
  /\ UNCHANGED peerVars

-----------------------------------------------------------------------------
(* ProcessEvents: the write half, RedisClient::SendReplyToClient *)

NextDescriptor ==
  /\ step' = IF fired = {} THEN "poll" ELSE "read"
  /\ current' = NoEvent
  /\ UNCHANGED fired

WriteStep ==
  /\ fate = "running"
  /\ step = "write"
  /\ NextDescriptor
  /\ UNCHANGED <<store, owner, backlog, inbox, sends>>

NoWrite ==
  /\ WriteStep
  /\ "Write" \notin current.events
  /\ UNCHANGED <<reactor, fate, client, stream, replies>>

CallsWrite(handler) ==
  /\ WriteStep
  /\ "Write" \in current.events
  /\ reactor.writeHandler[current.fd] = handler

CallEmptyWrite ==
  /\ CallsWrite(NoHandler)
  /\ fate' = "bad_function_call"
  /\ UNCHANGED <<reactor, client, stream, replies>>

Sent_Kept(p) == UNCHANGED client
Sent(p) == client' = [client EXCEPT ![p].result = <<>>]

Disarm_Forgotten(p) == UNCHANGED reactor
Disarm(p) == reactor' = DeleteEventListener(reactor, client[p].fd, "Write")

\* The whole reply is written at once.
WriteReply(p) ==
  /\ CallsWrite(p)
  /\ client[p].result # <<>>
  /\ stream[p] = "open"
  /\ replies' = [replies EXCEPT ![p] = @ \o client[p].result]
  /\ Sent(p)
  /\ Disarm(p)
  /\ UNCHANGED <<fate, stream>>

\* A peer that has closed never sees its reply, and its kernel may answer with
\* a reset, which the next write would meet.
WriteUnread(p) ==
  /\ CallsWrite(p)
  /\ client[p].result # <<>>
  /\ stream[p] = "fin"
  /\ stream' \in {stream, [stream EXCEPT ![p] = "closed"]}
  /\ Sent(p)
  /\ Disarm(p)
  /\ UNCHANGED <<fate, replies>>

\* write reports the reset: the reply is dropped, the handler stays armed.
WriteError(p) ==
  /\ CallsWrite(p)
  /\ client[p].result # <<>>
  /\ stream[p] = "rst"
  /\ stream' = [stream EXCEPT ![p] = "closed"]
  /\ Sent(p)
  /\ UNCHANGED <<reactor, fate, replies>>

\* The reset was already reported: SIGPIPE, which nothing handles.
WriteBrokenPipe(p) ==
  /\ CallsWrite(p)
  /\ client[p].result # <<>>
  /\ stream[p] = "closed"
  /\ fate' = "sigpipe"
  /\ UNCHANGED <<reactor, client, stream, replies>>

NothingToWrite(p) ==
  /\ CallsWrite(p)
  /\ client[p].result = <<>>
  /\ Disarm(p)
  /\ UNCHANGED <<fate, client, stream, replies>>

-----------------------------------------------------------------------------
ReadQuery(e, p) ==
  \/ ReadCommand(e, p) \/ ReadOneWord(e, p) \/ ReadBulk(e, p)
  \/ ReadError(e, p) \/ ReadEof(e, p)

HandleRead(e) ==
  \/ NoRead(e) \/ AcceptFails(e) \/ Accept(e)
  \/ \E p \in Peers : ReadQuery(e, p)

HandleWrite ==
  \/ NoWrite \/ CallEmptyWrite
  \/ \E p \in Peers :
       \/ WriteReply(p) \/ WriteUnread(p) \/ WriteError(p)
       \/ WriteBrokenPipe(p) \/ NothingToWrite(p)

ServerNext ==
  Start \/ Poll \/ (\E e \in fired : HandleRead(e)) \/ CloseFd \/ Free \/ HandleWrite

PeerNext == \E p \in Peers : Connect(p) \/ Send(p) \/ Leave(p)

Next == ServerNext \/ PeerNext

Spec == Init /\ [][Next]_vars

\* The event loop keeps running; nobody has to connect, send or leave.
FairSpec == Spec /\ WF_vars(ServerNext)

-----------------------------------------------------------------------------
(* Safety, whatever the peers do *)

Word == Values \cup {Junk}

\* The variables have the types of the members they stand for.
TypeOK ==
  /\ reactor \in Reactors
  /\ fate \in {"running", "assert", "bad_function_call", "sigpipe", "hung"}
  /\ step \in {"start", "poll", "read", "close", "free", "write"}
  /\ fired \subseteq [fd : Descriptors, events : SUBSET Events]
  /\ current \in [fd : Descriptors, events : SUBSET Events] \cup {NoEvent}
  /\ store \in [Keys -> Word \cup {Missing}]
  /\ \A p \in Listed :
       /\ client[p].fd \in Fds
       /\ client[p].requestType \in {"initial", "inline", "bulk"}
       /\ client[p].result \in Seq(Word \cup {"ok"})
  /\ owner \in [Fds -> Peers \cup {Nobody}]
  /\ stream \in [Peers -> {"none", "open", "fin", "rst", "closed"}]
  /\ backlog \in Seq(Peers)
  /\ inbox \in [Peers -> Seq(Commands)]
  /\ sends \in [Peers -> 0 .. MaxSends]
  /\ replies \in [Peers -> Seq(Word \cup {"ok"})]

\* The descriptor is closed, and Free has not run.
Cleaning(fd) == step = "free" /\ fd = current.fd

\* The kernel, the poller and the IOService agree about what a descriptor is
\* watched for, although they are told one after the other and their errors are
\* ignored (io_service.hpp lines 108-148); only of a descriptor that was just
\* closed (client.hpp line 74) the kernel knows nothing where they name the same.
RegistrationsAgree ==
  \A fd \in Descriptors :
    /\ Watched(reactor, fd)
    /\ reactor.registered[fd] = IF Cleaning(fd) THEN {} ELSE reactor.polled[fd]

\* list_ holds one RedisClient for each open connection, under the
\* descriptor of that connection, and one more only between close and the end of
\* clientHandler.  By then nothing is left behind of the closed descriptor:
\* accept may give its number to another client at once.
ClientsMatchSockets ==
  /\ \A p \in Listed : owner[client[p].fd] = IF Cleaning(client[p].fd) THEN Nobody ELSE p
  /\ \A fd \in Fds :
       IF owner[fd] = Nobody THEN reactor.mask[fd] = {} \/ Cleaning(fd)
       ELSE owner[fd] \in Listed /\ client[owner[fd]].fd = fd

\* The write handler keeps a bare pointer to its RedisClient (client.hpp
\* lines 176 and 187): it is gone before the client is.
WriteHandlersAlive ==
  \A fd \in Fds, p \in Peers :
    reactor.writeHandler[fd] = p => p \in Listed /\ client[p].fd = fd

\* A reply that is not sent yet has a write handler that will send it, while
\* there is a connection to send it to.
ReplyArmed ==
  \A p \in Listed : client[p].result # <<>> =>
    /\ "Write" \in reactor.registered[client[p].fd] \/ Cleaning(client[p].fd)
    /\ reactor.writeHandler[client[p].fd] = p

\* The read handler of a fired descriptor is there, and clientHandler finds its
\* RedisClient (server.hpp line 77 asserts it), also after the handlers that ran
\* before it in the same batch.
ReadHandlerReady ==
  \A e \in fired : "Read" \in EventsToHandle(e) =>
    IF e.fd = ListenFd THEN reactor.readHandler[e.fd] = "accept"
    ELSE reactor.readHandler[e.fd] = "client" /\ ClientsOf(e.fd) # {}

\* The sockets are blocking, and there is one thread: a read handler is only
\* called when accept or read will return at once, whatever the handlers that
\* ran before it in the same batch have closed or accepted.
NoBlockingCall ==
  \A e \in fired : "Read" \in e.events => "Read" \in Ready(e.fd)

\* No command is answered twice, also when a write fails or two commands
\* share one write.
NoExtraAnswer ==
  \A p \in Peers :
    Len(replies[p]) + (IF p \in Listed THEN Len(client[p].result) ELSE 0)
      <= sends[p] - Len(inbox[p])

-----------------------------------------------------------------------------
(* With peers that wait for their answers *)

\* The server survives peers that send whole commands of two words or more,
\* one at a time, and leave only between commands.
StaysUp == fate = "running"

\* The command that p waits for the server to read, and what it has computed for
\* p and not written.
Requests == [p \in Peers |-> IF inbox[p] = <<>> THEN <<>> ELSE Head(inbox[p])]
Answers == [p \in Peers |-> IF p \in Listed THEN client[p].result ELSE <<>>]

\* The server is one atomic table that keeps the first value of each key; a
\* command takes effect when its bytes are read.
Table == INSTANCE KeyValueService WITH
  NoCommand <- <<>>, request <- Requests, answer <- Answers

ImplementsTable == Table!Spec

\* A set of a client that was accepted is answered.
SetAnswered ==
  \A p \in Peers :
    (p \in Listed /\ inbox[p] # <<>> /\ Head(inbox[p])[1] = "set")
      ~> Len(replies[p]) = sends[p]

-----------------------------------------------------------------------------
(* What the comments and assertions say, and the code does not do *)

\* io_service.hpp lines 281-282: the handler that is called is not empty.
\* (The read handler may have cleared it, and the mask was copied before.)
HandlerNotEmpty == fate # "bad_function_call"
=============================================================================
