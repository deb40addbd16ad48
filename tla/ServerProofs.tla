---------------------------- MODULE ServerProofs ----------------------------
(***************************************************************************)
(* The safety of Server for any number of peers, descriptors, commands and *)
(* keys, on a poller whose masks start clear: with a stale mask, epoll may *)
(* be told to modify a descriptor it was never told of.  For peers that    *)
(* wait for each answer, also that it stays up, and is an atomic table.    *)
(***************************************************************************)
EXTENDS Server, TLAPS

-----------------------------------------------------------------------------
(* The reactor's operations, field by field *)

\* What AddEventListener, when it succeeds, makes of r.
ListenerAddedTo(r, fd, event, handler, x) ==
  /\ x.registered = [r.registered EXCEPT ![fd] = r.polled[fd] \cup {event}]
  /\ x.polled = [r.polled EXCEPT ![fd] = r.polled[fd] \cup {event}]
  /\ x.mask = [r.mask EXCEPT ![fd] = r.mask[fd] \cup {event}]
  /\ x.readHandler = [r.readHandler EXCEPT
       ![fd] = IF event = "Read" THEN handler ELSE r.readHandler[fd]]
  /\ x.writeHandler = [r.writeHandler EXCEPT
       ![fd] = IF event = "Write" THEN handler ELSE r.writeHandler[fd]]

\* What DeleteEvent makes of r.
EventDeletedFrom(r, fd, event, x) ==
  LET kept == r.polled[fd] \ {event}
  IN  /\ x.registered = [r.registered EXCEPT
           ![fd] = IF r.registered[fd] = {} THEN {} ELSE kept]
      /\ x.polled = [r.polled EXCEPT ![fd] = kept]
      /\ x.mask = r.mask
      /\ x.readHandler = r.readHandler
      /\ x.writeHandler = r.writeHandler

\* What DeleteEventListener makes of r.
ListenerDeletedFrom(r, fd, event, x) ==
  LET left == r.mask[fd] \ {event}
  IN  /\ x.registered = [r.registered EXCEPT
           ![fd] = IF r.registered[fd] = {} THEN {} ELSE r.polled[fd] \ {event}]
      /\ x.polled = [r.polled EXCEPT ![fd] = r.polled[fd] \ {event}]
      /\ x.mask = [r.mask EXCEPT ![fd] = left]
      /\ x.readHandler = [r.readHandler EXCEPT
           ![fd] = IF left = {} THEN NoHandler ELSE r.readHandler[fd]]
      /\ x.writeHandler = [r.writeHandler EXCEPT
           ![fd] = IF left = {} THEN NoHandler ELSE r.writeHandler[fd]]

\* What Freed makes of r.
Forgotten(r, fd, x) ==
  /\ x.registered = [r.registered EXCEPT ![fd] = {}]
  /\ x.polled = [r.polled EXCEPT ![fd] = {}]
  /\ x.mask = [r.mask EXCEPT ![fd] = {}]
  /\ x.readHandler = [r.readHandler EXCEPT ![fd] = NoHandler]
  /\ x.writeHandler = [r.writeHandler EXCEPT ![fd] = NoHandler]

LEMMA UpdatedTwice ==
  ASSUME NEW S, NEW T, NEW f \in [S -> T], NEW i \in S, NEW a, NEW b
  PROVE  /\ [[f EXCEPT ![i] = a] EXCEPT ![i] = b] = [f EXCEPT ![i] = b]
         /\ [f EXCEPT ![i] = a][i] = a
OBVIOUS

LEMMA Fields ==
  ASSUME NEW r \in Reactors
  PROVE  /\ r.registered \in [Descriptors -> SUBSET Events]
         /\ r.polled \in [Descriptors -> SUBSET Events]
         /\ r.mask \in [Descriptors -> SUBSET Events]
         /\ r.readHandler \in [Descriptors -> Handlers \cup {NoHandler}]
         /\ r.writeHandler \in [Descriptors -> Handlers \cup {NoHandler}]
BY DEF Reactors

LEMMA AddEventListenerFields ==
  ASSUME NEW r \in Reactors, NEW fd \in Descriptors, NEW event \in Events,
         NEW handler \in Handlers, AddSucceeds(r, fd)
  PROVE  /\ AddEventListener(r, fd, event, handler) \in Reactors
         /\ ListenerAddedTo(r, fd, event, handler, AddEventListener(r, fd, event, handler))
<1> DEFINE x == AddEventListener(r, fd, event, handler)
<1>1. /\ x.registered = [r.registered EXCEPT ![fd] = r.polled[fd] \cup {event}]
      /\ x.polled = [r.polled EXCEPT ![fd] = r.polled[fd] \cup {event}]
      /\ x.mask = [r.mask EXCEPT ![fd] = r.mask[fd] \cup {event}]
      /\ x.readHandler = [r.readHandler EXCEPT
           ![fd] = IF event = "Read" THEN handler ELSE r.readHandler[fd]]
      /\ x.writeHandler = [r.writeHandler EXCEPT
           ![fd] = IF event = "Write" THEN handler ELSE r.writeHandler[fd]]
      /\ x = [registered |-> x.registered, polled |-> x.polled, mask |-> x.mask,
              readHandler |-> x.readHandler, writeHandler |-> x.writeHandler]
  BY DEF AddEventListener, MergedEvents, Reactors
<1> HIDE DEF x
<1>2. x \in Reactors
  <2>1. r.polled[fd] \cup {event} \in SUBSET Events
        /\ r.mask[fd] \cup {event} \in SUBSET Events
    BY Fields
  <2>2. /\ x.registered \in [Descriptors -> SUBSET Events]
        /\ x.polled \in [Descriptors -> SUBSET Events]
        /\ x.mask \in [Descriptors -> SUBSET Events]
    BY <1>1, <2>1, Fields
  <2>3. /\ x.readHandler \in [Descriptors -> Handlers \cup {NoHandler}]
        /\ x.writeHandler \in [Descriptors -> Handlers \cup {NoHandler}]
    BY <1>1, Fields
  <2>4. QED
    BY <1>1, <2>2, <2>3 DEF Reactors
<1>3. ListenerAddedTo(r, fd, event, handler, x)
  BY <1>1 DEF ListenerAddedTo
<1>4. QED
  BY <1>2, <1>3 DEF x

LEMMA DeleteEventFields ==
  ASSUME NEW r \in Reactors, NEW fd \in Descriptors, NEW event \in Events
  PROVE  /\ DeleteEvent(r, fd, event) \in Reactors
         /\ EventDeletedFrom(r, fd, event, DeleteEvent(r, fd, event))
<1> DEFINE kept == r.polled[fd] \ {event}
           watched == IF r.registered[fd] = {} THEN {} ELSE kept
           u == [r EXCEPT !.polled = [r.polled EXCEPT ![fd] = kept]]
           x == [u EXCEPT !.registered = [u.registered EXCEPT ![fd] = watched]]
<1>1. x = DeleteEvent(r, fd, event)
  BY DEF DeleteEvent
<1>2. kept \in SUBSET Events /\ watched \in SUBSET Events
  BY DEF Reactors
<1> HIDE DEF kept, watched
<1>3. /\ u \in Reactors
      /\ u.polled = [r.polled EXCEPT ![fd] = kept]
      /\ u.registered = r.registered /\ u.mask = r.mask
      /\ u.readHandler = r.readHandler /\ u.writeHandler = r.writeHandler
  BY <1>2 DEF Reactors
<1> HIDE DEF u
<1>4. /\ x \in Reactors
      /\ x.registered = [u.registered EXCEPT ![fd] = watched]
      /\ x.polled = u.polled /\ x.mask = u.mask
      /\ x.readHandler = u.readHandler /\ x.writeHandler = u.writeHandler
  BY <1>2, <1>3 DEF Reactors
<1> HIDE DEF x
<1>5. EventDeletedFrom(r, fd, event, x)
  BY <1>3, <1>4 DEF EventDeletedFrom, kept, watched
<1>6. QED
  BY <1>1, <1>4, <1>5

LEMMA DeleteEventListenerFields ==
  ASSUME NEW r \in Reactors, NEW fd \in Descriptors, NEW event \in Events
  PROVE  /\ DeleteEventListener(r, fd, event) \in Reactors
         /\ ListenerDeletedFrom(r, fd, event, DeleteEventListener(r, fd, event))
<1>1. PICK a \in Reactors : a = DeleteEvent(r, fd, event) /\ EventDeletedFrom(r, fd, event, a)
  BY DeleteEventFields
<1>2. PICK b \in Reactors : b = DeleteEvent(a, fd, event) /\ EventDeletedFrom(a, fd, event, b)
  <2>1. a \in Reactors
    BY <1>1
  <2>2. QED
    BY <2>1, DeleteEventFields
<1>3. /\ b.registered = [r.registered EXCEPT
           ![fd] = IF r.registered[fd] = {} THEN {} ELSE r.polled[fd] \ {event}]
      /\ b.polled = [r.polled EXCEPT ![fd] = r.polled[fd] \ {event}]
      /\ b.mask = r.mask
      /\ b.readHandler = r.readHandler /\ b.writeHandler = r.writeHandler
  <2> DEFINE kept == r.polled[fd] \ {event}
             watched == IF r.registered[fd] = {} THEN {} ELSE kept
  <2>1. /\ a.polled = [r.polled EXCEPT ![fd] = kept] /\ a.polled[fd] = kept
        /\ a.registered = [r.registered EXCEPT ![fd] = watched] /\ a.registered[fd] = watched
    BY <1>1, Fields DEF EventDeletedFrom
  <2>2. /\ kept \ {event} = kept
        /\ (IF watched = {} THEN {} ELSE kept) = watched
    OBVIOUS
  <2> HIDE DEF kept, watched
  <2>3. b.polled = [a.polled EXCEPT ![fd] = kept]
    BY <1>2, <2>1, <2>2 DEF EventDeletedFrom
  <2>4. b.registered = [a.registered EXCEPT ![fd] = watched]
    BY <1>2, <2>1, <2>2 DEF EventDeletedFrom
  <2>5. b.polled = [r.polled EXCEPT ![fd] = kept]
    BY <2>1, <2>3, UpdatedTwice, Fields
  <2>6. b.registered = [r.registered EXCEPT ![fd] = watched]
    BY <2>1, <2>4, UpdatedTwice, Fields
  <2>7. QED
    BY <1>1, <1>2, <2>5, <2>6 DEF EventDeletedFrom, kept, watched
<1> DEFINE left == r.mask[fd] \ {event}
           after(h) == IF left = {} THEN NoHandler ELSE h
           u == [b EXCEPT !.mask = [b.mask EXCEPT ![fd] = left]]
           v == [u EXCEPT !.readHandler =
                   [u.readHandler EXCEPT ![fd] = after(b.readHandler[fd])]]
           x == [v EXCEPT !.writeHandler =
                   [v.writeHandler EXCEPT ![fd] = after(b.writeHandler[fd])]]
<1>4. x = DeleteEventListener(r, fd, event)
  <2>1. b = DeleteEvent(DeleteEvent(r, fd, event), fd, event)
    BY <1>1, <1>2
  <2>2. b.mask[fd] \ {event} = left
    BY <1>3
  <2> HIDE DEF left
  <2>3. QED
    BY <2>1, <2>2 DEF DeleteEventListener, HandlerAfterDelete
<1>5. /\ left \in SUBSET Events
      /\ after(b.readHandler[fd]) \in Handlers \cup {NoHandler}
      /\ after(b.writeHandler[fd]) \in Handlers \cup {NoHandler}
  BY <1>3, Fields
<1> HIDE DEF left, after
<1>6. /\ u \in Reactors
      /\ u.mask = [b.mask EXCEPT ![fd] = left]
      /\ u.registered = b.registered /\ u.polled = b.polled
      /\ u.readHandler = b.readHandler /\ u.writeHandler = b.writeHandler
  BY <1>5 DEF Reactors
<1> HIDE DEF u
<1>7. /\ v \in Reactors
      /\ v.readHandler = [u.readHandler EXCEPT ![fd] = after(b.readHandler[fd])]
      /\ v.registered = u.registered /\ v.polled = u.polled
      /\ v.mask = u.mask /\ v.writeHandler = u.writeHandler
  BY <1>5, <1>6 DEF Reactors
<1> HIDE DEF v
<1>8. /\ x \in Reactors
      /\ x.writeHandler = [v.writeHandler EXCEPT ![fd] = after(b.writeHandler[fd])]
      /\ x.registered = v.registered /\ x.polled = v.polled
      /\ x.mask = v.mask /\ x.readHandler = v.readHandler
  BY <1>5, <1>7 DEF Reactors
<1> HIDE DEF x
<1>9. ListenerDeletedFrom(r, fd, event, x)
  BY <1>3, <1>6, <1>7, <1>8 DEF ListenerDeletedFrom, left, after
<1>10. QED
  BY <1>4, <1>8, <1>9

LEMMA FreedFields ==
  ASSUME NEW r \in Reactors, NEW fd \in Descriptors
  PROVE  /\ Freed(r, fd) \in Reactors
         /\ Forgotten(r, fd, Freed(r, fd))
<1>1. "Read" \in Events /\ "Write" \in Events
  BY DEF Events
<1>2. PICK y \in Reactors : /\ y = DeleteEventListener(r, fd, "Read")
                            /\ ListenerDeletedFrom(r, fd, "Read", y)
  BY <1>1, DeleteEventListenerFields
<1>3. PICK x \in Reactors : /\ x = DeleteEventListener(y, fd, "Write")
                            /\ ListenerDeletedFrom(y, fd, "Write", x)
  BY <1>1, <1>2, DeleteEventListenerFields
<1>4. x = Freed(r, fd)
  BY <1>2, <1>3 DEF Freed
<1>5. /\ (r.mask[fd] \ {"Read"}) \ {"Write"} = {}
      /\ (r.polled[fd] \ {"Read"}) \ {"Write"} = {}
  BY Fields DEF Events
<1>6. Forgotten(r, fd, x)
  <2> USE DEF ListenerDeletedFrom
  <2>1. y.polled = [r.polled EXCEPT ![fd] = r.polled[fd] \ {"Read"}]
        /\ y.mask = [r.mask EXCEPT ![fd] = r.mask[fd] \ {"Read"}]
    BY <1>2
  <2>2. y.polled[fd] \ {"Write"} = {} /\ y.mask[fd] \ {"Write"} = {}
    BY <1>5, <2>1, Fields
  <2>3. x.registered = [r.registered EXCEPT ![fd] = {}]
    <3>1. \E watched : y.registered = [r.registered EXCEPT ![fd] = watched]
      BY <1>2
    <3>2. x.registered = [y.registered EXCEPT ![fd] = {}]
      BY <1>3, <2>2
    <3>3. QED
      BY <3>1, <3>2, UpdatedTwice, Fields
  <2>4. x.polled = [r.polled EXCEPT ![fd] = {}]
    <3>1. x.polled = [y.polled EXCEPT ![fd] = {}]
      BY <1>3, <2>2
    <3>2. QED
      BY <2>1, <3>1, UpdatedTwice, Fields
  <2>5. x.mask = [r.mask EXCEPT ![fd] = {}]
    <3>1. x.mask = [y.mask EXCEPT ![fd] = {}]
      BY <1>3, <2>2
    <3>2. QED
      BY <2>1, <3>1, UpdatedTwice, Fields
  <2>6. x.readHandler = [r.readHandler EXCEPT ![fd] = NoHandler]
    <3>1. \E h : y.readHandler = [r.readHandler EXCEPT ![fd] = h]
      BY <1>2
    <3>2. x.readHandler = [y.readHandler EXCEPT ![fd] = NoHandler]
      BY <1>3, <2>2
    <3>3. QED
      BY <3>1, <3>2, UpdatedTwice, Fields
  <2>7. x.writeHandler = [r.writeHandler EXCEPT ![fd] = NoHandler]
    <3>1. \E h : y.writeHandler = [r.writeHandler EXCEPT ![fd] = h]
      BY <1>2
    <3>2. x.writeHandler = [y.writeHandler EXCEPT ![fd] = NoHandler]
      BY <1>3, <2>2
    <3>3. QED
      BY <3>1, <3>2, UpdatedTwice, Fields
  <2>8. QED
    BY <2>3, <2>4, <2>5, <2>6, <2>7 DEF Forgotten
<1>7. QED
  BY <1>4, <1>6

-----------------------------------------------------------------------------
(* A reactor whose records agree *)

Agrees(r, fd) == r.registered[fd] = r.polled[fd] /\ Watched(r, fd)

Sound(r) == r \in Reactors /\ \A fd \in Descriptors : Agrees(r, fd)

\* The same at one descriptor.
SameAt(x, r, d) ==
  /\ x.registered[d] = r.registered[d] /\ x.polled[d] = r.polled[d]
  /\ x.mask[d] = r.mask[d]
  /\ x.readHandler[d] = r.readHandler[d] /\ x.writeHandler[d] = r.writeHandler[d]

LEMMA SameAgrees ==
  ASSUME NEW x, NEW r, NEW d, SameAt(x, r, d), Agrees(r, d)
  PROVE  Agrees(x, d)
BY DEF SameAt, Agrees, Watched

LEMMA AddedAt ==
  ASSUME NEW r \in Reactors, NEW fd \in Descriptors, NEW event, NEW handler, NEW x,
         ListenerAddedTo(r, fd, event, handler, x)
  PROVE  /\ x.registered[fd] = r.polled[fd] \cup {event}
         /\ x.polled[fd] = r.polled[fd] \cup {event}
         /\ x.mask[fd] = r.mask[fd] \cup {event}
         /\ event = "Read" => x.readHandler[fd] = handler
         /\ event # "Read" => x.readHandler[fd] = r.readHandler[fd]
         /\ event = "Write" => x.writeHandler[fd] = handler
         /\ event # "Write" => x.writeHandler[fd] = r.writeHandler[fd]
         /\ \A d \in Descriptors : d # fd => SameAt(x, r, d)
<1>1. \A d \in Descriptors : d # fd => SameAt(x, r, d)
  BY Fields DEF ListenerAddedTo, SameAt
<1>2. QED
  BY <1>1, Fields DEF ListenerAddedTo

LEMMA DeletedAt ==
  ASSUME NEW r \in Reactors, NEW fd \in Descriptors, NEW event, NEW x,
         ListenerDeletedFrom(r, fd, event, x)
  PROVE  /\ r.registered[fd] = {} => x.registered[fd] = {}
         /\ r.registered[fd] # {} => x.registered[fd] = r.polled[fd] \ {event}
         /\ x.polled[fd] = r.polled[fd] \ {event}
         /\ x.mask[fd] = r.mask[fd] \ {event}
         /\ x.mask[fd] = {} => x.readHandler[fd] = NoHandler /\ x.writeHandler[fd] = NoHandler
         /\ x.mask[fd] # {} => /\ x.readHandler[fd] = r.readHandler[fd]
                               /\ x.writeHandler[fd] = r.writeHandler[fd]
         /\ \A d \in Descriptors : d # fd => SameAt(x, r, d)
<1>1. \A d \in Descriptors : d # fd => SameAt(x, r, d)
  BY Fields DEF ListenerDeletedFrom, SameAt
<1>2. QED
  BY <1>1, Fields DEF ListenerDeletedFrom

LEMMA ForgottenAt ==
  ASSUME NEW r \in Reactors, NEW fd \in Descriptors, NEW x, Forgotten(r, fd, x)
  PROVE  /\ x.registered[fd] = {} /\ x.polled[fd] = {} /\ x.mask[fd] = {}
         /\ x.readHandler[fd] = NoHandler /\ x.writeHandler[fd] = NoHandler
         /\ \A d \in Descriptors : d # fd => SameAt(x, r, d)
<1>1. \A d \in Descriptors : d # fd => SameAt(x, r, d)
  BY Fields DEF Forgotten, SameAt
<1>2. QED
  BY <1>1, Fields DEF Forgotten

\* Where the records agree, the poller asks epoll for what epoll expects.
LEMMA AddIsSound ==
  ASSUME NEW r, Sound(r), NEW fd \in Descriptors, NEW event \in Events,
         NEW handler \in Handlers
  PROVE  /\ AddSucceeds(r, fd)
         /\ Sound(AddEventListener(r, fd, event, handler))
         /\ ListenerAddedTo(r, fd, event, handler, AddEventListener(r, fd, event, handler))
<1>1. r \in Reactors /\ \A d \in Descriptors : Agrees(r, d)
  BY DEF Sound
<1>2. AddSucceeds(r, fd)
  BY <1>1 DEF AddSucceeds, Agrees, Watched
<1>3. PICK x \in Reactors : /\ x = AddEventListener(r, fd, event, handler)
                            /\ ListenerAddedTo(r, fd, event, handler, x)
  BY <1>1, <1>2, AddEventListenerFields
<1>4. ASSUME NEW d \in Descriptors
      PROVE  Agrees(x, d)
  <2>1. Agrees(r, fd) /\ handler # NoHandler /\ (event = "Read" \/ event = "Write")
    BY <1>1, NoHandlerAssumption DEF Events
  <2>2. /\ x.registered[fd] = r.polled[fd] \cup {event}
        /\ x.polled[fd] = r.polled[fd] \cup {event}
        /\ x.mask[fd] = r.mask[fd] \cup {event}
        /\ event = "Read" => x.readHandler[fd] = handler
        /\ event # "Read" => x.readHandler[fd] = r.readHandler[fd]
        /\ event = "Write" => x.writeHandler[fd] = handler
        /\ event # "Write" => x.writeHandler[fd] = r.writeHandler[fd]
        /\ d # fd => SameAt(x, r, d)
    BY <1>1, <1>3, AddedAt
  <2>3. Agrees(x, fd)
    BY <2>1, <2>2 DEF Agrees, Watched
  <2>4. QED
    BY <1>1, <2>2, <2>3, SameAgrees
<1>5. QED
  BY <1>2, <1>3, <1>4 DEF Sound

LEMMA DeleteIsSound ==
  ASSUME NEW r, Sound(r), NEW fd \in Descriptors, NEW event \in Events
  PROVE  /\ Sound(DeleteEventListener(r, fd, event))
         /\ ListenerDeletedFrom(r, fd, event, DeleteEventListener(r, fd, event))
<1>1. r \in Reactors /\ \A d \in Descriptors : Agrees(r, d)
  BY DEF Sound
<1>2. PICK x \in Reactors : /\ x = DeleteEventListener(r, fd, event)
                            /\ ListenerDeletedFrom(r, fd, event, x)
  BY <1>1, DeleteEventListenerFields
<1>3. ASSUME NEW d \in Descriptors
      PROVE  Agrees(x, d)
  <2>1. Agrees(r, fd)
    BY <1>1
  <2>2. /\ r.registered[fd] = {} => x.registered[fd] = {}
        /\ r.registered[fd] # {} => x.registered[fd] = r.polled[fd] \ {event}
        /\ x.polled[fd] = r.polled[fd] \ {event}
        /\ x.mask[fd] = r.mask[fd] \ {event}
        /\ x.mask[fd] # {} => /\ x.readHandler[fd] = r.readHandler[fd]
                              /\ x.writeHandler[fd] = r.writeHandler[fd]
        /\ d # fd => SameAt(x, r, d)
    BY <1>1, <1>2, DeletedAt
  <2>3. Agrees(x, fd)
    BY <2>1, <2>2 DEF Agrees, Watched
  <2>4. QED
    BY <1>1, <2>2, <2>3, SameAgrees
<1>4. QED
  BY <1>2, <1>3 DEF Sound

\* close, which nobody is told of, is made up for by Free.
LEMMA FreedIsSound ==
  ASSUME NEW r \in Reactors, NEW fd \in Descriptors,
         \A d \in Descriptors : d # fd => Agrees(r, d)
  PROVE  Sound(Freed(r, fd)) /\ Forgotten(r, fd, Freed(r, fd))
<1>1. PICK x \in Reactors : x = Freed(r, fd) /\ Forgotten(r, fd, x)
  BY FreedFields
<1>2. ASSUME NEW d \in Descriptors
      PROVE  Agrees(x, d)
  <2>1. /\ x.registered[fd] = {} /\ x.polled[fd] = {} /\ x.mask[fd] = {}
        /\ d # fd => SameAt(x, r, d)
    BY <1>1, ForgottenAt
  <2>2. Agrees(x, fd)
    BY <2>1 DEF Agrees, Watched
  <2>3. QED
    BY <2>1, <2>2, SameAgrees
<1>3. QED
  BY <1>1, <1>2 DEF Sound

-----------------------------------------------------------------------------
(* The inductive invariant *)

(* The invariant is TidyInv in every state but one: between close and Free the *)
(* kernel, list_ and the others disagree about one descriptor.  LeftOf says    *)
(* what is left of its client, RestOf that everyone else is as in TidyInv.     *)

Event == [fd : Descriptors, events : SUBSET Events]

CurrentShape == step \in {"write", "close", "free"} => current \in Event

ShapeInv ==
  /\ owner \in [Fds -> Peers \cup {Nobody}]
  /\ stream = [p \in Peers |-> stream[p]]
  /\ inbox = [p \in Peers |-> inbox[p]]
  /\ client = [p \in Peers |-> client[p]]
  /\ backlog \in Seq(Peers)
  /\ fired \subseteq Event
  /\ CurrentShape

\* list_ and the open descriptors name each other.
ListInv ==
  /\ \A p \in Peers : client[p] = [fd |-> client[p].fd, requestType |-> client[p].requestType,
                                   result |-> client[p].result]
  /\ \A p \in Listed : /\ client[p].fd \in Fds
                       /\ owner[client[p].fd] = p
                       /\ stream[p] # "none"
  /\ \A fd \in Fds : owner[fd] # Nobody =>
       owner[fd] \in Listed /\ client[owner[fd]].fd = fd

\* What a descriptor is watched for, and who handles it, follows its owner.
OwnerHandles(fd) ==
  /\ owner[fd] = Nobody => reactor.mask[fd] = {}
  /\ owner[fd] # Nobody => "Read" \in reactor.mask[fd]
  /\ reactor.readHandler[fd] \in {"client", NoHandler}
  /\ reactor.writeHandler[fd] # NoHandler =>
       owner[fd] # Nobody /\ reactor.writeHandler[fd] = owner[fd]

ListenerInv ==
  /\ reactor.readHandler[ListenFd] \in {"accept", NoHandler}
  /\ reactor.writeHandler[ListenFd] = NoHandler

HandlersInv == (\A fd \in Fds : OwnerHandles(fd)) /\ ListenerInv

\* A connection waits in the backlog once, before it has a client.
BacklogInv ==
  /\ \A i \in 1 .. Len(backlog) :
       client[backlog[i]] = NoClient /\ stream[backlog[i]] # "none"
  /\ \A i, j \in 1 .. Len(backlog) : backlog[i] = backlog[j] => i = j

ReadReady(fd) ==
  IF fd = ListenFd THEN backlog # <<>>
  ELSE /\ owner[fd] # Nobody
       /\ inbox[owner[fd]] # <<>> \/ stream[owner[fd]] # "open"

\* What epoll reported still holds when its turn comes.
FiredInv ==
  /\ \A e, f \in fired : e.fd = f.fd => e = f
  /\ \A e \in fired : e.fd # ListenFd => owner[e.fd] # Nobody
  /\ \A e \in fired : "Read" \in e.events => ReadReady(e.fd)

ReplyReady(p) ==
  \/ client[p].result = <<>>
  \/ /\ "Write" \in reactor.mask[client[p].fd]
     /\ reactor.writeHandler[client[p].fd] = p

ReplyInv == \A p \in Listed : ReplyReady(p)

\* Between two ends of files: what every step but close and Free preserves.
TidyInv ==
  /\ Sound(reactor)
  /\ ShapeInv
  /\ ListInv
  /\ HandlersInv
  /\ BacklogInv
  /\ FiredInv
  /\ ReplyInv

\* The part of it that the peers' steps bear on.
NetworkInv ==
  /\ ShapeInv
  /\ BacklogInv
  /\ FiredInv
  /\ \A p \in Listed : stream[p] # "none"
  /\ \A fd \in Fds : owner[fd] # Nobody => owner[fd] \in Listed

\* The client whose end of file was read is still there, and nothing of its
\* descriptor is left in the batch.
LeavingInv ==
  step \in {"close", "free"} =>
    \E p \in Listed : /\ client[p].fd = current.fd
                      /\ stream[p] \in {"fin", "closed"}
                      /\ \A e \in fired : e.fd # current.fd

\* p's descriptor is closed; Free has p, the poller and the IOService to tidy.
LeftOf(p) ==
  /\ p \in Listed /\ client[p].fd = current.fd
  /\ current.fd \in Fds /\ owner[current.fd] = Nobody
  /\ reactor.registered[current.fd] = {} /\ Watched(reactor, current.fd)
  /\ reactor.writeHandler[current.fd] \in {p, NoHandler}
  /\ client[p].result # <<>> => reactor.writeHandler[current.fd] = p

\* Everyone else is tidy.
RestOf(p) ==
  /\ reactor \in Reactors
  /\ \A d \in Descriptors : d # current.fd => Agrees(reactor, d)
  /\ \A q \in Peers : client[q] = [fd |-> client[q].fd, requestType |-> client[q].requestType,
                                   result |-> client[q].result]
  /\ \A q \in Listed : q # p => /\ client[q].fd \in Fds /\ owner[client[q].fd] = q
                                 /\ ReplyReady(q)
  /\ \A fd \in Fds : owner[fd] # Nobody =>
       owner[fd] # p /\ owner[fd] \in Listed /\ client[owner[fd]].fd = fd
  /\ \A fd \in Fds : fd # current.fd => OwnerHandles(fd)
  /\ ListenerInv

IInv ==
  /\ LeavingInv
  /\ step # "free" => TidyInv
  /\ step = "free" => NetworkInv /\ \E p \in Peers : LeftOf(p) /\ RestOf(p)

LEMMA TidyNetwork ==
  ASSUME TidyInv
  PROVE  NetworkInv
BY DEF TidyInv, NetworkInv, ListInv

LEMMA TidyKept ==
  ASSUME TidyInv, NetworkInv', UNCHANGED <<reactor, client, owner>>
  PROVE  TidyInv'
<1>1. Listed' = Listed
  BY DEF Listed
<1>2. ListInv'
  BY <1>1 DEF TidyInv, NetworkInv, ListInv
<1>3. Sound(reactor)' /\ HandlersInv' /\ ReplyInv'
  BY <1>1 DEF TidyInv, Sound, HandlersInv, OwnerHandles, ListenerInv, ReplyInv, ReplyReady
<1>4. QED
  BY <1>2, <1>3 DEF TidyInv, NetworkInv

\* What holds at every step.
LEMMA AlwaysHolds ==
  ASSUME IInv
  PROVE  /\ NetworkInv /\ client = [p \in Peers |-> client[p]]
         /\ \A p \in Peers : client[p] = [fd |-> client[p].fd,
                                          requestType |-> client[p].requestType,
                                          result |-> client[p].result]
<1>1. CASE step = "free"
  BY <1>1 DEF IInv, RestOf, NetworkInv, ShapeInv
<1>2. CASE step # "free"
  BY <1>2, TidyNetwork DEF IInv, TidyInv, ListInv, ShapeInv
<1>3. QED
  BY <1>1, <1>2

LEMMA ReadyToRead ==
  ASSUME NEW fd
  PROVE  "Read" \in Ready(fd) <=> ReadReady(fd)
BY DEF Ready, ReadReady, Events

LEMMA Names ==
  /\ ListenFd \in Descriptors /\ ListenFd \notin Fds /\ Fds \subseteq Descriptors
  /\ "Read" \in Events /\ "Write" \in Events
  /\ "accept" \in Handlers /\ "client" \in Handlers /\ Peers \subseteq Handlers
  /\ NoHandler \notin Peers \cup {"accept", "client"} /\ "accept" # "client"
BY HandlersAssumption, DescriptorsAssumption, NoHandlerAssumption DEF Fds, Events

LEMMA AClient ==
  ASSUME NEW c, c = [fd |-> c.fd, requestType |-> c.requestType, result |-> c.result],
         c.fd \in Fds
  PROVE  c # NoClient
BY DescriptorsAssumption DEF Fds, NoClient, NewClient

-----------------------------------------------------------------------------
(* The peers' steps preserve it *)

LEMMA ConnectPreserves ==
  ASSUME NetworkInv, NEW p \in Peers, Connect(p)
  PROVE  NetworkInv'
<1> USE DEF NetworkInv
<1>1. backlog \in Seq(Peers) /\ backlog' = Append(backlog, p) /\ stream[p] = "none"
      /\ stream' = [stream EXCEPT ![p] = "open"]
  BY DEF Connect, ShapeInv
<1>2. /\ Len(backlog') = Len(backlog) + 1 /\ Len(backlog) \in Nat
      /\ \A i \in 1 .. Len(backlog) : backlog'[i] = backlog[i]
      /\ backlog'[Len(backlog) + 1] = p /\ backlog' # <<>> /\ backlog' \in Seq(Peers)
  BY <1>1
<1>3. UNCHANGED <<fired, current, step, client, owner, inbox>>
  BY DEF Connect
<1>4. \A q \in Peers : (stream[q] # "none" => stream'[q] # "none")
                    /\ (stream[q] # "open" /\ q # p => stream'[q] # "open")
  BY <1>1 DEF ShapeInv
<1>5. p \notin Listed /\ Listed' = Listed
  BY <1>1, <1>3 DEF Listed
<1>6. ShapeInv'
  BY <1>1, <1>2, <1>3 DEF ShapeInv, CurrentShape
<1>7. /\ \A q \in Listed' : stream'[q] # "none"
      /\ \A fd \in Fds : owner'[fd] # Nobody => owner'[fd] \in Listed'
  BY <1>3, <1>4, <1>5 DEF Listed
<1>8. BacklogInv'
  <2>1. \A i \in 1 .. Len(backlog) : backlog[i] # p
    BY <1>1 DEF BacklogInv
  <2>2. client'[p] = NoClient /\ stream'[p] # "none"
    BY <1>1, <1>3, <1>5 DEF Listed, ShapeInv
  <2>3. \A i \in 1 .. Len(backlog) : backlog[i] \in Peers
    BY <1>1
  <2>4. QED
    BY <1>2, <1>3, <1>4, <2>1, <2>2, <2>3 DEF BacklogInv
<1>9. FiredInv'
  <2>1. \A e \in fired : e.fd \in Descriptors
    BY DEF ShapeInv, Event
  <2>2. ASSUME NEW fd \in Descriptors, ReadReady(fd)
        PROVE  ReadReady(fd)'
    <3>1. CASE fd = ListenFd
      BY <1>2, <3>1 DEF ReadReady
    <3>2. CASE fd # ListenFd
      <4>1. fd \in Fds /\ owner[fd] # Nobody /\ owner[fd] \in Listed
        BY <2>2, <3>2 DEF ReadReady, Fds
      <4>2. owner[fd] # p /\ owner[fd] \in Peers
        BY <1>5, <4>1 DEF Listed
      <4>3. QED
        BY <1>3, <1>4, <2>2, <3>2, <4>2 DEF ReadReady
    <3>3. QED
      BY <3>1, <3>2
  <2>3. QED
    BY <1>3, <2>1, <2>2 DEF FiredInv
<1>10. QED
  BY <1>6, <1>7, <1>8, <1>9

\* Steps that leave the server's own variables alone, and take nothing away
\* that was ready to be read.
Harmless ==
  /\ UNCHANGED <<client, owner, backlog>>
  /\ stream' = [p \in Peers |-> stream'[p]] /\ inbox' = [p \in Peers |-> inbox'[p]]
  /\ \A p \in Peers : /\ stream[p] # "none" => stream'[p] # "none"
                      /\ stream[p] # "open" => stream'[p] # "open"
                      /\ inbox[p] # <<>> => inbox'[p] # <<>>

LEMMA HarmlessPreserves ==
  ASSUME NetworkInv, Harmless, fired' \subseteq fired, CurrentShape'
  PROVE  NetworkInv'
<1> USE DEF NetworkInv, Harmless
<1>1. Listed' = Listed
  BY DEF Listed
<1>2. ShapeInv'
  BY DEF ShapeInv
<1>3. /\ \A p \in Listed' : stream'[p] # "none"
      /\ \A fd \in Fds : owner'[fd] # Nobody => owner'[fd] \in Listed'
  BY <1>1 DEF Listed
<1>4. BacklogInv'
  <2>1. \A i \in 1 .. Len(backlog) : backlog[i] \in Peers
    BY DEF ShapeInv
  <2>2. QED
    BY <2>1 DEF BacklogInv
<1>5. FiredInv'
  <2>1. \A fd \in Fds : owner[fd] \in Peers \cup {Nobody}
    BY DEF ShapeInv
  <2>2. \A e \in fired : e.fd \in Descriptors
    BY DEF ShapeInv, Event
  <2>3. \A fd \in Descriptors : ReadReady(fd) => ReadReady(fd)'
    BY <2>1 DEF ReadReady, Fds
  <2>4. QED
    BY <2>2, <2>3 DEF FiredInv
<1>6. QED
  BY <1>2, <1>3, <1>4, <1>5

LEMMA SendPreserves ==
  ASSUME NetworkInv, NEW p \in Peers, Send(p)
  PROVE  NetworkInv'
<1>1. inbox = [q \in Peers |-> inbox[q]] /\ stream = [q \in Peers |-> stream[q]]
  BY DEF NetworkInv, ShapeInv
<1>2. PICK c : inbox' = [inbox EXCEPT ![p] = Append(@, c)]
  BY DEF Send
<1>3. Append(inbox[p], c) # <<>>
  OBVIOUS
<1>4. Harmless
  BY <1>1, <1>2, <1>3 DEF Send, Harmless
<1>5. QED
  BY <1>4, HarmlessPreserves DEF Send, NetworkInv, ShapeInv, CurrentShape

LEMMA LeavePreserves ==
  ASSUME NetworkInv, NEW p \in Peers, Leave(p)
  PROVE  NetworkInv'
<1>1. inbox = [q \in Peers |-> inbox[q]] /\ stream = [q \in Peers |-> stream[q]]
  BY DEF NetworkInv, ShapeInv
<1>2. PICK how \in Leaving : stream' = [stream EXCEPT ![p] = how]
  BY DEF Leave
<1>3. how \notin {"none", "open"}
  BY LeavingAssumption
<1>4. Harmless
  BY <1>1, <1>2, <1>3 DEF Leave, Harmless
<1>5. QED
  BY <1>4, HarmlessPreserves DEF Leave, NetworkInv, ShapeInv, CurrentShape

\* Nothing of the server's own changes, and a peer that has left has left.
LEMMA PeersPreserve ==
  ASSUME IInv, PeerNext
  PROVE  IInv'
<1>1. NetworkInv'
  BY AlwaysHolds, ConnectPreserves, SendPreserves, LeavePreserves DEF PeerNext
<1>2. UNCHANGED <<reactor, step, fired, current, client, owner>>
  BY DEF PeerNext, Connect, Send, Leave
<1>3. Listed' = Listed
  BY <1>2 DEF Listed
<1>4. LeavingInv'
  <2>1. \A p \in Peers : stream[p] \in {"fin", "closed"} => stream'[p] = stream[p]
    BY AlwaysHolds DEF PeerNext, Connect, Send, Leave, NetworkInv, ShapeInv
  <2>2. QED
    BY <1>2, <1>3, <2>1 DEF IInv, LeavingInv, Listed
<1>5. CASE step = "free"
  <2>1. PICK p \in Peers : LeftOf(p) /\ RestOf(p)
    BY <1>5 DEF IInv
  <2>2. LeftOf(p)'
    BY <1>2, <1>3, <2>1 DEF LeftOf, Watched
  <2>3. RestOf(p)'
    BY <1>2, <1>3, <2>1 DEF RestOf, Agrees, Watched, ReplyReady, OwnerHandles, ListenerInv
  <2>4. QED
    BY <1>1, <1>2, <1>4, <1>5, <2>2, <2>3 DEF IInv
<1>6. CASE step # "free"
  <2>1. TidyInv'
    BY <1>1, <1>2, <1>6, TidyKept DEF IInv
  <2>2. QED
    BY <1>2, <1>4, <1>6, <2>1 DEF IInv
<1>7. QED
  BY <1>5, <1>6

-----------------------------------------------------------------------------
(* The server's steps preserve it *)

LEMMA StartPreserves ==
  ASSUME TidyInv, Start
  PROVE  TidyInv'
<1> USE DEF TidyInv
<1>1. /\ reactor' = AddEventListener(reactor, ListenFd, "Read", "accept")
      /\ UNCHANGED <<fired, client, owner, stream, backlog, inbox>> /\ step' = "poll"
  BY DEF Start, peerVars
<1>2. reactor \in Reactors /\ Listed' = Listed
  BY <1>1 DEF Sound, Listed
<1>3. /\ Sound(reactor')
      /\ ListenerAddedTo(reactor, ListenFd, "Read", "accept", reactor')
  BY <1>1, AddIsSound, Names
<1>4. /\ reactor'.readHandler[ListenFd] = "accept"
      /\ reactor'.writeHandler[ListenFd] = reactor.writeHandler[ListenFd]
      /\ \A d \in Descriptors : d # ListenFd => SameAt(reactor', reactor, d)
  BY <1>2, <1>3, AddedAt, Names
<1>5. \A d \in Fds : SameAt(reactor', reactor, d)
  BY <1>4 DEF Fds
<1>6. HandlersInv'
  BY <1>1, <1>4, <1>5 DEF HandlersInv, OwnerHandles, ListenerInv, SameAt
<1>7. ReplyInv'
  BY <1>1, <1>2, <1>5 DEF ReplyInv, ReplyReady, ListInv, SameAt
<1>8. ShapeInv' /\ BacklogInv'
  BY <1>1 DEF ShapeInv, CurrentShape, BacklogInv
<1>9. ListInv'
  BY <1>1, <1>2 DEF ListInv
<1>10. FiredInv'
  BY <1>1 DEF FiredInv, ReadReady
<1>11. QED
  BY <1>3, <1>6, <1>7, <1>8, <1>9, <1>10 DEF Sound

LEMMA PollPreserves ==
  ASSUME TidyInv, Poll
  PROVE  TidyInv'
<1> USE DEF TidyInv
<1>1. /\ fired' = {[fd |-> fd, events |-> Fired(fd)] : fd \in {d \in Descriptors : Fired(d) # {}}}
      /\ UNCHANGED <<reactor, client, owner, stream, backlog, inbox>> /\ step' = "read"
  BY DEF Poll, peerVars
<1>2. \A fd \in Descriptors : Fired(fd) \in SUBSET Events
  BY DEF Fired, FiredEvents, Sound, Reactors
<1>3. \A e \in fired' : e \in Event /\ e.events = Fired(e.fd) /\ e.events # {}
  BY <1>1, <1>2 DEF Event
<1>4. \A e, f \in fired' : e.fd = f.fd => e = f
  BY <1>1
<1>5. \A e \in fired' : e.events \subseteq Ready(e.fd) /\ Ready(e.fd) # {}
  BY <1>3 DEF Fired, FiredEvents
<1>6. \A e \in fired' : e.fd # ListenFd => owner[e.fd] # Nobody
  BY <1>5 DEF Ready
<1>7. \A e \in fired' : "Read" \in e.events => ReadReady(e.fd)
  BY <1>5, ReadyToRead
<1>8. FiredInv'
  <2>1. \A fd : ReadReady(fd)' <=> ReadReady(fd)
    BY <1>1 DEF ReadReady
  <2>2. QED
    BY <1>1, <1>4, <1>6, <1>7, <2>1 DEF FiredInv
<1>9. Listed' = Listed
  BY <1>1 DEF Listed
<1>10. Sound(reactor)' /\ HandlersInv' /\ ReplyInv'
  BY <1>1, <1>9 DEF Sound, HandlersInv, OwnerHandles, ListenerInv, ReplyInv, ReplyReady
<1>11. ListInv' /\ BacklogInv'
  BY <1>1, <1>9 DEF ListInv, BacklogInv
<1>12. ShapeInv'
  BY <1>1, <1>3 DEF ShapeInv, CurrentShape
<1>13. QED
  BY <1>8, <1>10, <1>11, <1>12

\* What is known of the event that is handled, when its read handler is called.
LEMMA Dispatched ==
  ASSUME TidyInv, NEW e, Dispatch(e)
  PROVE  /\ e \in fired /\ fired' = fired \ {e} /\ e \in Event
         /\ \A f \in fired' : f.fd # e.fd
         /\ CurrentShape'
<1>1. /\ e \in fired /\ fired' = fired \ {e}
      /\ current' = [fd |-> e.fd, events |-> EventsToHandle(e)]
  BY DEF Dispatch
<1>2. e \in Event
  BY <1>1 DEF TidyInv, ShapeInv
<1>3. EventsToHandle(e) \in SUBSET Events /\ e.fd \in Descriptors
  BY <1>2 DEF EventsToHandle, Event
<1>4. current' \in Event
  BY <1>1, <1>3 DEF Event
<1>5. QED
  BY <1>1, <1>2, <1>4 DEF TidyInv, FiredInv, CurrentShape

LEMMA WriteStepShape ==
  ASSUME TidyInv, WriteStep
  PROVE  /\ fired' = fired /\ CurrentShape'
         /\ UNCHANGED <<owner, backlog, inbox>>
         /\ current \in Event
BY DEF TidyInv, ShapeInv, CurrentShape, WriteStep, NextDescriptor

\* A step that changes nothing but the event being handled.
LEMMA IdlePreserves ==
  ASSUME TidyInv, UNCHANGED <<reactor, client, owner, stream, backlog, inbox>>,
         fired' \subseteq fired, CurrentShape'
  PROVE  TidyInv'
<1>1. stream = [p \in Peers |-> stream[p]] /\ inbox = [p \in Peers |-> inbox[p]]
  BY DEF TidyInv, ShapeInv
<1>2. Harmless
  BY <1>1 DEF Harmless
<1>3. QED
  BY <1>2, TidyNetwork, HarmlessPreserves, TidyKept

\* The client of a descriptor that is being read or written, and the owner of
\* that descriptor, are the same.
LEMMA ReaderIsOwner ==
  ASSUME TidyInv, NEW p \in Listed, NEW d \in Fds, owner[d] = p
  PROVE  client[p].fd = d
BY PeersAssumption DEF TidyInv, ListInv, Listed

\* A step of client p, which has descriptor d: what other clients and
\* descriptors see is unchanged, and what p is left with is consistent.
ClientStep(p, d) ==
  /\ UNCHANGED <<owner, backlog>>
  /\ Sound(reactor)'
  /\ \A f \in Descriptors : f # d => SameAt(reactor', reactor, f)
  /\ "Read" \in reactor'.mask[d]
  /\ reactor'.readHandler[d] \in {"client", NoHandler}
  /\ reactor'.writeHandler[d] \in {p, NoHandler}
  /\ \E type, result :
       /\ client' = [client EXCEPT ![p] = [fd |-> d, requestType |-> type, result |-> result]]
       /\ result # <<>> => "Write" \in reactor'.mask[d] /\ reactor'.writeHandler[d] = p
  /\ stream' = [q \in Peers |-> stream'[q]] /\ inbox' = [q \in Peers |-> inbox'[q]]
  /\ \A q \in Peers : q # p => stream'[q] = stream[q] /\ inbox'[q] = inbox[q]
  /\ stream'[p] # "none"
  /\ fired' \subseteq fired
  /\ \/ \A e \in fired' : e.fd # d
     \/ inbox'[p] = inbox[p] /\ (stream[p] # "open" => stream'[p] # "open")
  /\ CurrentShape'

LEMMA ClientStepPreserves ==
  ASSUME TidyInv, NEW p \in Listed, NEW d \in Fds, client[p].fd = d, ClientStep(p, d)
  PROVE  TidyInv'
<1> USE DEF TidyInv
<1>1. PICK type, result :
        /\ client' = [client EXCEPT ![p] = [fd |-> d, requestType |-> type, result |-> result]]
        /\ result # <<>> => "Write" \in reactor'.mask[d] /\ reactor'.writeHandler[d] = p
  BY DEF ClientStep
<1>2. /\ p \in Peers /\ owner[d] = p /\ p # Nobody /\ d \in Descriptors
      /\ client = [q \in Peers |-> client[q]]
  BY PeersAssumption DEF Listed, ListInv, ShapeInv, Fds
<1>3. /\ client'[p] = [fd |-> d, requestType |-> type, result |-> result]
      /\ \A q \in Peers : q # p => client'[q] = client[q]
      /\ client' = [q \in Peers |-> client'[q]]
  BY <1>1, <1>2
<1>4. /\ client'[p].fd = d /\ client'[p].result = result /\ client'[p].requestType = type
      /\ client'[p] # NoClient
  BY <1>3, AClient
<1>5. Listed' = Listed
  BY <1>2, <1>3, <1>4 DEF Listed
<1>6. /\ \A f \in Fds : f # d => SameAt(reactor', reactor, f)
      /\ SameAt(reactor', reactor, ListenFd)
      /\ UNCHANGED <<owner, backlog>> /\ fired' \subseteq fired
  BY Names DEF ClientStep, Fds
<1>7. ShapeInv'
  BY <1>3, <1>6 DEF ShapeInv, ClientStep
<1>8. ListInv'
  <2>1. \A q \in Listed : q # p => stream'[q] = stream[q]
    BY DEF ClientStep, Listed
  <2>2. \A q \in Listed' : client'[q].fd \in Fds /\ owner'[client'[q].fd] = q /\ stream'[q] # "none"
    BY <1>2, <1>3, <1>4, <1>5, <1>6, <2>1 DEF ListInv, Listed, ClientStep
  <2>3. \A f \in Fds : owner'[f] # Nobody => owner'[f] \in Listed' /\ client'[owner'[f]].fd = f
    <3>1. SUFFICES ASSUME NEW f \in Fds, owner[f] # Nobody
                   PROVE  owner[f] \in Listed /\ client'[owner[f]].fd = f
      BY <1>5, <1>6
    <3>2. owner[f] \in Listed /\ client[owner[f]].fd = f /\ owner[f] \in Peers
      BY <3>1 DEF ListInv, Listed
    <3>3. QED
      BY <1>3, <1>4, <3>2
  <2>4. \A q \in Peers : client'[q] = [fd |-> client'[q].fd, requestType |-> client'[q].requestType,
                                       result |-> client'[q].result]
    BY <1>3, <1>4 DEF ListInv
  <2>5. QED
    BY <2>2, <2>3, <2>4 DEF ListInv
<1>9. HandlersInv'
  <2>1. ASSUME NEW f \in Fds
        PROVE  /\ owner'[f] = Nobody => reactor'.mask[f] = {}
               /\ owner'[f] # Nobody => "Read" \in reactor'.mask[f]
               /\ reactor'.readHandler[f] \in {"client", NoHandler}
               /\ reactor'.writeHandler[f] # NoHandler =>
                    owner'[f] # Nobody /\ reactor'.writeHandler[f] = owner'[f]
    <3>1. CASE f = d
      BY <1>2, <1>6, <3>1 DEF ClientStep
    <3>2. CASE f # d
      <4>1. SameAt(reactor', reactor, f) /\ owner'[f] = owner[f]
        BY <1>6, <3>2
      <4>2. QED
        BY <4>1 DEF SameAt, HandlersInv, OwnerHandles, ListenerInv
    <3>3. QED
      BY <3>1, <3>2
  <2>2. /\ reactor'.readHandler[ListenFd] \in {"accept", NoHandler}
        /\ reactor'.writeHandler[ListenFd] = NoHandler
    BY <1>6 DEF HandlersInv, OwnerHandles, ListenerInv, SameAt
  <2>3. QED
    BY <2>1, <2>2 DEF HandlersInv, OwnerHandles, ListenerInv
<1>10. BacklogInv'
  <2>1. \A i \in 1 .. Len(backlog) : backlog[i] \in Peers /\ backlog[i] # p
    BY DEF ShapeInv, BacklogInv, Listed
  <2>2. QED
    BY <1>3, <1>6, <2>1 DEF BacklogInv, ClientStep
<1>11. FiredInv'
  <2>1. ASSUME NEW e \in fired', "Read" \in e.events
        PROVE  ReadReady(e.fd)'
    <3>1. e \in fired /\ ReadReady(e.fd) /\ e.fd \in Descriptors
      BY <1>6, <2>1 DEF FiredInv, ShapeInv, Event
    <3>2. CASE e.fd = ListenFd
      BY <1>6, <3>1, <3>2 DEF ReadReady
    <3>3. CASE e.fd # ListenFd
      <4>1. e.fd \in Fds /\ owner[e.fd] # Nobody /\ owner[e.fd] \in Peers
        BY <3>1, <3>3 DEF Fds, FiredInv, ListInv, Listed
      <4>2. CASE owner[e.fd] = p
        <5>1. e.fd = d
          BY <4>1, <4>2, ReaderIsOwner
        <5>2. inbox'[p] = inbox[p] /\ (stream[p] # "open" => stream'[p] # "open")
          BY <2>1, <5>1 DEF ClientStep
        <5>3. QED
          BY <1>6, <3>1, <3>3, <4>2, <5>2 DEF ReadReady
      <4>3. CASE owner[e.fd] # p
        <5>1. inbox'[owner[e.fd]] = inbox[owner[e.fd]] /\ stream'[owner[e.fd]] = stream[owner[e.fd]]
          BY <4>1, <4>3 DEF ClientStep
        <5>2. QED
          BY <1>6, <3>1, <3>3, <5>1 DEF ReadReady
      <4>4. QED
        BY <4>2, <4>3
    <3>4. QED
      BY <3>2, <3>3
  <2>2. QED
    BY <1>6, <2>1 DEF FiredInv
<1>12. ReplyInv'
  <2>1. SUFFICES ASSUME NEW q \in Listed
                 PROVE  \/ client'[q].result = <<>>
                        \/ /\ "Write" \in reactor'.mask[client'[q].fd]
                           /\ reactor'.writeHandler[client'[q].fd] = q
    BY <1>5 DEF ReplyInv, ReplyReady
  <2>2. CASE q = p
    BY <1>1, <1>4, <2>2
  <2>3. CASE q # p
    <3>1. client'[q] = client[q] /\ client[q].fd \in Fds /\ owner[client[q].fd] = q
      BY <1>3, <2>3 DEF Listed, ListInv
    <3>2. client[q].fd # d
      BY <1>2, <2>3, <3>1
    <3>3. SameAt(reactor', reactor, client[q].fd)
      BY <1>6, <3>1, <3>2
    <3>4. QED
      BY <3>1, <3>3 DEF ReplyInv, ReplyReady, SameAt
  <2>4. QED
    BY <2>2, <2>3
<1>13. QED
  BY <1>7, <1>8, <1>9, <1>10, <1>11, <1>12 DEF ClientStep

-----------------------------------------------------------------------------
(* Reads *)

\* A handler that accepts is that of the listening socket.
LEMMA AcceptsAt ==
  ASSUME TidyInv, NEW e, CallsRead(e, "accept")
  PROVE  e.fd = ListenFd
<1>1. e.fd \in Descriptors /\ reactor.readHandler[e.fd] = "accept"
  BY Dispatched DEF CallsRead, Event
<1>2. QED
  BY <1>1, Names DEF TidyInv, HandlersInv, OwnerHandles, ListenerInv, Fds

\* A client that is read from is the owner of the descriptor.
LEMMA ReadsAt ==
  ASSUME TidyInv, NEW e, NEW p \in Peers, ReadsFrom(e, p)
  PROVE  /\ p \in Listed /\ e.fd \in Fds /\ client[p].fd = e.fd /\ owner[e.fd] = p
         /\ stream[p] # "none" /\ Dispatch(e)
         /\ Sound(reactor) /\ "Read" \in reactor.mask[e.fd]
         /\ reactor.readHandler[e.fd] \in {"client", NoHandler}
         /\ reactor.writeHandler[e.fd] \in {p, NoHandler}
<1>1. p \in Listed /\ client[p].fd = e.fd /\ Dispatch(e)
  BY DEF ReadsFrom, CallsRead, ClientsOf
<1>2. e.fd \in Fds /\ owner[e.fd] = p /\ p # Nobody /\ stream[p] # "none"
  BY <1>1, PeersAssumption DEF TidyInv, ListInv
<1>3. QED
  BY <1>1, <1>2 DEF TidyInv, HandlersInv, OwnerHandles, ListenerInv

LEMMA AcceptPreserves ==
  ASSUME TidyInv, NEW e, Accept(e)
  PROVE  TidyInv'
<1> USE DEF TidyInv
<1>1. PICK fd \in FreeFds : /\ owner' = [owner EXCEPT ![fd] = Head(backlog)]
                            /\ AddClient(Head(backlog), fd)
  BY DEF Accept
<1> DEFINE p == Head(backlog)
<1>2. /\ backlog \in Seq(Peers) /\ backlog # <<>> /\ backlog' = Tail(backlog)
      /\ owner' = [owner EXCEPT ![fd] = p]
      /\ client' = [client EXCEPT ![p] = NewClient(fd)]
      /\ reactor' = AddEventListener(reactor, fd, "Read", "client")
      /\ UNCHANGED <<stream, inbox>> /\ CallsRead(e, "accept")
  BY <1>1 DEF Accept, AddClient, ShapeInv
<1>3. /\ p = backlog[1] /\ 1 \in 1 .. Len(backlog) /\ p \in Peers
  BY <1>2
<1> HIDE DEF p
<1>4. /\ fd \in Fds /\ fd \in Descriptors /\ fd # ListenFd /\ owner[fd] = Nobody
      /\ p # Nobody /\ p \notin Listed /\ stream[p] # "none"
      /\ client = [q \in Peers |-> client[q]] /\ owner \in [Fds -> Peers \cup {Nobody}]
  BY <1>1, <1>3, PeersAssumption DEF FreeFds, Fds, Listed, BacklogInv, ShapeInv
<1>5. e.fd = ListenFd /\ e \in fired /\ fired' = fired \ {e} /\ fired' \subseteq fired
      /\ (\A f \in fired' : f.fd # ListenFd) /\ CurrentShape'
  BY <1>2, AcceptsAt, Dispatched DEF CallsRead
<1>6. /\ client'[p] = NewClient(fd) /\ \A q \in Peers : q # p => client'[q] = client[q]
      /\ client' = [q \in Peers |-> client'[q]]
      /\ owner'[fd] = p /\ \A f \in Fds : f # fd => owner'[f] = owner[f]
      /\ owner' \in [Fds -> Peers \cup {Nobody}]
  BY <1>2, <1>3, <1>4
<1>7. /\ client'[p].fd = fd /\ client'[p].result = <<>>
      /\ client'[p] = [fd |-> client'[p].fd, requestType |-> client'[p].requestType,
                       result |-> client'[p].result]
  BY <1>6 DEF NewClient
<1>8. client'[p] # NoClient
  BY <1>4, <1>7, AClient
<1>9. /\ \A q \in Peers : q \in Listed' <=> (q \in Listed \/ q = p)
      /\ \A q \in Listed' : q \in Peers
  BY <1>3, <1>6, <1>8 DEF Listed
<1>10. /\ Sound(reactor')
       /\ ListenerAddedTo(reactor, fd, "Read", "client", reactor')
  BY <1>2, <1>4, AddIsSound, Names
<1>11. /\ reactor'.mask[fd] = reactor.mask[fd] \cup {"Read"}
       /\ reactor'.readHandler[fd] = "client"
       /\ reactor'.writeHandler[fd] = reactor.writeHandler[fd]
       /\ \A d \in Descriptors : d # fd => SameAt(reactor', reactor, d)
  BY <1>4, <1>10, AddedAt DEF Sound
<1>12. ShapeInv'
  <2>1. backlog' \in Seq(Peers)
    BY <1>2
  <2>2. QED
    BY <1>2, <1>5, <1>6, <2>1 DEF ShapeInv
<1>13. ListInv'
  <2>1. ASSUME NEW q \in Listed'
        PROVE  client'[q].fd \in Fds /\ owner'[client'[q].fd] = q /\ stream'[q] # "none"
    <3>1. CASE q = p
      BY <1>2, <1>4, <1>6, <1>7, <3>1
    <3>2. CASE q # p
      <4>1. q \in Listed /\ client'[q] = client[q]
        BY <1>6, <1>9, <3>2
      <4>2. client[q].fd \in Fds /\ owner[client[q].fd] = q /\ q # Nobody /\ stream[q] # "none"
        BY <4>1, PeersAssumption DEF ListInv, Listed
      <4>3. QED
        BY <1>2, <1>4, <1>6, <4>1, <4>2
    <3>3. QED
      BY <3>1, <3>2
  <2>2. ASSUME NEW f \in Fds, owner'[f] # Nobody
        PROVE  owner'[f] \in Listed' /\ client'[owner'[f]].fd = f
    <3>1. CASE f = fd
      BY <1>3, <1>6, <1>7, <1>9, <3>1
    <3>2. CASE f # fd
      <4>1. owner'[f] = owner[f] /\ owner[f] \in Listed /\ client[owner[f]].fd = f
        BY <1>6, <2>2, <3>2 DEF ListInv
      <4>2. owner[f] # p /\ owner[f] \in Peers
        BY <1>4, <4>1 DEF Listed
      <4>3. QED
        BY <1>6, <1>9, <4>1, <4>2
    <3>3. QED
      BY <3>1, <3>2
  <2>3. \A q \in Peers : client'[q] = [fd |-> client'[q].fd, requestType |-> client'[q].requestType,
                                       result |-> client'[q].result]
    BY <1>6, <1>7 DEF ListInv
  <2>4. QED
    BY <2>1, <2>2, <2>3 DEF ListInv
<1>14. HandlersInv'
  <2>1. ASSUME NEW f \in Fds
        PROVE  /\ owner'[f] = Nobody => reactor'.mask[f] = {}
               /\ owner'[f] # Nobody => "Read" \in reactor'.mask[f]
               /\ reactor'.readHandler[f] \in {"client", NoHandler}
               /\ reactor'.writeHandler[f] # NoHandler =>
                    owner'[f] # Nobody /\ reactor'.writeHandler[f] = owner'[f]
    <3>1. CASE f = fd
      BY <1>4, <1>6, <1>11, <3>1 DEF HandlersInv, OwnerHandles, ListenerInv
    <3>2. CASE f # fd
      <4>1. SameAt(reactor', reactor, f) /\ owner'[f] = owner[f]
        BY <1>6, <1>11, <3>2 DEF Fds
      <4>2. QED
        BY <4>1 DEF SameAt, HandlersInv, OwnerHandles, ListenerInv
    <3>3. QED
      BY <3>1, <3>2
  <2>2. SameAt(reactor', reactor, ListenFd)
    BY <1>4, <1>11, Names
  <2>3. QED
    BY <2>1, <2>2 DEF HandlersInv, OwnerHandles, ListenerInv, SameAt
<1>15. BacklogInv'
  <2>1. /\ Len(backlog') \in Nat
        /\ \A i \in 1 .. Len(backlog') : i + 1 \in 1 .. Len(backlog) /\ backlog'[i] = backlog[i + 1]
    BY <1>2
  <2>2. \A i \in 1 .. Len(backlog') : backlog'[i] \in Peers /\ backlog'[i] # p
    <3>1. \A i \in 1 .. Len(backlog) : backlog[i] = backlog[1] => i = 1
      BY <1>3 DEF BacklogInv
    <3>2. \A i \in 1 .. Len(backlog') : backlog'[i] # p
      BY <1>3, <2>1, <3>1
    <3>3. \A i \in 1 .. Len(backlog) : backlog[i] \in Peers
      BY <1>2
    <3>4. QED
      BY <2>1, <3>2, <3>3
  <2>3. \A i \in 1 .. Len(backlog') : client'[backlog'[i]] = NoClient /\ stream'[backlog'[i]] # "none"
    <3>1. SUFFICES ASSUME NEW i \in 1 .. Len(backlog')
                   PROVE  client'[backlog'[i]] = NoClient /\ stream'[backlog'[i]] # "none"
      OBVIOUS
    <3>2. i + 1 \in 1 .. Len(backlog) /\ backlog'[i] = backlog[i + 1]
      BY <2>1
    <3>3. client[backlog'[i]] = NoClient /\ stream[backlog'[i]] # "none"
      BY <3>2 DEF BacklogInv
    <3>4. QED
      BY <1>2, <1>6, <2>2, <3>3
  <2>4. \A i, j \in 1 .. Len(backlog') : backlog'[i] = backlog'[j] => i = j
    <3>1. SUFFICES ASSUME NEW i \in 1 .. Len(backlog'), NEW j \in 1 .. Len(backlog'),
                          backlog'[i] = backlog'[j]
                   PROVE  i = j
      OBVIOUS
    <3>2. i + 1 = j + 1
      BY <2>1, <3>1 DEF BacklogInv
    <3>3. QED
      BY <2>1, <3>2
  <2>5. QED
    BY <2>3, <2>4 DEF BacklogInv
<1>16. FiredInv'
  <2>1. ASSUME NEW f \in fired'
        PROVE  /\ f.fd # ListenFd /\ owner'[f.fd] # Nobody
               /\ "Read" \in f.events => ReadReady(f.fd)'
    <3>1. f \in fired /\ f.fd \in Fds
      BY <1>5 DEF ShapeInv, Event, Fds
    <3>2. owner[f.fd] # Nobody
      BY <1>5, <2>1, <3>1 DEF FiredInv
    <3>3. owner'[f.fd] = owner[f.fd]
      BY <1>4, <1>6, <3>1, <3>2
    <3>4. "Read" \in f.events => ReadReady(f.fd)
      BY <3>1 DEF FiredInv
    <3>5. QED
      BY <1>2, <1>5, <3>2, <3>3, <3>4 DEF ReadReady
  <2>2. QED
    BY <1>5, <2>1 DEF FiredInv
<1>17. ReplyInv'
  <2>1. SUFFICES ASSUME NEW q \in Listed', client'[q].result # <<>>
                 PROVE  /\ "Write" \in reactor'.mask[client'[q].fd]
                        /\ reactor'.writeHandler[client'[q].fd] = q
    BY DEF ReplyInv, ReplyReady
  <2>2. q # p /\ q \in Listed /\ client'[q] = client[q]
    BY <1>6, <1>7, <1>9, <2>1
  <2>3. client[q].fd \in Fds /\ owner[client[q].fd] = q /\ q # Nobody
    BY <2>2, PeersAssumption DEF ListInv, Listed
  <2>4. SameAt(reactor', reactor, client[q].fd)
    BY <1>4, <1>11, <2>3 DEF Fds
  <2>5. QED
    BY <2>1, <2>2, <2>4 DEF ReplyInv, ReplyReady, SameAt
<1>18. QED
  BY <1>10, <1>12, <1>13, <1>14, <1>15, <1>16, <1>17

\* The RedisClient of p becomes this one.
ClientIs(p, fd, type, result) ==
  client' = [client EXCEPT ![p] = [fd |-> fd, requestType |-> type, result |-> result]]

\* What ArmReply makes of list_: one RedisClient with two new fields.
LEMMA RepliedTo ==
  ASSUME TidyInv, NEW p \in Peers, NEW fd, client[p].fd = fd, NEW reply, ArmReply(p, fd, reply)
  PROVE  \E type, result : /\ ClientIs(p, fd, type, result) /\ type = RequestType(p)
                           /\ result = client[p].result \o reply
<1>1. PICK type :
        /\ type = RequestType(p)
        /\ client' = [client EXCEPT ![p].requestType = type, ![p].result = @ \o reply]
  BY DEF ArmReply
<1>2. /\ client = [q \in Peers |-> client[q]]
      /\ client[p] = [fd |-> fd, requestType |-> client[p].requestType,
                      result |-> client[p].result]
  BY DEF TidyInv, ListInv, ShapeInv
<1> DEFINE n == [fd |-> fd, requestType |-> type, result |-> client[p].result]
           f == [client EXCEPT ![p].requestType = type]
           m == client[p].result \o reply
<1>3. [client[p] EXCEPT !.requestType = type] = n
  BY <1>2
<1>4. f = [client EXCEPT ![p] = n]
  BY <1>2, <1>3
<1> HIDE DEF f
<1>5. f[p] = n /\ f = [q \in Peers |-> f[q]]
  BY <1>2, <1>4
<1>6. f[p].result \o reply = m
  BY <1>5
<1> HIDE DEF m
<1>7. [f[p] EXCEPT !.result = m] = [fd |-> fd, requestType |-> type, result |-> m]
  BY <1>5
<1>8. [f EXCEPT ![p].result = m] = [f EXCEPT ![p] = [fd |-> fd, requestType |-> type, result |-> m]]
  BY <1>5, <1>7
<1>9. [f EXCEPT ![p].result = m]
        = [client EXCEPT ![p] = [fd |-> fd, requestType |-> type, result |-> m]]
  BY <1>2, <1>4, <1>8
<1>10. client' = [f EXCEPT ![p].result = m]
  BY <1>1, <1>6 DEF f
<1>11. ClientIs(p, fd, type, m)
  BY <1>9, <1>10 DEF ClientIs
<1>12. QED
  BY <1>1, <1>11 DEF m

\* What a read of p's commands leaves of the reactor and of the RedisClient.
LEMMA QueryPreserves ==
  ASSUME TidyInv, NEW e, NEW p \in Peers, ReadsFrom(e, p), Consume(p), Sound(reactor'),
         \A d \in Descriptors : d # e.fd => SameAt(reactor', reactor, d),
         "Read" \in reactor'.mask[e.fd],
         reactor'.readHandler[e.fd] \in {"client", NoHandler},
         reactor'.writeHandler[e.fd] \in {p, NoHandler},
         NEW type, NEW result,
         ClientIs(p, e.fd, type, result),
         result # <<>> => "Write" \in reactor'.mask[e.fd] /\ reactor'.writeHandler[e.fd] = p
  PROVE  TidyInv'
<1>1. p \in Listed /\ e.fd \in Fds /\ client[p].fd = e.fd /\ stream[p] # "none" /\ Dispatch(e)
  BY ReadsAt
<1>2. /\ fired' \subseteq fired /\ (\A f \in fired' : f.fd # e.fd)
      /\ CurrentShape'
  BY <1>1, Dispatched
<1>3. /\ UNCHANGED <<owner, backlog, stream>> /\ inbox' = [inbox EXCEPT ![p] = <<>>]
      /\ stream = [q \in Peers |-> stream[q]] /\ inbox = [q \in Peers |-> inbox[q]]
  BY DEF Consume, TidyInv, ShapeInv
<1>4. ClientStep(p, e.fd)
  BY <1>1, <1>2, <1>3 DEF ClientStep, ClientIs
<1>5. QED
  BY <1>1, <1>4, ClientStepPreserves

\* A read after which nothing was replied to: the reactor is as it was.
LEMMA QuietQueryPreserves ==
  ASSUME TidyInv, NEW e, NEW p \in Peers, ReadsFrom(e, p), Consume(p), reactor' = reactor,
         NEW type, NEW result,
         ClientIs(p, e.fd, type, result),
         client[p].result = <<>> => result = <<>>
  PROVE  TidyInv'
<1>1. /\ p \in Listed /\ e.fd \in Fds /\ client[p].fd = e.fd
      /\ Sound(reactor) /\ "Read" \in reactor.mask[e.fd]
      /\ reactor.readHandler[e.fd] \in {"client", NoHandler}
      /\ reactor.writeHandler[e.fd] \in {p, NoHandler}
  BY ReadsAt
<1>2. result # <<>> => "Write" \in reactor.mask[e.fd] /\ reactor.writeHandler[e.fd] = p
  BY <1>1 DEF TidyInv, ReplyInv, ReplyReady
<1>3. \A d \in Descriptors : SameAt(reactor', reactor, d)
  BY DEF SameAt
<1>4. QED
  BY <1>1, <1>2, <1>3, QueryPreserves

LEMMA ReadCommandPreserves ==
  ASSUME TidyInv, NEW e, NEW p \in Peers, ReadCommand(e, p)
  PROVE  TidyInv'
<1>1. PICK reply :
        /\ ReadsFrom(e, p) /\ Consume(p) /\ ArmReply(p, e.fd, reply)
        /\ reply # <<>> => reactor' = AddEventListener(reactor, e.fd, "Write", p)
        /\ reply = <<>> => reactor' = reactor
  BY DEF ReadCommand, ArmReply, Arms
<1>2. /\ p \in Listed /\ e.fd \in Fds /\ client[p].fd = e.fd
      /\ Sound(reactor) /\ "Read" \in reactor.mask[e.fd]
      /\ reactor.readHandler[e.fd] \in {"client", NoHandler}
      /\ reactor.writeHandler[e.fd] \in {p, NoHandler}
  BY <1>1, ReadsAt
<1>3. PICK type, result : /\ ClientIs(p, e.fd, type, result)
                          /\ result = client[p].result \o reply
  BY <1>1, <1>2, RepliedTo
<1>5. CASE reply # <<>>
  <2>1. reactor' = AddEventListener(reactor, e.fd, "Write", p) /\ p \in Handlers
        /\ e.fd \in Descriptors /\ "Write" \in Events
    BY <1>1, <1>2, <1>5, Names
  <2>2. Sound(reactor') /\ ListenerAddedTo(reactor, e.fd, "Write", p, reactor')
    BY <1>2, <2>1, AddIsSound
  <2>3. /\ reactor'.mask[e.fd] = reactor.mask[e.fd] \cup {"Write"}
        /\ reactor'.readHandler[e.fd] = reactor.readHandler[e.fd]
        /\ reactor'.writeHandler[e.fd] = p
        /\ \A d \in Descriptors : d # e.fd => SameAt(reactor', reactor, d)
    <3>1. reactor \in Reactors
      BY <1>2 DEF Sound
    <3>2. QED
      BY <2>1, <2>2, <3>1, AddedAt
  <2>4. /\ "Read" \in reactor'.mask[e.fd] /\ "Write" \in reactor'.mask[e.fd]
        /\ reactor'.readHandler[e.fd] \in {"client", NoHandler}
        /\ reactor'.writeHandler[e.fd] \in {p, NoHandler}
    BY <1>2, <2>3
  <2>5. QED
    BY <1>1, <1>3, <2>2, <2>3, <2>4, QueryPreserves
<1>6. CASE reply = <<>>
  <2>1. reactor' = reactor /\ (client[p].result = <<>> => result = <<>>)
    BY <1>1, <1>3, <1>6
  <2>2. QED
    BY <1>1, <1>3, <2>1, QuietQueryPreserves
<1>7. QED
  BY <1>5, <1>6

LEMMA ReadBulkPreserves ==
  ASSUME TidyInv, NEW e, NEW p \in Peers, ReadBulk(e, p)
  PROVE  TidyInv'
<1>1. PICK reply : /\ reply = <<>> /\ ArmReply(p, e.fd, reply)
                   /\ ReadsFrom(e, p) /\ Consume(p) /\ reactor' = reactor
  BY DEF ReadBulk, ArmReply, Arms
<1>2. client[p].fd = e.fd
  BY <1>1, ReadsAt
<1>3. PICK type, result : /\ ClientIs(p, e.fd, type, result)
                          /\ result = client[p].result \o reply
  BY <1>1, <1>2, RepliedTo
<1>4. client[p].result = <<>> => result = <<>>
  BY <1>1, <1>3
<1>5. QED
  BY <1>1, <1>3, <1>4, QuietQueryPreserves

LEMMA ReadOneWordPreserves ==
  ASSUME TidyInv, NEW e, NEW p \in Peers, ReadOneWord(e, p)
  PROVE  TidyInv'
<1>1. ReadsFrom(e, p) /\ Consume(p) /\ reactor' = reactor /\ client' = client
  BY DEF ReadOneWord
<1>2. client[p].fd = e.fd
  BY <1>1, ReadsAt
<1>3. ClientIs(p, e.fd, client[p].requestType, client[p].result)
  BY <1>1, <1>2 DEF TidyInv, ListInv, ShapeInv, ClientIs
<1>4. QED
  BY <1>1, <1>3, QuietQueryPreserves

LEMMA ReadErrorPreserves ==
  ASSUME TidyInv, NEW e, NEW p \in Peers, ReadError(e, p)
  PROVE  TidyInv'
<1>1. Dispatch(e) /\ UNCHANGED <<reactor, client, owner, backlog, inbox>>
      /\ stream' = [stream EXCEPT ![p] = "closed"]
  BY DEF ReadError, ReadsFrom, CallsRead
<1>2. stream = [q \in Peers |-> stream[q]] /\ inbox = [q \in Peers |-> inbox[q]]
  BY DEF TidyInv, ShapeInv
<1>3. Harmless
  BY <1>1, <1>2 DEF Harmless
<1>4. QED
  BY <1>1, <1>3, Dispatched, TidyNetwork, HarmlessPreserves, TidyKept

\* The end of the file is noted, and nothing else happens yet.
LEMMA ReadEofPreserves ==
  ASSUME TidyInv, NEW e, NEW p \in Peers, ReadEof(e, p)
  PROVE  TidyInv' /\ LeavingInv'
<1>1. /\ ReadsFrom(e, p) /\ stream[p] \in {"fin", "closed"}
      /\ UNCHANGED <<reactor, client, owner, stream, backlog, inbox>>
  BY DEF ReadEof, peerVars
<1>2. p \in Listed /\ client[p].fd = e.fd /\ Dispatch(e)
  BY <1>1, ReadsAt
<1>3. TidyInv'
  BY <1>1, <1>2, Dispatched, IdlePreserves
<1>4. current'.fd = e.fd /\ \A f \in fired' : f.fd # e.fd
  BY <1>2, Dispatched DEF Dispatch
<1>5. Listed' = Listed
  BY <1>1 DEF Listed
<1>6. QED
  BY <1>1, <1>2, <1>3, <1>4, <1>5 DEF LeavingInv

LEMMA HandleReadPreserves ==
  ASSUME TidyInv, NEW e, HandleRead(e)
  PROVE  TidyInv'
<1>1. CASE NoRead(e) \/ AcceptFails(e)
  <2>1. Dispatch(e) /\ UNCHANGED <<reactor, client, owner, stream, backlog, inbox>>
    BY <1>1 DEF NoRead, AcceptFails, CallsRead, peerVars
  <2>2. QED
    BY <2>1, Dispatched, IdlePreserves
<1>2. CASE Accept(e)
  BY <1>2, AcceptPreserves
<1>3. CASE \E p \in Peers : ReadQuery(e, p)
  BY <1>3, ReadCommandPreserves, ReadBulkPreserves, ReadOneWordPreserves,
     ReadErrorPreserves, ReadEofPreserves DEF ReadQuery
<1>4. QED
  BY <1>1, <1>2, <1>3 DEF HandleRead

-----------------------------------------------------------------------------
(* The end of a file *)

\* The kernel forgets the descriptor; the others do not.
LEMMA CloseFdPreserves ==
  ASSUME IInv, CloseFd
  PROVE  IInv'
<1> DEFINE d == current.fd
<1>1. /\ step = "close" /\ step' = "free" /\ reactor' = CloseDescriptor(reactor, d)
      /\ owner' = [owner EXCEPT ![d] = Nobody]
      /\ UNCHANGED <<fired, current, client, stream, backlog, inbox>>
  BY DEF CloseFd, peerVars
<1>2. TidyInv /\ NetworkInv
  BY <1>1, TidyNetwork DEF IInv
<1>3. PICK p \in Listed : /\ client[p].fd = d /\ stream[p] \in {"fin", "closed"}
                         /\ \A e \in fired : e.fd # d
  BY <1>1 DEF IInv, LeavingInv
<1>4. /\ p \in Peers /\ p # Nobody /\ d \in Fds /\ d \in Descriptors /\ d # ListenFd
      /\ owner[d] = p /\ owner \in [Fds -> Peers \cup {Nobody}]
  BY <1>2, <1>3, PeersAssumption DEF TidyInv, ShapeInv, ListInv, Listed, Fds
<1>5. /\ owner'[d] = Nobody /\ \A f \in Fds : f # d => owner'[f] = owner[f]
      /\ owner' \in [Fds -> Peers \cup {Nobody}]
  BY <1>1, <1>4
<1>6. /\ reactor \in Reactors /\ \A f \in Descriptors : Agrees(reactor, f)
      /\ \A f \in Fds : OwnerHandles(f)
  BY <1>2 DEF TidyInv, Sound, HandlersInv
<1> HIDE DEF d
<1>7. /\ reactor' \in Reactors /\ reactor'.registered[d] = {}
      /\ reactor'.polled = reactor.polled /\ reactor'.mask = reactor.mask
      /\ reactor'.readHandler = reactor.readHandler
      /\ reactor'.writeHandler = reactor.writeHandler
      /\ \A f \in Descriptors : f # d => SameAt(reactor', reactor, f)
  BY <1>1, <1>4, <1>6 DEF CloseDescriptor, Reactors, SameAt
<1>8. Listed' = Listed
  BY <1>1 DEF Listed
<1>9. \A q \in Listed : q # p => client[q].fd \in Fds /\ client[q].fd # d /\ owner[client[q].fd] = q
  BY <1>2, <1>3, <1>4 DEF TidyInv, ListInv
<1>10. NetworkInv'
  <2>1. ShapeInv'
    BY <1>1, <1>2, <1>5 DEF NetworkInv, ShapeInv, CurrentShape
  <2>2. BacklogInv'
    BY <1>1, <1>2 DEF NetworkInv, BacklogInv
  <2>3. FiredInv'
    <3>1. ASSUME NEW e \in fired
          PROVE  /\ e.fd # ListenFd => owner'[e.fd] # Nobody
                 /\ "Read" \in e.events => ReadReady(e.fd)'
      <4>1. e.fd # d /\ e.fd \in Descriptors
        BY <1>2, <1>3, <3>1 DEF NetworkInv, ShapeInv, Event
      <4>2. e.fd # ListenFd => owner'[e.fd] = owner[e.fd] /\ owner[e.fd] # Nobody
        BY <1>2, <1>5, <3>1, <4>1 DEF NetworkInv, FiredInv, Fds
      <4>3. "Read" \in e.events => ReadReady(e.fd)
        BY <1>2, <3>1 DEF NetworkInv, FiredInv
      <4>4. QED
        BY <1>1, <4>2, <4>3 DEF ReadReady
    <3>2. QED
      BY <1>1, <1>2, <3>1 DEF NetworkInv, FiredInv
  <2>4. QED
    BY <1>1, <1>2, <1>5, <1>8, <2>1, <2>2, <2>3 DEF NetworkInv
<1>11. LeftOf(p)'
  <2>1. Watched(reactor, d) /\ OwnerHandles(d) /\ ReplyReady(p)
    BY <1>2, <1>4, <1>6 DEF Agrees, TidyInv, ReplyInv
  <2>2. Watched(reactor', d)
    BY <1>7, <2>1 DEF Watched
  <2>3. reactor'.writeHandler[d] \in {p, NoHandler}
    BY <1>4, <1>7, <2>1 DEF OwnerHandles
  <2>4. client[p].result # <<>> => reactor'.writeHandler[d] = p
    BY <1>3, <1>7, <2>1 DEF ReplyReady
  <2>5. QED
    BY <1>1, <1>3, <1>4, <1>5, <1>7, <1>8, <2>2, <2>3, <2>4 DEF LeftOf, d
<1>12. RestOf(p)'
  <2>1. \A f \in Descriptors : f # d => Agrees(reactor', f)
    BY <1>6, <1>7, SameAgrees
  <2>2. ASSUME NEW q \in Listed, q # p
        PROVE  /\ client[q].fd \in Fds /\ owner'[client[q].fd] = q
               /\ ReplyReady(q)'
    <3>1. client[q].fd \in Fds /\ owner'[client[q].fd] = q
      BY <1>5, <1>9, <2>2
    <3>2. ReplyReady(q)
      BY <1>2 DEF TidyInv, ReplyInv
    <3>3. QED
      BY <1>1, <1>7, <3>1, <3>2 DEF ReplyReady
  <2>3. ASSUME NEW f \in Fds, owner'[f] # Nobody
        PROVE  owner'[f] # p /\ owner'[f] \in Listed /\ client[owner'[f]].fd = f
    <3>1. f # d /\ owner'[f] = owner[f]
      BY <1>5, <2>3
    <3>2. owner[f] \in Listed /\ client[owner[f]].fd = f
      BY <1>2, <2>3, <3>1 DEF TidyInv, ListInv
    <3>3. QED
      BY <1>3, <3>1, <3>2
  <2>4. ASSUME NEW f \in Fds, f # d
        PROVE  OwnerHandles(f)'
    BY <1>5, <1>6, <1>7, <2>4 DEF OwnerHandles
  <2>5. ListenerInv'
    BY <1>2, <1>7 DEF TidyInv, HandlersInv, ListenerInv
  <2>6. QED
    BY <1>1, <1>2, <1>7, <1>8, <2>1, <2>2, <2>3, <2>4, <2>5 DEF RestOf, TidyInv, ListInv, d
<1>13. LeavingInv'
  BY <1>1, <1>3, <1>8 DEF LeavingInv, d
<1>14. QED
  BY <1>1, <1>4, <1>10, <1>11, <1>12, <1>13 DEF IInv

\* The client that Free removes is the one whose descriptor was closed.
LEMMA OneIsLeft ==
  ASSUME NEW p \in Peers, LeftOf(p), RestOf(p), NEW q \in ClientsOf(current.fd)
  PROVE  q = p
BY PeersAssumption DEF LeftOf, RestOf, ClientsOf, Listed

LEMMA FreePreserves ==
  ASSUME IInv, Free
  PROVE  IInv'
<1> DEFINE d == current.fd
<1>1. /\ step = "free" /\ step' = "write" /\ reactor' = Freed(reactor, d)
      /\ UNCHANGED <<fired, current, owner, stream, backlog, inbox>>
  BY DEF Free, Returned, peerVars
<1>2. PICK p \in Peers : LeftOf(p) /\ RestOf(p)
  BY <1>1 DEF IInv
<1>3. /\ p \in Listed /\ client[p].fd = d /\ d \in Fds /\ owner[d] = Nobody /\ d \in Descriptors
      /\ d # ListenFd /\ NetworkInv /\ reactor \in Reactors
      /\ \A f \in Descriptors : f # d => Agrees(reactor, f)
  BY <1>1, <1>2 DEF LeftOf, RestOf, IInv, Fds
<1>4. client' = [client EXCEPT ![p] = NoClient]
  BY <1>2, OneIsLeft DEF Free
<1> HIDE DEF d
<1>5. /\ client'[p] = NoClient /\ \A q \in Peers : q # p => client'[q] = client[q]
      /\ client' = [q \in Peers |-> client'[q]]
  BY <1>3, <1>4 DEF NetworkInv, ShapeInv
<1>6. /\ \A q \in Listed' : q \in Listed /\ q \in Peers /\ q # p
      /\ \A q \in Listed : q # p => q \in Listed'
  BY <1>5 DEF Listed
<1>7. Sound(reactor') /\ Forgotten(reactor, d, reactor')
  BY <1>1, <1>3, FreedIsSound
<1>8. /\ reactor'.mask[d] = {}
      /\ reactor'.readHandler[d] = NoHandler /\ reactor'.writeHandler[d] = NoHandler
      /\ \A f \in Descriptors : f # d => SameAt(reactor', reactor, f)
  BY <1>3, <1>7, ForgottenAt
<1>9. ShapeInv'
  BY <1>1, <1>3, <1>5 DEF NetworkInv, ShapeInv, CurrentShape
<1>10. ASSUME NEW q \in Listed'
       PROVE  /\ client'[q] = client[q] /\ client[q].fd \in Fds /\ owner[client[q].fd] = q
              /\ ReplyReady(q) /\ SameAt(reactor', reactor, client[q].fd)
  <2>1. q \in Listed /\ q \in Peers /\ q # p /\ client'[q] = client[q]
    BY <1>5, <1>6
  <2>2. client[q].fd \in Fds /\ owner[client[q].fd] = q /\ q # Nobody /\ ReplyReady(q)
    BY <1>2, <2>1, PeersAssumption DEF RestOf
  <2>3. QED
    BY <1>3, <1>8, <2>1, <2>2 DEF Fds
<1>11. ListInv'
  <2>1. \A q \in Listed' : client'[q].fd \in Fds /\ owner'[client'[q].fd] = q /\ stream'[q] # "none"
    BY <1>1, <1>3, <1>6, <1>10 DEF NetworkInv
  <2>2. ASSUME NEW f \in Fds, owner'[f] # Nobody
        PROVE  owner'[f] \in Listed' /\ client'[owner'[f]].fd = f
    <3>1. owner[f] # p /\ owner[f] \in Listed /\ owner[f] \in Peers /\ client[owner[f]].fd = f
      BY <1>1, <1>2, <2>2 DEF RestOf, Listed
    <3>2. QED
      BY <1>1, <1>5, <1>6, <3>1
  <2>3. \A q \in Peers : client'[q] = [fd |-> client'[q].fd, requestType |-> client'[q].requestType,
                                       result |-> client'[q].result]
    BY <1>2, <1>5 DEF RestOf, NoClient, NewClient
  <2>4. QED
    BY <2>1, <2>2, <2>3 DEF ListInv
<1>12. HandlersInv'
  <2>1. ASSUME NEW f \in Fds
        PROVE  OwnerHandles(f)'
    <3>1. CASE f = d
      BY <1>1, <1>3, <1>8, <3>1 DEF OwnerHandles
    <3>2. CASE f # d
      <4>1. SameAt(reactor', reactor, f) /\ owner'[f] = owner[f] /\ OwnerHandles(f)
        BY <1>1, <1>2, <1>8, <3>2 DEF RestOf, Fds, d
      <4>2. QED
        BY <4>1 DEF SameAt, OwnerHandles
    <3>3. QED
      BY <3>1, <3>2
  <2>2. SameAt(reactor', reactor, ListenFd) /\ ListenerInv
    BY <1>2, <1>3, <1>8, Names DEF RestOf
  <2>3. QED
    BY <2>1, <2>2 DEF HandlersInv, ListenerInv, SameAt
<1>13. BacklogInv'
  <2>1. \A i \in 1 .. Len(backlog) : backlog[i] \in Peers
    BY <1>3 DEF NetworkInv, ShapeInv
  <2>2. QED
    BY <1>1, <1>3, <1>5, <2>1 DEF NetworkInv, BacklogInv
<1>14. FiredInv'
  BY <1>1, <1>3 DEF NetworkInv, FiredInv, ReadReady
<1>15. ReplyInv'
  <2>1. ASSUME NEW q \in Listed'
        PROVE  ReplyReady(q)'
    BY <1>10 DEF ReplyReady, SameAt
  <2>2. QED
    BY <2>1 DEF ReplyInv
<1>16. TidyInv'
  BY <1>7, <1>9, <1>11, <1>12, <1>13, <1>14, <1>15 DEF TidyInv, Sound
<1>17. QED
  BY <1>1, <1>16 DEF IInv, LeavingInv

-----------------------------------------------------------------------------
(* Writes *)

\* A client that is written to is the owner of the descriptor.
LEMMA WritesAt ==
  ASSUME TidyInv, NEW p \in Peers, CallsWrite(p)
  PROVE  /\ p \in Listed /\ current.fd \in Fds /\ client[p].fd = current.fd
         /\ stream[p] # "none" /\ owner[current.fd] = p /\ Sound(reactor)
         /\ "Read" \in reactor.mask[current.fd]
         /\ reactor.readHandler[current.fd] \in {"client", NoHandler}
         /\ reactor.writeHandler[current.fd] = p
         /\ WriteStep
<1>1. current.fd \in Descriptors /\ reactor.writeHandler[current.fd] = p /\ WriteStep
  BY WriteStepShape DEF CallsWrite, Event
<1>2. current.fd \in Fds
  BY <1>1, Names DEF TidyInv, HandlersInv, OwnerHandles, ListenerInv, Fds
<1>3. owner[current.fd] # Nobody /\ owner[current.fd] = p
  BY <1>1, <1>2, Names DEF TidyInv, HandlersInv, OwnerHandles, ListenerInv
<1>4. p \in Listed /\ client[p].fd = current.fd /\ stream[p] # "none"
  BY <1>2, <1>3 DEF TidyInv, ListInv
<1>5. QED
  BY <1>1, <1>2, <1>3, <1>4 DEF TidyInv, HandlersInv, OwnerHandles, ListenerInv

\* What a write to p leaves of the reactor, of its RedisClient and of its connection.
LEMMA AnswerPreserves ==
  ASSUME TidyInv, NEW p \in Peers, CallsWrite(p),
         reactor' = reactor \/ Disarm(p),
         NEW type, NEW result, ClientIs(p, current.fd, type, result), result = <<>>,
         NEW how, stream' = [stream EXCEPT ![p] = how], how # "none",
         how = "open" => stream[p] = "open"
  PROVE  TidyInv'
<1> DEFINE d == current.fd
<1>1. /\ p \in Listed /\ d \in Fds /\ client[p].fd = d /\ Sound(reactor) /\ d \in Descriptors
      /\ "Read" \in reactor.mask[d] /\ reactor.readHandler[d] \in {"client", NoHandler}
      /\ reactor.writeHandler[d] = p /\ WriteStep
  BY WritesAt DEF Fds
<1>2. fired' = fired /\ CurrentShape' /\ UNCHANGED <<owner, backlog, inbox>>
  BY <1>1, WriteStepShape
<1>3. /\ stream' = [q \in Peers |-> stream'[q]] /\ inbox = [q \in Peers |-> inbox[q]]
      /\ stream'[p] = how /\ \A q \in Peers : q # p => stream'[q] = stream[q]
  BY DEF TidyInv, ShapeInv
<1>4. /\ Sound(reactor')
      /\ \A f \in Descriptors : f # d => SameAt(reactor', reactor, f)
      /\ "Read" \in reactor'.mask[d] /\ reactor'.readHandler[d] \in {"client", NoHandler}
      /\ reactor'.writeHandler[d] \in {p, NoHandler}
  <2>1. CASE reactor' = reactor
    BY <1>1, <2>1 DEF SameAt
  <2>2. CASE Disarm(p)
    <3>1. reactor' = DeleteEventListener(reactor, d, "Write") /\ reactor \in Reactors
      BY <1>1, <2>2 DEF Disarm, Sound
    <3>2. Sound(reactor') /\ ListenerDeletedFrom(reactor, d, "Write", reactor')
      BY <1>1, <3>1, DeleteIsSound, Names
    <3>3. /\ reactor'.mask[d] = reactor.mask[d] \ {"Write"}
          /\ reactor'.mask[d] # {} => /\ reactor'.readHandler[d] = reactor.readHandler[d]
                                      /\ reactor'.writeHandler[d] = reactor.writeHandler[d]
          /\ \A f \in Descriptors : f # d => SameAt(reactor', reactor, f)
      BY <1>1, <3>1, <3>2, DeletedAt
    <3>4. "Read" \in reactor'.mask[d]
      BY <1>1, <3>3
    <3>5. QED
      BY <1>1, <3>2, <3>3, <3>4
  <2>3. QED
    BY <2>1, <2>2
<1>5. \E t, r :
        /\ client' = [client EXCEPT ![p] = [fd |-> d, requestType |-> t, result |-> r]]
        /\ r # <<>> => "Write" \in reactor'.mask[d] /\ reactor'.writeHandler[d] = p
  BY DEF ClientIs
<1> HIDE DEF d
<1>6. ClientStep(p, d)
  BY <1>1, <1>2, <1>3, <1>4, <1>5 DEF ClientStep
<1>7. QED
  BY <1>1, <1>6, ClientStepPreserves

LEMMA SentIs ==
  ASSUME TidyInv, NEW p \in Peers, client[p].fd = current.fd, Sent(p)
  PROVE  ClientIs(p, current.fd, client[p].requestType, <<>>)
<1>1. /\ client = [q \in Peers |-> client[q]]
      /\ client[p] = [fd |-> current.fd, requestType |-> client[p].requestType,
                      result |-> client[p].result]
  BY DEF TidyInv, ListInv, ShapeInv
<1>2. [client[p] EXCEPT !.result = <<>>]
        = [fd |-> current.fd, requestType |-> client[p].requestType, result |-> <<>>]
  BY <1>1
<1>3. QED
  BY <1>2 DEF Sent, ClientIs

LEMMA WriteReplyPreserves ==
  ASSUME TidyInv, NEW p \in Peers, WriteReply(p) \/ WriteUnread(p) \/ WriteError(p)
  PROVE  TidyInv'
<1>1. /\ CallsWrite(p) /\ Sent(p) /\ (reactor' = reactor \/ Disarm(p))
      /\ stream' \in {stream, [stream EXCEPT ![p] = "closed"]}
  BY DEF WriteReply, WriteUnread, WriteError
<1>2. client[p].fd = current.fd /\ stream[p] # "none"
  BY <1>1, WritesAt
<1>3. ClientIs(p, current.fd, client[p].requestType, <<>>)
  BY <1>1, <1>2, SentIs
<1>4. \E how : /\ stream' = [stream EXCEPT ![p] = how] /\ how # "none"
               /\ how = "open" => stream[p] = "open"
  <2>1. stream = [stream EXCEPT ![p] = stream[p]]
    BY DEF TidyInv, ShapeInv
  <2>2. QED
    BY <1>1, <1>2, <2>1
<1>5. PICK result : result = <<>> /\ ClientIs(p, current.fd, client[p].requestType, result)
  BY <1>3
<1>6. QED
  BY <1>1, <1>4, <1>5, AnswerPreserves

LEMMA NothingToWritePreserves ==
  ASSUME TidyInv, NEW p \in Peers, NothingToWrite(p)
  PROVE  TidyInv'
<1>1. CallsWrite(p) /\ Disarm(p) /\ client[p].result = <<>> /\ client' = client /\ stream' = stream
  BY DEF NothingToWrite
<1>2. client[p].fd = current.fd /\ stream[p] # "none"
  BY <1>1, WritesAt
<1>3. ClientIs(p, current.fd, client[p].requestType, client[p].result)
  BY <1>1, <1>2 DEF ClientIs, TidyInv, ListInv, ShapeInv
<1>4. stream' = [stream EXCEPT ![p] = stream[p]]
  BY <1>1 DEF TidyInv, ShapeInv
<1>5. QED
  BY <1>1, <1>2, <1>3, <1>4, AnswerPreserves

LEMMA HandleWritePreserves ==
  ASSUME TidyInv, HandleWrite
  PROVE  TidyInv'
<1>1. CASE NoWrite \/ CallEmptyWrite \/ \E p \in Peers : WriteBrokenPipe(p)
  <2>1. WriteStep /\ UNCHANGED <<reactor, client, stream>>
    BY <1>1 DEF NoWrite, CallEmptyWrite, WriteBrokenPipe, CallsWrite
  <2>2. QED
    BY <2>1, WriteStepShape, IdlePreserves
<1>2. CASE \E p \in Peers : \/ WriteReply(p) \/ WriteUnread(p) \/ WriteError(p)
                            \/ NothingToWrite(p)
  BY <1>2, WriteReplyPreserves, NothingToWritePreserves
<1>3. QED
  BY <1>1, <1>2 DEF HandleWrite

-----------------------------------------------------------------------------
(* The theorems *)

LEMMA InitTidyInv ==
  ASSUME Init, StaleMasks \subseteq {{}}
  PROVE  TidyInv
<1> USE DEF Init, TidyInv
<1>1. PICK masks \in [Descriptors -> StaleMasks] : reactor = NewReactor(masks)
  OBVIOUS
<1>2. \A fd \in Descriptors : masks[fd] = {}
  BY <1>1
<1>3. /\ reactor.registered = [fd \in Descriptors |-> {}]
      /\ reactor.polled = masks
      /\ reactor.mask = [fd \in Descriptors |-> {}]
      /\ reactor.readHandler = [fd \in Descriptors |-> NoHandler]
      /\ reactor.writeHandler = [fd \in Descriptors |-> NoHandler]
  BY <1>1 DEF NewReactor
<1>4. Sound(reactor)
  <2>1. reactor \in Reactors
    BY <1>1, <1>2 DEF NewReactor, Reactors
  <2>2. QED
    BY <1>2, <1>3, <2>1 DEF Sound, Agrees, Watched
<1>5. Listed = {}
  BY DEF Listed
<1>6. ListInv
  <2>1. \A p \in Peers : client[p] = NoClient
    OBVIOUS
  <2>2. NoClient = [fd |-> NoClient.fd, requestType |-> NoClient.requestType,
                    result |-> NoClient.result]
    BY DEF NoClient, NewClient
  <2>3. \A p \in Peers : client[p] = [fd |-> client[p].fd, requestType |-> client[p].requestType,
                                      result |-> client[p].result]
    BY <2>1, <2>2
  <2>4. QED
    BY <1>5, <2>3 DEF ListInv
<1>7. HandlersInv
  BY <1>3, Names DEF HandlersInv, OwnerHandles, ListenerInv
<1>8. ShapeInv
  BY DEF ShapeInv, CurrentShape
<1>9. BacklogInv /\ FiredInv /\ ReplyInv
  BY <1>5 DEF BacklogInv, FiredInv, ReplyInv, ReplyReady
<1>10. QED
  BY <1>4, <1>6, <1>7, <1>8, <1>9

LEMMA InitIInv ==
  ASSUME Init, StaleMasks \subseteq {{}}
  PROVE  IInv
BY InitTidyInv DEF Init, IInv, LeavingInv

\* A fired descriptor is taken up when nothing is left of those before it.
LEMMA ReadsWhenTidy ==
  ASSUME IInv, NEW e, HandleRead(e)
  PROVE  step = "read" /\ TidyInv
BY DEF IInv, HandleRead, NoRead, AcceptFails, Accept, ReadQuery, ReadCommand, ReadOneWord, ReadBulk,
   ReadError, ReadEof, ReadsFrom, CallsRead, Dispatch

LEMMA WritesWhenTidy ==
  ASSUME HandleWrite
  PROVE  step = "write" /\ step' \in {"poll", "read"}
BY DEF HandleWrite, NoWrite, CallEmptyWrite, WriteReply, WriteUnread, WriteError, WriteBrokenPipe,
   NothingToWrite, CallsWrite, WriteStep, NextDescriptor

\* The steps that leave nothing to tidy up.
LEMMA TidyStep ==
  ASSUME IInv, TidyInv', step' \notin {"close", "free"}
  PROVE  IInv'
BY DEF IInv, LeavingInv

LEMMA NextIInv ==
  ASSUME IInv, [Next]_vars
  PROVE  IInv'
<1>1. CASE Start \/ Poll \/ HandleWrite
  <2>1. TidyInv /\ step' \notin {"close", "free"}
    BY <1>1, WritesWhenTidy DEF IInv, Start, Poll
  <2>2. QED
    BY <1>1, <2>1, StartPreserves, PollPreserves, HandleWritePreserves, TidyStep
<1>2. ASSUME NEW e, HandleRead(e)
      PROVE  IInv'
  <2>1. step = "read" /\ TidyInv
    BY <1>2, ReadsWhenTidy
  <2>2. TidyInv'
    BY <1>2, <2>1, HandleReadPreserves
  <2>3. CASE \E p \in Peers : ReadEof(e, p)
    BY <2>1, <2>2, <2>3, ReadEofPreserves DEF ReadEof, IInv
  <2>4. CASE ~\E p \in Peers : ReadEof(e, p)
    <3>1. step' = "write"
      BY <1>2, <2>4 DEF HandleRead, NoRead, AcceptFails, Accept, ReadQuery, ReadCommand,
         ReadOneWord, ReadBulk, ReadError, Consume, Returned
    <3>2. QED
      BY <2>2, <3>1, TidyStep
  <2>5. QED
    BY <2>3, <2>4
<1>3. CASE CloseFd \/ Free
  BY <1>3, CloseFdPreserves, FreePreserves
<1>4. CASE PeerNext
  BY <1>4, PeersPreserve
<1>5. CASE UNCHANGED vars
  <2>1. /\ UNCHANGED <<reactor, client, owner, stream, backlog, inbox>>
        /\ fired' = fired /\ UNCHANGED <<step, current>> /\ Listed' = Listed
    BY <1>5 DEF vars, Listed
  <2>2. LeavingInv'
    BY <2>1 DEF IInv, LeavingInv
  <2>3. CASE step = "free"
    <3>1. PICK p \in Peers : LeftOf(p) /\ RestOf(p)
      BY <2>3 DEF IInv
    <3>2. LeftOf(p)' /\ RestOf(p)'
      BY <2>1, <3>1 DEF LeftOf, RestOf, Agrees, Watched, ReplyReady, OwnerHandles, ListenerInv
    <3>3. NetworkInv /\ Harmless /\ CurrentShape'
      BY <2>1, AlwaysHolds DEF NetworkInv, ShapeInv, Harmless, CurrentShape
    <3>4. NetworkInv'
      BY <2>1, <3>3, HarmlessPreserves
    <3>5. QED
      BY <2>1, <2>2, <2>3, <3>2, <3>4 DEF IInv
  <2>4. CASE step # "free"
    <3>1. TidyInv /\ CurrentShape'
      BY <2>1, <2>4 DEF IInv, TidyInv, ShapeInv, CurrentShape
    <3>2. TidyInv'
      BY <2>1, <3>1, IdlePreserves
    <3>3. QED
      BY <2>1, <2>2, <2>4, <3>2 DEF IInv
  <2>5. QED
    BY <2>3, <2>4
<1>6. QED
  BY <1>1, <1>2, <1>3, <1>4, <1>5 DEF Next, ServerNext

LEMMA Invariant ==
  ASSUME StaleMasks \subseteq {{}}
  PROVE  Spec => []IInv
<1>1. Init => IInv
  BY InitIInv
<1>2. IInv /\ [Next]_vars => IInv'
  BY NextIInv
<1>3. QED
  BY <1>1, <1>2, PTL DEF Spec

\* io_service.hpp lines 108-148: however many peers connect, send and leave, the
\* kernel, the poller and the IOService agree on what each descriptor is watched
\* for, but for the one that was just closed, provided the poller's masks start
\* clear.
THEOREM RegistrationsAgreeCorrect ==
  ASSUME StaleMasks \subseteq {{}}
  PROVE  Spec => []RegistrationsAgree
<1>1. ASSUME IInv
      PROVE  RegistrationsAgree
  <2>1. CASE step # "free"
    BY <1>1, <2>1 DEF IInv, TidyInv, Sound, Agrees, RegistrationsAgree, Cleaning
  <2>2. CASE step = "free"
    BY <1>1, <2>2 DEF IInv, LeftOf, RestOf, Agrees, RegistrationsAgree, Cleaning
  <2>3. QED
    BY <2>1, <2>2
<1>2. QED
  BY <1>1, Invariant, PTL

\* server.hpp lines 52-87, client.hpp lines 71-77: list_ is the set of open
\* connections, and of those whose end is being dealt with; a closed descriptor is
\* watched for nothing when accept gives its number away.
THEOREM ClientsMatchSocketsCorrect ==
  ASSUME StaleMasks \subseteq {{}}
  PROVE  Spec => []ClientsMatchSockets
<1>1. ASSUME IInv
      PROVE  ClientsMatchSockets
  <2>1. CASE step # "free"
    BY <1>1, <2>1
       DEF IInv, TidyInv, ListInv, HandlersInv, OwnerHandles, ClientsMatchSockets, Cleaning
  <2>2. CASE step = "free"
    <3>1. PICK p \in Peers : LeftOf(p) /\ RestOf(p)
      BY <1>1, <2>2 DEF IInv
    <3>2. ASSUME NEW q \in Listed
          PROVE  owner[client[q].fd] = IF Cleaning(client[q].fd) THEN Nobody ELSE q
      BY <2>2, <3>1, <3>2, PeersAssumption DEF LeftOf, RestOf, Cleaning, Listed
    <3>3. ASSUME NEW fd \in Fds
          PROVE  IF owner[fd] = Nobody THEN reactor.mask[fd] = {} \/ Cleaning(fd)
                 ELSE owner[fd] \in Listed /\ client[owner[fd]].fd = fd
      BY <2>2, <3>1 DEF RestOf, OwnerHandles, Cleaning
    <3>4. QED
      BY <3>2, <3>3 DEF ClientsMatchSockets
  <2>3. QED
    BY <2>1, <2>2
<1>2. QED
  BY <1>1, Invariant, PTL

\* client.hpp lines 176 and 187: no write handler outlives its RedisClient.
THEOREM WriteHandlersAliveCorrect ==
  ASSUME StaleMasks \subseteq {{}}
  PROVE  Spec => []WriteHandlersAlive
<1>1. ASSUME IInv
      PROVE  WriteHandlersAlive
  <2>1. SUFFICES ASSUME NEW fd \in Fds, NEW p \in Peers, reactor.writeHandler[fd] = p
                 PROVE  p \in Listed /\ client[p].fd = fd
    BY DEF WriteHandlersAlive
  <2>2. CASE step # "free"
    <3>1. owner[fd] # Nobody /\ owner[fd] = p
      BY <1>1, <2>1, <2>2, Names DEF IInv, TidyInv, HandlersInv, OwnerHandles
    <3>2. QED
      BY <1>1, <2>2, <3>1 DEF IInv, TidyInv, ListInv
  <2>3. CASE step = "free"
    <3>1. PICK q \in Peers : LeftOf(q) /\ RestOf(q)
      BY <1>1, <2>3 DEF IInv
    <3>2. CASE fd = current.fd
      BY <2>1, <3>1, <3>2, Names DEF LeftOf
    <3>3. CASE fd # current.fd
      BY <2>1, <3>1, <3>3, Names DEF RestOf, OwnerHandles
    <3>4. QED
      BY <3>2, <3>3
  <2>4. QED
    BY <2>2, <2>3
<1>2. QED
  BY <1>1, Invariant, PTL

\* client.hpp lines 164-222: a reply that is not sent has a handler to send it, as
\* long as its descriptor is open.
THEOREM ReplyArmedCorrect ==
  ASSUME StaleMasks \subseteq {{}}
  PROVE  Spec => []ReplyArmed
<1>1. ASSUME IInv
      PROVE  ReplyArmed
  <2>1. SUFFICES ASSUME NEW p \in Listed, client[p].result # <<>>
                 PROVE  /\ "Write" \in reactor.registered[client[p].fd] \/ Cleaning(client[p].fd)
                        /\ reactor.writeHandler[client[p].fd] = p
    BY DEF ReplyArmed
  <2>2. CASE step # "free"
    <3>1. client[p].fd \in Descriptors
      BY <1>1, <2>2 DEF IInv, TidyInv, ListInv, Fds
    <3>2. QED
      BY <1>1, <2>1, <2>2, <3>1
         DEF IInv, TidyInv, ReplyInv, ReplyReady, Sound, Agrees, Watched
  <2>3. CASE step = "free"
    <3>1. PICK q \in Peers : LeftOf(q) /\ RestOf(q)
      BY <1>1, <2>3 DEF IInv
    <3>2. CASE p = q
      BY <2>1, <2>3, <3>1, <3>2 DEF LeftOf, Cleaning
    <3>3. CASE p # q
      <4>1. /\ client[p].fd \in Descriptors /\ client[p].fd # current.fd
            /\ ReplyReady(p)
        BY <3>1, <3>3, PeersAssumption DEF LeftOf, RestOf, Listed, Fds
      <4>2. QED
        BY <2>1, <3>1, <4>1 DEF RestOf, ReplyReady, Agrees, Watched
    <3>4. QED
      BY <3>2, <3>3
  <2>4. QED
    BY <2>2, <2>3
<1>2. QED
  BY <1>1, Invariant, PTL

\* What is known of a fired descriptor that was not handled yet.
LEMMA FiredIsTidy ==
  ASSUME IInv, NEW e \in fired
  PROVE  /\ e.fd \in Descriptors /\ Agrees(reactor, e.fd) /\ ListenerInv
         /\ e.fd # ListenFd => OwnerHandles(e.fd) /\ ClientsOf(e.fd) # {}
<1>1. NetworkInv
  BY AlwaysHolds
<1>2. e.fd \in Descriptors /\ (e.fd # ListenFd => e.fd \in Fds /\ owner[e.fd] # Nobody)
  BY <1>1 DEF NetworkInv, ShapeInv, FiredInv, Event, Fds
<1>3. CASE step # "free"
  BY <1>2, <1>3 DEF IInv, TidyInv, Sound, HandlersInv, ListInv, ClientsOf
<1>4. CASE step = "free"
  <2>1. PICK p \in Peers : LeftOf(p) /\ RestOf(p)
    BY <1>4 DEF IInv
  <2>2. e.fd # current.fd
    BY <1>2, <2>1 DEF LeftOf, Fds
  <2>3. QED
    BY <1>2, <2>1, <2>2 DEF RestOf, ClientsOf
<1>5. QED
  BY <1>3, <1>4

\* server.hpp line 77 and io_service.hpp lines 281-290: clientHandler finds its
\* RedisClient, and no fired descriptor has an empty read handler.
THEOREM ReadHandlerReadyCorrect ==
  ASSUME StaleMasks \subseteq {{}}
  PROVE  Spec => []ReadHandlerReady
<1>1. ASSUME IInv
      PROVE  ReadHandlerReady
  <2>1. SUFFICES ASSUME NEW e \in fired, "Read" \in EventsToHandle(e)
                 PROVE  IF e.fd = ListenFd THEN reactor.readHandler[e.fd] = "accept"
                        ELSE reactor.readHandler[e.fd] = "client" /\ ClientsOf(e.fd) # {}
    BY DEF ReadHandlerReady
  <2>2. /\ "Read" \in reactor.polled[e.fd] /\ Agrees(reactor, e.fd) /\ ListenerInv
        /\ e.fd # ListenFd => OwnerHandles(e.fd) /\ ClientsOf(e.fd) # {}
    BY <1>1, <2>1, FiredIsTidy DEF EventsToHandle
  <2>3. reactor.readHandler[e.fd] # NoHandler
    BY <2>2 DEF Agrees, Watched
  <2>4. QED
    BY <2>2, <2>3 DEF ListenerInv, OwnerHandles
<1>2. QED
  BY <1>1, Invariant, PTL

\* anet.hpp lines 52-74, client.hpp line 56: accept and read are called on blocking
\* sockets, and never when they would have to wait.
THEOREM NoBlockingCallCorrect ==
  ASSUME StaleMasks \subseteq {{}}
  PROVE  Spec => []NoBlockingCall
<1>1. IInv => NoBlockingCall
  BY AlwaysHolds, ReadyToRead DEF NetworkInv, FiredInv, NoBlockingCall
<1>2. QED
  BY <1>1, Invariant, PTL

-----------------------------------------------------------------------------
(* Answers *)

IsSequence(s) == Len(s) \in Nat /\ s = [i \in 1 .. Len(s) |-> s[i]]

LEMMA ConcatLength ==
  ASSUME NEW s, IsSequence(s), NEW t, IsSequence(t)
  PROVE  IsSequence(s \o t) /\ Len(s \o t) = Len(s) + Len(t)
<1> DEFINE S == {s[i] : i \in 1 .. Len(s)} \cup {t[i] : i \in 1 .. Len(t)}
<1>1. s \in Seq(S)
  <2>1. s \in [1 .. Len(s) -> S]
    BY DEF IsSequence
  <2>2. Len(s) \in Nat
    BY DEF IsSequence
  <2> HIDE DEF S
  <2> QED  BY <2>1, <2>2
<1>2. t \in Seq(S)
  <2>1. t \in [1 .. Len(t) -> S]
    BY DEF IsSequence
  <2>2. Len(t) \in Nat
    BY DEF IsSequence
  <2> HIDE DEF S
  <2> QED  BY <2>1, <2>2
<1> HIDE DEF S
<1>3. s \o t \in Seq(S) /\ Len(s \o t) = Len(s) + Len(t)
  BY <1>1, <1>2
<1>4. PICK u : u = s \o t
  OBVIOUS
<1>5. u \in Seq(S)
  BY <1>3, <1>4
<1>6. Len(u) \in Nat /\ u \in [1 .. Len(u) -> S]
  BY <1>5
<1>7. u = [i \in 1 .. Len(u) |-> u[i]]
  BY <1>6
<1>8. IsSequence(u)
  BY <1>6, <1>7 DEF IsSequence
<1> QED  BY <1>3, <1>4, <1>8

LEMMA SequenceLength ==
  ASSUME NEW s, IsSequence(s)
  PROVE  Len(s) \in Nat
BY DEF IsSequence

LEMMA EmptySequence == IsSequence(<<>>) /\ Len(<<>>) = 0
BY DEF IsSequence

\* The answers a peer has or that wait for it, and the commands it is owed one for.
AnswerInv ==
  /\ inbox \in [Peers -> Seq(Commands)]
  /\ sends \in [Peers -> Nat]
  /\ replies = [p \in Peers |-> replies[p]]
  /\ \A p \in Peers :
       /\ IsSequence(replies[p]) /\ IsSequence(client[p].result)
       /\ Len(replies[p]) + Len(client[p].result) <= sends[p] - Len(inbox[p])

\* Steps of one peer or its client, or of none.
LEMMA AnswersKept ==
  ASSUME AnswerInv, UNCHANGED <<inbox, sends, replies>>,
         \A p \in Peers : client'[p].result = client[p].result \/ client'[p].result = <<>>
  PROVE  AnswerInv'
<1>1. ASSUME NEW p \in Peers
      PROVE  /\ IsSequence(client'[p].result)
             /\ Len(client'[p].result) <= Len(client[p].result)
             /\ Len(client'[p].result) \in Nat
             /\ Len(client[p].result) \in Nat /\ Len(replies[p]) \in Nat
             /\ Len(replies[p]) + Len(client[p].result) <= sends[p] - Len(inbox[p])
             /\ sends[p] \in Nat /\ Len(inbox[p]) \in Nat
  <2>1. PICK before, after, written : /\ before = client[p].result
                                      /\ after = client'[p].result
                                      /\ written = replies[p]
    OBVIOUS
  <2>2. /\ IsSequence(before) /\ IsSequence(written)
        /\ Len(written) + Len(before) <= sends[p] - Len(inbox[p])
        /\ inbox[p] \in Seq(Commands) /\ sends[p] \in Nat
        /\ after = before \/ after = <<>>
    BY <2>1 DEF AnswerInv
  <2>3. IsSequence(after) /\ Len(before) \in Nat /\ Len(written) \in Nat
    BY <2>2, EmptySequence, SequenceLength
  <2>4. Len(after) \in Nat /\ Len(after) <= Len(before)
    <3>1. CASE after = before
      BY <2>3, <3>1
    <3>2. CASE after = <<>>
      BY <2>3, <3>2, EmptySequence
    <3> QED  BY <2>2, <3>1, <3>2
  <2>5. Len(inbox[p]) \in Nat
    BY <2>2
  <2> QED  BY <2>1, <2>2, <2>3, <2>4, <2>5
<1>2. ASSUME NEW p \in Peers
      PROVE  Len(replies[p]) + Len(client'[p].result) <= sends[p] - Len(inbox[p])
  <2>1. PICK before, after, written, sent, unread :
          /\ before = Len(client[p].result) /\ after = Len(client'[p].result)
          /\ written = Len(replies[p]) /\ sent = sends[p] /\ unread = Len(inbox[p])
    OBVIOUS
  <2>2. /\ before \in Nat /\ after \in Nat /\ written \in Nat /\ sent \in Nat /\ unread \in Nat
        /\ after <= before /\ written + before <= sent - unread
    BY <1>1, <2>1
  <2>3. written + after <= sent - unread
    BY <2>2
  <2> QED  BY <2>1, <2>3
<1> QED  BY <1>1, <1>2 DEF AnswerInv

LEMMA ReadAnswers ==
  ASSUME AnswerInv, TidyInv, NEW p \in Peers, NEW reply, IsSequence(reply), Len(reply) <= 1,
         inbox[p] # <<>>, Consume(p),
         NEW fd, NEW type, ClientIs(p, fd, type, client[p].result \o reply)
  PROVE  AnswerInv'
<1>1. /\ inbox' = [inbox EXCEPT ![p] = <<>>] /\ UNCHANGED <<sends, replies>>
      /\ client = [q \in Peers |-> client[q]]
  BY DEF Consume, TidyInv, ShapeInv
<1>2. PICK result : result = client[p].result \o reply
  OBVIOUS
<1>3. /\ client'[p].result = result
      /\ \A q \in Peers : q # p => client'[q] = client[q]
  BY <1>1, <1>2 DEF ClientIs
<1>4. IsSequence(result) /\ Len(result) = Len(client[p].result) + Len(reply)
  BY <1>2, ConcatLength DEF AnswerInv
<1>5. /\ inbox \in [Peers -> Seq(Commands)]
      /\ inbox' \in [Peers -> Seq(Commands)]
      /\ Len(inbox'[p]) = 0
      /\ \A q \in Peers : q # p => inbox'[q] = inbox[q]
  BY <1>1 DEF AnswerInv
<1>6. Len(inbox[p]) >= 1 /\ Len(inbox[p]) \in Nat
  BY <1>5
<1>7. Len(replies[p]) + Len(result) <= sends[p] - Len(inbox'[p])
  <2>1. /\ Len(replies[p]) + Len(client[p].result) <= sends[p] - Len(inbox[p])
        /\ Len(replies[p]) \in Nat /\ Len(client[p].result) \in Nat /\ sends[p] \in Nat
        /\ Len(reply) \in Nat
    BY SequenceLength DEF AnswerInv
  <2>2. PICK before, new, written, sent, unread :
          /\ before = Len(client[p].result) /\ new = Len(reply)
          /\ written = Len(replies[p]) /\ sent = sends[p] /\ unread = Len(inbox[p])
    OBVIOUS
  <2>3. /\ before \in Nat /\ new \in Nat /\ written \in Nat /\ sent \in Nat /\ unread \in Nat
        /\ new <= 1 /\ unread >= 1 /\ written + before <= sent - unread
    BY <1>6, <2>1, <2>2
  <2>4. written + (before + new) <= sent - 0
    BY <2>3
  <2> QED  BY <1>4, <1>5, <2>2, <2>4
<1> QED  BY <1>1, <1>3, <1>4, <1>5, <1>7 DEF AnswerInv

LEMMA AnswerStep == AnswerInv /\ IInv /\ [Next]_vars => AnswerInv'
<1> SUFFICES ASSUME AnswerInv, IInv, [Next]_vars
             PROVE  AnswerInv'
  OBVIOUS
<1>0. /\ client = [p \in Peers |-> client[p]]
      /\ \A p \in Peers : client[p] = [fd |-> client[p].fd, requestType |-> client[p].requestType,
                                       result |-> client[p].result]
  BY AlwaysHolds
<1>1. ASSUME UNCHANGED <<client, inbox, sends, replies>>
      PROVE  AnswerInv'
  BY <1>1, AnswersKept
<1>2. ASSUME NEW p \in Peers, Send(p)
      PROVE  AnswerInv'
  <2>1. PICK c \in Commands : inbox' = [inbox EXCEPT ![p] = Append(inbox[p], c)]
    BY <1>2 DEF Send
  <2>2. /\ sends' = [sends EXCEPT ![p] = sends[p] + 1] /\ UNCHANGED <<client, replies>>
        /\ inbox[p] \in Seq(Commands)
    BY <1>2 DEF Send, AnswerInv
  <2>3. Append(inbox[p], c) \in Seq(Commands) /\ Len(Append(inbox[p], c)) = Len(inbox[p]) + 1
    BY <2>2
  <2>4. /\ inbox' \in [Peers -> Seq(Commands)] /\ sends' \in [Peers -> Nat]
        /\ Len(inbox'[p]) = Len(inbox[p]) + 1 /\ sends'[p] = sends[p] + 1
        /\ \A q \in Peers : q # p => inbox'[q] = inbox[q] /\ sends'[q] = sends[q]
    BY <2>1, <2>2, <2>3 DEF AnswerInv
  <2>5. sends'[p] - Len(inbox'[p]) = sends[p] - Len(inbox[p])
    BY <2>2, <2>4 DEF AnswerInv
  <2> QED  BY <2>2, <2>4, <2>5 DEF AnswerInv
<1>3. ASSUME NEW e, HandleRead(e)
      PROVE  AnswerInv'
  <2>0. TidyInv
    BY <1>3, ReadsWhenTidy
  <2>1. CASE NoRead(e) \/ AcceptFails(e)
    BY <1>1, <2>1 DEF NoRead, AcceptFails, peerVars
  <2>2. CASE Accept(e)
    <3>1. PICK p, fd : client' = [client EXCEPT ![p] = NewClient(fd)]
      BY <2>2 DEF Accept, AddClient
    <3>2. NewClient(fd).result = <<>>
      BY DEF NewClient
    <3>3. UNCHANGED <<inbox, sends, replies>>
      BY <2>2 DEF Accept
    <3> QED  BY <1>0, <3>1, <3>2, <3>3, AnswersKept
  <2>3. ASSUME NEW p \in Peers, ReadCommand(e, p)
        PROVE  AnswerInv'
    <3>1. PICK reply : reply = Answer(Text(p))
      OBVIOUS
    <3>2. IsSequence(reply) /\ Len(reply) <= 1
      BY <3>1 DEF Answer, IsSequence
    <3>3. ReadsFrom(e, p) /\ inbox[p] # <<>> /\ Consume(p) /\ ArmReply(p, e.fd, reply)
      BY <2>3, <3>1 DEF ReadCommand
    <3>4. PICK type : ClientIs(p, e.fd, type, client[p].result \o reply)
      BY <2>0, <3>3, ReadsAt, RepliedTo
    <3> QED  BY <2>0, <3>2, <3>3, <3>4, ReadAnswers
  <2>4. ASSUME NEW p \in Peers, ReadBulk(e, p)
        PROVE  AnswerInv'
    <3>1. PICK reply : reply = <<>>
      OBVIOUS
    <3>2. IsSequence(reply) /\ Len(reply) <= 1
      BY <3>1 DEF IsSequence
    <3>3. ReadsFrom(e, p) /\ inbox[p] # <<>> /\ Consume(p) /\ ArmReply(p, e.fd, reply)
      BY <2>4, <3>1 DEF ReadBulk
    <3>4. PICK type : ClientIs(p, e.fd, type, client[p].result \o reply)
      BY <2>0, <3>3, ReadsAt, RepliedTo
    <3> QED  BY <2>0, <3>2, <3>3, <3>4, ReadAnswers
  <2>5. ASSUME NEW p \in Peers, ReadOneWord(e, p)
        PROVE  AnswerInv'
    <3>1. inbox[p] # <<>> /\ Consume(p) /\ client' = client
      BY <2>5 DEF ReadOneWord
    <3>2. PICK reply : reply = <<>>
      OBVIOUS
    <3>3. IsSequence(reply) /\ Len(reply) <= 1
      BY <3>2 DEF IsSequence
    <3>4. client[p].result \o reply = client[p].result
      <4>1. client[p].result \in Seq({client[p].result[i] : i \in 1 .. Len(client[p].result)})
        <5>1. PICK s : s = client[p].result /\ IsSequence(s)
          BY DEF AnswerInv
        <5>2. PICK S : S = {s[i] : i \in 1 .. Len(s)}
          OBVIOUS
        <5>3. s \in [1 .. Len(s) -> S] /\ Len(s) \in Nat
          BY <5>1, <5>2 DEF IsSequence
        <5>4. s \in Seq(S)
          BY <5>3
        <5> QED  BY <5>1, <5>2, <5>4
      <4> QED  BY <3>2, <4>1
    <3>5. ClientIs(p, client[p].fd, client[p].requestType, client[p].result \o reply)
      BY <1>0, <3>1, <3>4 DEF ClientIs
    <3> QED  BY <2>0, <3>1, <3>3, <3>5, ReadAnswers
  <2>6. ASSUME NEW p \in Peers, ReadError(e, p)
        PROVE  AnswerInv'
    BY <1>1, <2>6 DEF ReadError
  <2>7. ASSUME NEW p \in Peers, ReadEof(e, p)
        PROVE  AnswerInv'
    BY <1>1, <2>7 DEF ReadEof, peerVars
  <2> QED  BY <1>3, <2>1, <2>2, <2>3, <2>4, <2>5, <2>6, <2>7 DEF HandleRead, ReadQuery
<1>4. ASSUME HandleWrite
      PROVE  AnswerInv'
  <2>1. ASSUME NEW p \in Peers, WriteReply(p)
        PROVE  AnswerInv'
    <3>1. PICK result : result = client[p].result
      OBVIOUS
    <3>2. /\ replies' = [replies EXCEPT ![p] = replies[p] \o result]
          /\ client' = [client EXCEPT ![p].result = <<>>]
          /\ UNCHANGED <<inbox, sends>>
      BY <2>1, <3>1 DEF WriteReply, Sent, CallsWrite, WriteStep
    <3>3. /\ client'[p].result = <<>>
          /\ \A q \in Peers : q # p => client'[q] = client[q]
      BY <1>0, <3>2
    <3>4. /\ IsSequence(replies[p] \o result)
          /\ Len(replies[p] \o result) = Len(replies[p]) + Len(result)
      BY <3>1, ConcatLength DEF AnswerInv
    <3>5. /\ replies' = [q \in Peers |-> replies'[q]]
          /\ replies'[p] = replies[p] \o result
          /\ \A q \in Peers : q # p => replies'[q] = replies[q]
      BY <3>2 DEF AnswerInv
    <3>6. IsSequence(<<>>) /\ Len(<<>>) = 0
      BY DEF IsSequence
    <3>7. Len(replies'[p]) + Len(client'[p].result) <= sends[p] - Len(inbox[p])
      <4>1. /\ Len(replies[p]) + Len(result) <= sends[p] - Len(inbox[p])
            /\ Len(replies[p]) \in Nat /\ Len(result) \in Nat
        BY <3>1 DEF AnswerInv, IsSequence
      <4> QED  BY <3>3, <3>4, <3>5, <3>6, <4>1
    <3> QED  BY <3>2, <3>3, <3>4, <3>5, <3>6, <3>7 DEF AnswerInv
  <2>2. ASSUME NEW p \in Peers, WriteUnread(p) \/ WriteError(p)
        PROVE  AnswerInv'
    <3>1. client' = [client EXCEPT ![p].result = <<>>] /\ UNCHANGED <<inbox, sends, replies>>
      BY <2>2 DEF WriteUnread, WriteError, Sent, CallsWrite, WriteStep
    <3>2. \A q \in Peers : client'[q].result = client[q].result \/ client'[q].result = <<>>
      BY <1>0, <3>1
    <3> QED  BY <3>1, <3>2, AnswersKept
  <2>3. CASE NoWrite \/ CallEmptyWrite \/ \E p \in Peers : WriteBrokenPipe(p) \/ NothingToWrite(p)
    BY <1>1, <2>3 DEF NoWrite, CallEmptyWrite, WriteBrokenPipe, NothingToWrite, CallsWrite, WriteStep
  <2> QED  BY <1>4, <2>1, <2>2, <2>3 DEF HandleWrite
<1>5. CASE Free
  <2>1. PICK p \in Peers : client' = [client EXCEPT ![p] = NoClient]
    BY <1>5 DEF Free, ClientsOf, Listed
  <2>2. UNCHANGED <<inbox, sends, replies>>
    BY <1>5 DEF Free, peerVars
  <2>3. NoClient.result = <<>>
    BY DEF NoClient, NewClient
  <2> QED  BY <1>0, <2>1, <2>2, <2>3, AnswersKept
<1>6. CASE Start \/ Poll \/ CloseFd \/ (\E p \in Peers : Connect(p) \/ Leave(p)) \/ UNCHANGED vars
  BY <1>1, <1>6 DEF Start, Poll, CloseFd, Connect, Leave, peerVars, vars
<1> QED  BY <1>2, <1>3, <1>4, <1>5, <1>6 DEF Next, ServerNext, PeerNext

LEMMA AnswerStart ==
  ASSUME Init
  PROVE  AnswerInv
<1>1. IsSequence(<<>>) /\ Len(<<>>) = 0 /\ <<>> \in Seq(Commands)
  BY DEF IsSequence
<1>2. NoClient.result = <<>>
  BY DEF NoClient, NewClient
<1>3. QED
  BY <1>1, <1>2 DEF Init, AnswerInv

\* client.hpp lines 183-229: whatever fails, arrives together or is written
\* together, no peer gets more answers than it has sent commands that were read.
THEOREM NoExtraAnswerCorrect ==
  ASSUME StaleMasks \subseteq {{}}
  PROVE  Spec => []NoExtraAnswer
<1>1. Init => AnswerInv
  BY AnswerStart
<1>2. AnswerInv => NoExtraAnswer
  <2> SUFFICES ASSUME AnswerInv, NEW p \in Peers
               PROVE  Len(replies[p]) + (IF p \in Listed THEN Len(client[p].result) ELSE 0)
                        <= sends[p] - Len(inbox[p])
    BY DEF NoExtraAnswer
  <2>1. /\ Len(replies[p]) + Len(client[p].result) <= sends[p] - Len(inbox[p])
        /\ Len(replies[p]) \in Nat /\ Len(client[p].result) \in Nat
        /\ sends[p] \in Nat
    BY SequenceLength DEF AnswerInv
  <2>2. Len(inbox[p]) \in Nat
    <3>1. inbox[p] \in Seq(Commands)
      BY DEF AnswerInv
    <3> QED  BY <3>1
  <2>3. PICK kept, written, sent, unread :
          /\ kept = Len(client[p].result) /\ written = Len(replies[p])
          /\ sent = sends[p] /\ unread = Len(inbox[p])
    OBVIOUS
  <2>4. /\ kept \in Nat /\ written \in Nat /\ sent \in Nat /\ unread \in Nat
        /\ written + kept <= sent - unread
    BY <2>1, <2>2, <2>3
  <2>5. written + 0 <= sent - unread
    BY <2>4
  <2> QED  BY <2>3, <2>4, <2>5
<1> QED  BY <1>1, <1>2, AnswerStep, Invariant, PTL DEF Spec
-----------------------------------------------------------------------------
(* Peers that wait for each answer *)

WholeCommands ==
  {<<"set", k, v>> : k \in Keys, v \in Values} \cup {<<"get", k>> : k \in Keys}
    \cup {<<"other">>}

\* What StaysUp and ImplementsTable are promised to.
PatientPeers == ClosedLoop /\ Commands \subseteq WholeCommands /\ StaleMasks \subseteq {{}}

\* A peer has at most one command under way, and none when it has left.
OneAtATimeInv ==
  \A p \in Peers :
    /\ sends[p] <= Len(replies[p]) + 1
    /\ stream[p] \notin {"none", "open"} => sends[p] = Len(replies[p])

\* A write handler is armed only while there is a reply to write.
ArmedInv ==
  /\ \A p \in Peers : client[p].requestType # "bulk"
  /\ \A p \in Listed : "Write" \in reactor.mask[client[p].fd] => client[p].result # <<>>
  /\ "Write" \notin reactor.mask[ListenFd]

\* What is about to be called for writing has a reply to write.
CurrentInv ==
  /\ step = "write" /\ "Write" \in current.events =>
       \E p \in Listed : client[p].fd = current.fd /\ client[p].result # <<>>
  /\ step \in {"close", "free"} => "Write" \notin current.events

ClosedRest == fate = "running" /\ OneAtATimeInv /\ ArmedInv /\ CurrentInv

PatientInv == IInv /\ AnswerInv /\ ClosedRest

\* The same where nothing is left to tidy up.
ClosedInv ==
  /\ TidyInv /\ AnswerInv
  /\ fate = "running"
  /\ OneAtATimeInv /\ ArmedInv /\ CurrentInv

LEMMA PatientIsClosed ==
  ASSUME PatientInv, step # "free"
  PROVE  ClosedInv
BY DEF PatientInv, ClosedRest, IInv, ClosedInv

\* The command a peer waits on is unread, or answered by a reply not yet written.
LEMMA UnderWay ==
  ASSUME AnswerInv, OneAtATimeInv, NEW p \in Peers
  PROVE  /\ inbox[p] \in Seq(Commands)
         /\ inbox[p] # <<>> => /\ client[p].result = <<>> /\ Len(inbox[p]) = 1
                               /\ stream[p] \in {"none", "open"}
         /\ client[p].result # <<>> => stream[p] \in {"none", "open"}
         /\ sends[p] = Len(replies[p]) => inbox[p] = <<>> /\ client[p].result = <<>>
<1>1. PICK result, written, unread, sent : /\ result = client[p].result /\ written = replies[p]
                                           /\ unread = inbox[p] /\ sent = sends[p]
  OBVIOUS
<1>2. /\ IsSequence(result) /\ IsSequence(written) /\ unread \in Seq(Commands) /\ sent \in Nat
      /\ Len(written) + Len(result) <= sent - Len(unread)
      /\ sent <= Len(written) + 1
      /\ stream[p] \notin {"none", "open"} => sent = Len(written)
  BY <1>1 DEF AnswerInv, OneAtATimeInv
<1>3. PICK r, w, u : r = Len(result) /\ w = Len(written) /\ u = Len(unread)
  OBVIOUS
<1>4. r \in Nat /\ w \in Nat /\ u \in Nat
  BY <1>2, <1>3, SequenceLength
<1>5. /\ r + u <= 1
      /\ sent = w => r = 0 /\ u = 0
  BY <1>2, <1>3, <1>4
<1>6. r = 0 => result = <<>>
  <2>1. r = 0 => result = [i \in 1 .. 0 |-> result[i]]
    BY <1>2, <1>3 DEF IsSequence
  <2>2. [i \in 1 .. 0 |-> result[i]] = <<>>
    OBVIOUS
  <2>3. QED
    BY <2>1, <2>2
<1>7. u = 0 <=> unread = <<>>
  BY <1>2, <1>3
<1>8. result = <<>> => r = 0
  BY <1>3
<1>9. /\ unread # <<>> => result = <<>> /\ u = 1 /\ sent # w
      /\ result # <<>> => sent # w
      /\ sent = w => unread = <<>> /\ result = <<>>
  BY <1>4, <1>5, <1>6, <1>7, <1>8
<1>10. QED
  BY <1>1, <1>2, <1>3, <1>9

\* The descriptor of a client is its own.
LEMMA OneClient ==
  ASSUME TidyInv, NEW p \in Listed, NEW q \in Listed, client[p].fd = client[q].fd
  PROVE  p = q
BY DEF TidyInv, ListInv

\* An event that leads to a write is that of a client with a reply.
LEMMA ToWrite ==
  ASSUME ClosedInv, NEW e, Dispatch(e), "Write" \in EventsToHandle(e)
  PROVE  \E p \in Listed : client[p].fd = e.fd /\ client[p].result # <<>>
<1>1. e \in fired /\ e \in Event
  BY Dispatched DEF ClosedInv
<1>2. e.fd \in Descriptors /\ "Write" \in reactor.polled[e.fd]
  BY <1>1 DEF Event, EventsToHandle
<1>3. "Write" \in reactor.mask[e.fd]
  BY <1>2 DEF ClosedInv, TidyInv, Sound, Agrees, Watched
<1>4. e.fd # ListenFd
  BY <1>3 DEF ClosedInv, ArmedInv
<1>5. e.fd \in Fds /\ owner[e.fd] # Nobody
  BY <1>1, <1>2, <1>4 DEF Fds, ClosedInv, TidyInv, FiredInv
<1>6. owner[e.fd] \in Listed /\ client[owner[e.fd]].fd = e.fd
  BY <1>5 DEF ClosedInv, TidyInv, ListInv
<1>7. client[owner[e.fd]].result # <<>>
  BY <1>3, <1>6 DEF ClosedInv, ArmedInv
<1>8. QED
  BY <1>6, <1>7

\* A descriptor that is read has no reply to write: its peer was waiting for none.
LEMMA ReadsOrWrites ==
  ASSUME ClosedInv, NEW e, NEW handler, CallsRead(e, handler)
  PROVE  CurrentInv'
<1>1. Dispatch(e) /\ "Read" \in EventsToHandle(e)
  BY DEF CallsRead
<1>2. "Write" \notin EventsToHandle(e)
  <2>1. SUFFICES ASSUME "Write" \in EventsToHandle(e)
                 PROVE  FALSE
    OBVIOUS
  <2>2. PICK p \in Listed : client[p].fd = e.fd /\ client[p].result # <<>>
    BY <1>1, <2>1, ToWrite
  <2>3. e.fd \in Fds /\ e.fd # ListenFd /\ owner[e.fd] = p /\ stream[p] # "none" /\ p \in Peers
    BY <2>2 DEF ClosedInv, TidyInv, ListInv, Listed, Fds
  <2>4. e \in fired /\ "Read" \in e.events
    BY <1>1 DEF Dispatch, EventsToHandle
  <2>5. ReadReady(e.fd)
    BY <2>4 DEF ClosedInv, TidyInv, FiredInv
  <2>6. inbox[p] # <<>> \/ stream[p] # "open"
    BY <2>3, <2>5 DEF ReadReady
  <2>7. QED
    BY <2>2, <2>3, <2>6, UnderWay DEF ClosedInv
<1>3. "Write" \notin current'.events
  BY <1>1, <1>2 DEF Dispatch
<1>4. QED
  BY <1>3 DEF CurrentInv

-----------------------------------------------------------------------------
(* What patient peers rule out *)

\* The text that is read is the one command that was sent.
LEMMA FoldOfNothing ==
  ASSUME NEW base
  PROVE  FoldLeft(Merge, base, <<>>) = base
<1> DEFINE D == DOMAIN <<>>
           P(g) == g = [s \in SUBSET D |->
                          IF s = {} THEN base ELSE Merge(g[s \ {Max(s)}], <<>>[Max(s)])]
<1>1. SUBSET D = {{}} /\ D = {}
  OBVIOUS
<1>2. P([s \in SUBSET D |-> base])
  BY <1>1
<1>3. \E g : P(g)
  BY <1>2
<1>4. FoldLeft(Merge, base, <<>>) = (CHOOSE g : P(g))[D]
  BY DEF FoldLeft, MapThenFoldSet
<1>5. P(CHOOSE g : P(g))
  BY <1>3
<1>6. QED
  BY <1>5, <1>1, <1>4

LEMMA WholeText ==
  ASSUME ClosedInv, PatientPeers, NEW p \in Peers, inbox[p] # <<>>
  PROVE  /\ Text(p) = Head(inbox[p]) /\ Text(p) \in WholeCommands
         /\ ~OneWord(Text(p)) /\ RequestType(p) # "bulk"
<1>1. inbox[p] \in Seq(Commands) /\ Len(inbox[p]) = 1
  BY UnderWay DEF ClosedInv
<1>2. Tail(inbox[p]) = <<>> /\ Head(inbox[p]) \in Commands
  <2>1. PICK s : s = inbox[p] /\ s \in Seq(Commands) /\ Len(s) = 1 /\ s # <<>>
    BY <1>1
  <2>2. Tail(s) \in Seq(Commands) /\ Len(Tail(s)) = 0 /\ Head(s) \in Commands
    BY <2>1
  <2>3. \A t \in Seq(Commands) : Len(t) = 0 => t = <<>>
    OBVIOUS
  <2>4. QED
    BY <2>1, <2>2, <2>3
<1>3. Text(p) = Head(inbox[p]) /\ Text(p) \in WholeCommands
  BY <1>2, FoldOfNothing DEF Text, PatientPeers
<1>4. \A c \in WholeCommands : c[1] \in {"set", "get", "other"}
  BY DEF WholeCommands
<1>5. ~OneWord(Text(p)) /\ Head(inbox[p])[1] # "bulk"
  BY <1>3, <1>4 DEF OneWord
<1>6. RequestType(p) # "bulk"
  BY <1>5 DEF RequestType, ClosedInv, ArmedInv
<1>7. QED
  BY <1>3, <1>5, <1>6

\* No command hangs the server or is left unread.
LEMMA NothingUnreadable ==
  ASSUME ClosedInv, PatientPeers, NEW e, NEW p \in Peers, ReadOneWord(e, p) \/ ReadBulk(e, p)
  PROVE  FALSE
BY WholeText DEF ReadOneWord, ReadBulk

\* The handler that is called for writing is there, has a reply, and writes it to
\* an open connection.
LEMMA WritesReply ==
  ASSUME ClosedInv, NEW handler, CallsWrite(handler)
  PROVE  \E p \in Listed : /\ handler = p /\ client[p].fd = current.fd /\ p # NoHandler
                           /\ client[p].result # <<>> /\ stream[p] = "open"
<1>1. /\ step = "write" /\ "Write" \in current.events
      /\ reactor.writeHandler[current.fd] = handler
  BY DEF CallsWrite, WriteStep
<1>2. PICK p \in Listed : client[p].fd = current.fd /\ client[p].result # <<>>
  BY <1>1 DEF ClosedInv, CurrentInv
<1>3. handler = p
  BY <1>1, <1>2 DEF ClosedInv, TidyInv, ReplyInv, ReplyReady
<1>4. p \in Peers /\ stream[p] # "none"
  BY DEF ClosedInv, TidyInv, ListInv, Listed
<1>5. p # NoHandler
  BY <1>4, Names
<1>6. stream[p] = "open"
  BY <1>2, <1>4, UnderWay DEF ClosedInv
<1>7. QED
  BY <1>2, <1>3, <1>5, <1>6

LEMMA NothingLost ==
  ASSUME ClosedInv, CallEmptyWrite \/ \E p \in Peers : \/ WriteUnread(p) \/ WriteError(p)
                                                       \/ WriteBrokenPipe(p) \/ NothingToWrite(p)
  PROVE  FALSE
<1>1. CASE CallEmptyWrite
  BY <1>1, WritesReply DEF CallEmptyWrite
<1>2. ASSUME NEW p \in Peers,
             WriteUnread(p) \/ WriteError(p) \/ WriteBrokenPipe(p) \/ NothingToWrite(p)
      PROVE  FALSE
  <2>1. CallsWrite(p) /\ (stream[p] # "open" \/ client[p].result = <<>>)
    BY <1>2 DEF WriteUnread, WriteError, WriteBrokenPipe, NothingToWrite
  <2>2. QED
    BY <2>1, WritesReply
<1>3. QED
  BY <1>1, <1>2

-----------------------------------------------------------------------------
(* Every step preserves the rest of the invariant *)

\* A step of the server that answers nobody.
LEMMA OneAtATimeKept ==
  ASSUME OneAtATimeInv, UNCHANGED <<sends, replies>>,
         \A p \in Peers : stream'[p] = stream[p] \/ stream[p] \notin {"none", "open"}
                            \/ stream'[p] = "open"
  PROVE  OneAtATimeInv'
BY DEF OneAtATimeInv

LEMMA ArmedKept ==
  ASSUME ArmedInv, UNCHANGED client, reactor'.mask = reactor.mask
  PROVE  ArmedInv'
BY DEF ArmedInv, Listed

LEMMA PeersRest ==
  ASSUME PatientInv, PatientPeers, PeerNext
  PROVE  ClosedRest'
<1>1. UNCHANGED <<client, reactor, fate, step, current, replies>>
  BY DEF PeerNext, Connect, Send, Leave
<1>2. fate' = "running" /\ ArmedInv' /\ CurrentInv'
  BY <1>1, ArmedKept DEF PatientInv, ClosedRest, CurrentInv, Listed
<1>3. stream = [q \in Peers |-> stream[q]] /\ sends \in [Peers -> Nat]
  BY AlwaysHolds DEF PatientInv, NetworkInv, ShapeInv, AnswerInv
<1>4. ASSUME NEW p \in Peers, Connect(p)
      PROVE  OneAtATimeInv'
  BY <1>3, <1>4, OneAtATimeKept DEF Connect, PatientInv, ClosedRest
<1>5. ASSUME NEW p \in Peers, Send(p)
      PROVE  OneAtATimeInv'
  <2>1. /\ stream[p] = "open" /\ sends' = [sends EXCEPT ![p] = sends[p] + 1]
        /\ UNCHANGED <<stream, replies>> /\ Len(replies[p]) = sends[p]
    BY <1>5 DEF Send, Idle, PatientPeers
  <2>2. QED
    BY <1>3, <2>1 DEF PatientInv, ClosedRest, OneAtATimeInv
<1>6. ASSUME NEW p \in Peers, Leave(p)
      PROVE  OneAtATimeInv'
  <2>1. PICK how : stream' = [stream EXCEPT ![p] = how]
    BY <1>6 DEF Leave
  <2>2. UNCHANGED <<sends, replies>> /\ Len(replies[p]) = sends[p]
    BY <1>6 DEF Leave, Idle, PatientPeers
  <2>3. QED
    BY <1>3, <2>1, <2>2 DEF PatientInv, ClosedRest, OneAtATimeInv
<1>7. OneAtATimeInv'
  BY <1>4, <1>5, <1>6 DEF PeerNext
<1>8. QED
  BY <1>2, <1>7 DEF ClosedRest

LEMMA StartRest ==
  ASSUME ClosedInv, Start
  PROVE  ClosedRest'
<1>1. /\ reactor' = AddEventListener(reactor, ListenFd, "Read", "accept")
      /\ UNCHANGED <<fate, client, stream, sends, replies>> /\ step' = "poll"
  BY DEF Start, peerVars
<1>2. Sound(reactor) /\ reactor \in Reactors
  BY DEF ClosedInv, TidyInv, Sound
<1>3. ListenerAddedTo(reactor, ListenFd, "Read", "accept", reactor')
  BY <1>1, <1>2, AddIsSound, Names
<1>4. /\ reactor'.mask[ListenFd] = reactor.mask[ListenFd] \cup {"Read"}
      /\ \A d \in Descriptors : d # ListenFd => SameAt(reactor', reactor, d)
  BY <1>2, <1>3, AddedAt, Names
<1>5. \A p \in Listed : reactor'.mask[client[p].fd] = reactor.mask[client[p].fd]
  BY <1>4 DEF SameAt, ClosedInv, TidyInv, ListInv, Fds
<1>6. ArmedInv'
  BY <1>1, <1>4, <1>5 DEF ClosedInv, ArmedInv, Listed
<1>7. OneAtATimeInv' /\ CurrentInv' /\ fate' = "running"
  BY <1>1 DEF ClosedInv, OneAtATimeInv, CurrentInv
<1>8. QED
  BY <1>6, <1>7 DEF ClosedRest

LEMMA PollRest ==
  ASSUME ClosedInv, Poll
  PROVE  ClosedRest'
BY ArmedKept DEF Poll, peerVars, ClosedInv, ClosedRest, OneAtATimeInv, CurrentInv

\* A fired descriptor whose read handler is not called, or cannot accept.
LEMMA IdleReadRest ==
  ASSUME ClosedInv, NEW e, NoRead(e) \/ AcceptFails(e)
  PROVE  ClosedRest'
<1>1. /\ Dispatch(e)
      /\ UNCHANGED <<reactor, fate, client, stream, sends, replies>>
      /\ step' = "write"
  BY DEF NoRead, AcceptFails, CallsRead, Returned, peerVars
<1>2. ArmedInv' /\ OneAtATimeInv' /\ fate' = "running"
  BY <1>1, ArmedKept DEF ClosedInv, OneAtATimeInv
<1>3. CurrentInv'
  <2>1. current'.fd = e.fd /\ current'.events = EventsToHandle(e)
    BY <1>1 DEF Dispatch
  <2>2. Listed' = Listed
    BY <1>1 DEF Listed
  <2>3. QED
    BY <1>1, <2>1, <2>2, ToWrite DEF CurrentInv
<1>4. QED
  BY <1>2, <1>3 DEF ClosedRest

\* What a read or write step of client p, which has descriptor d, leaves of the
\* other clients' masks.
OthersMasksKept(p) ==
  \A q \in Listed' : q # p =>
    /\ q \in Listed /\ client'[q] = client[q]
    /\ reactor'.mask[client[q].fd] = reactor.mask[client[q].fd]

LEMMA ArmedStep ==
  ASSUME ArmedInv, NEW p \in Peers, OthersMasksKept(p),
         \A q \in Peers : q # p => client'[q] = client[q],
         client'[p].requestType # "bulk",
         p \in Listed' /\ "Write" \in reactor'.mask[client'[p].fd] => client'[p].result # <<>>,
         reactor'.mask[ListenFd] = reactor.mask[ListenFd]
  PROVE  ArmedInv'
<1>1. \A q \in Peers : client'[q].requestType # "bulk"
  BY DEF ArmedInv
<1>2. ASSUME NEW q \in Listed', "Write" \in reactor'.mask[client'[q].fd]
      PROVE  client'[q].result # <<>>
  <2>1. CASE q = p
    BY <1>2, <2>1
  <2>2. CASE q # p
    BY <1>2, <2>2 DEF OthersMasksKept, ArmedInv
  <2>3. QED
    BY <2>1, <2>2
<1>3. QED
  BY <1>1, <1>2 DEF ArmedInv

LEMMA OthersMasks ==
  ASSUME TidyInv, NEW p \in Peers, NEW d \in Descriptors,
         \A q \in Peers : q # p => client'[q] = client[q],
         d \in Fds => owner[d] \in {p, Nobody},
         \A f \in Descriptors : f # d => SameAt(reactor', reactor, f)
  PROVE  OthersMasksKept(p)
<1>1. SUFFICES ASSUME NEW q \in Listed', q # p
               PROVE  /\ q \in Listed /\ client'[q] = client[q]
                      /\ reactor'.mask[client[q].fd] = reactor.mask[client[q].fd]
  BY DEF OthersMasksKept
<1>2. q \in Peers /\ client'[q] = client[q] /\ q \in Listed
  BY <1>1 DEF Listed
<1>3. client[q].fd \in Fds /\ owner[client[q].fd] = q /\ q # Nobody
  BY <1>2, PeersAssumption DEF TidyInv, ListInv
<1>4. client[q].fd # d /\ client[q].fd \in Descriptors
  BY <1>1, <1>3 DEF Fds
<1>5. QED
  BY <1>2, <1>4 DEF SameAt

LEMMA AcceptRest ==
  ASSUME ClosedInv, NEW e, Accept(e)
  PROVE  ClosedRest'
<1>1. PICK fd \in FreeFds : /\ owner' = [owner EXCEPT ![fd] = Head(backlog)]
                            /\ AddClient(Head(backlog), fd)
  BY DEF Accept
<1>2. PICK p \in Peers : p = Head(backlog)
  <2>1. backlog \in Seq(Peers) /\ backlog # <<>>
    BY DEF Accept, ClosedInv, TidyInv, ShapeInv
  <2>2. QED
    BY <2>1
<1>3. /\ client' = [client EXCEPT ![p] = NewClient(fd)]
      /\ reactor' = AddEventListener(reactor, fd, "Read", "client")
      /\ AddSucceeds(reactor, fd) => fate' = fate
      /\ UNCHANGED <<stream, sends, replies>> /\ CallsRead(e, "accept")
  BY <1>1, <1>2 DEF Accept, AddClient
<1>4. /\ fd \in Fds /\ fd \in Descriptors /\ fd # ListenFd /\ owner[fd] = Nobody
      /\ client = [q \in Peers |-> client[q]]
      /\ Sound(reactor) /\ reactor \in Reactors /\ reactor.mask[fd] = {}
  BY <1>1 DEF FreeFds, Fds, ClosedInv, TidyInv, ShapeInv, HandlersInv, OwnerHandles, ListenerInv, Sound
<1>5. /\ AddSucceeds(reactor, fd)
      /\ ListenerAddedTo(reactor, fd, "Read", "client", reactor')
  BY <1>3, <1>4, AddIsSound, Names
<1>6. /\ reactor'.mask[fd] = {"Read"}
      /\ \A d \in Descriptors : d # fd => SameAt(reactor', reactor, d)
  BY <1>4, <1>5, AddedAt
<1>7. /\ client'[p] = NewClient(fd)
      /\ \A q \in Peers : q # p => client'[q] = client[q]
  BY <1>3, <1>4
<1>8. client'[p].fd = fd /\ client'[p].requestType = "initial"
  BY <1>7 DEF NewClient
<1>9. OthersMasksKept(p)
  BY <1>4, <1>6, <1>7, OthersMasks DEF ClosedInv
<1>10. reactor'.mask[ListenFd] = reactor.mask[ListenFd]
  BY <1>4, <1>6, Names DEF SameAt
<1>11. ArmedInv'
  BY <1>6, <1>7, <1>8, <1>9, <1>10, ArmedStep DEF ClosedInv
<1>12. OneAtATimeInv' /\ CurrentInv' /\ fate' = "running"
  BY <1>3, <1>5, ReadsOrWrites, OneAtATimeKept DEF ClosedInv
<1>13. QED
  BY <1>11, <1>12 DEF ClosedRest

\* The answer to the one command that was read is the whole reply.
LEMMA CommandRead ==
  ASSUME ClosedInv, PatientPeers, NEW e, NEW p \in Peers, ReadCommand(e, p)
  PROVE  \E reply, c :
           /\ inbox[p] # <<>> /\ c = Head(inbox[p]) /\ c \in WholeCommands
           /\ reply = Answer(c) /\ store' = StoreAfter(c)
           /\ client[p].result = <<>> /\ p \in Listed /\ client[p].fd = e.fd
           /\ ClientIs(p, e.fd, "inline", reply)
           /\ reactor' = IF reply = <<>> THEN reactor
                         ELSE AddEventListener(reactor, e.fd, "Write", p)
<1>1. PICK reply, c : /\ c = Text(p) /\ reply = Answer(c)
                      /\ ReadsFrom(e, p) /\ inbox[p] # <<>> /\ ArmReply(p, e.fd, reply)
                      /\ RequestType(p) = "inline" /\ store' = StoreAfter(c)
  BY DEF ReadCommand
<1>2. c = Head(inbox[p]) /\ c \in WholeCommands
  BY <1>1, WholeText
<1>3. p \in Listed /\ client[p].fd = e.fd /\ client[p].result = <<>>
  BY <1>1, ReadsAt, UnderWay DEF ClosedInv
<1>4. ClientIs(p, e.fd, RequestType(p), client[p].result \o reply)
  BY <1>1, <1>3, RepliedTo DEF ClosedInv
<1>5. client[p].result \o reply = reply
  <2>1. PICK empty : empty = client[p].result /\ empty = <<>>
    BY <1>3
  <2>2. reply = <<>> \/ \E w : reply = <<w>>
    BY <1>1 DEF Answer
  <2>3. <<>> \o reply = reply
    BY <2>2
  <2>4. QED
    BY <2>1, <2>3
<1>6. reactor' = IF reply = <<>> THEN reactor ELSE AddEventListener(reactor, e.fd, "Write", p)
  BY <1>1 DEF ArmReply, Arms
<1>7. QED
  BY <1>1, <1>2, <1>3, <1>4, <1>5, <1>6

LEMMA ReadCommandRest ==
  ASSUME ClosedInv, PatientPeers, NEW e, NEW p \in Peers, ReadCommand(e, p)
  PROVE  ClosedRest'
<1>1. PICK reply :
        /\ ClientIs(p, e.fd, "inline", reply) /\ client[p].result = <<>>
        /\ reactor' = IF reply = <<>> THEN reactor
                      ELSE AddEventListener(reactor, e.fd, "Write", p)
  BY CommandRead
<1>2. /\ ReadsFrom(e, p) /\ UNCHANGED <<fate, stream, sends, replies>>
      /\ CallsRead(e, "client")
  BY DEF ReadCommand, Consume, ReadsFrom
<1>3. /\ p \in Listed /\ e.fd \in Fds /\ e.fd \in Descriptors /\ e.fd # ListenFd
      /\ client[p].fd = e.fd /\ owner[e.fd] = p
      /\ Sound(reactor) /\ reactor \in Reactors
  BY <1>2, ReadsAt DEF ClosedInv, Fds, Sound
<1>4. client = [q \in Peers |-> client[q]]
  BY DEF ClosedInv, TidyInv, ShapeInv
<1>5. /\ client'[p] = [fd |-> e.fd, requestType |-> "inline", result |-> reply]
      /\ \A q \in Peers : q # p => client'[q] = client[q]
  BY <1>1, <1>4 DEF ClientIs
<1>6. /\ \A f \in Descriptors : f # e.fd => SameAt(reactor', reactor, f)
      /\ reply = <<>> => reactor' = reactor
  <2>1. CASE reply = <<>>
    BY <1>1, <2>1 DEF SameAt
  <2>2. CASE reply # <<>>
    <3>1. reactor' = AddEventListener(reactor, e.fd, "Write", p) /\ p \in Handlers
      BY <1>1, <2>2, Names
    <3>2. ListenerAddedTo(reactor, e.fd, "Write", p, reactor')
      BY <1>3, <3>1, AddIsSound, Names
    <3>3. QED
      BY <1>3, <2>2, <3>2, AddedAt
  <2>3. QED
    BY <2>1, <2>2
<1>7. reply = <<>> => "Write" \notin reactor'.mask[client'[p].fd]
  BY <1>1, <1>3, <1>5, <1>6 DEF ClosedInv, ArmedInv
<1>8. OthersMasksKept(p)
  BY <1>3, <1>5, <1>6, OthersMasks DEF ClosedInv
<1>9. reactor'.mask[ListenFd] = reactor.mask[ListenFd]
  BY <1>3, <1>6, Names DEF SameAt
<1>10. ArmedInv'
  BY <1>5, <1>7, <1>8, <1>9, ArmedStep DEF ClosedInv
<1>11. OneAtATimeInv' /\ CurrentInv' /\ fate' = "running"
  BY <1>2, ReadsOrWrites, OneAtATimeKept DEF ClosedInv
<1>12. QED
  BY <1>10, <1>11 DEF ClosedRest

LEMMA ReadErrorRest ==
  ASSUME ClosedInv, NEW e, NEW p \in Peers, ReadError(e, p)
  PROVE  ClosedRest'
<1>1. /\ CallsRead(e, "client") /\ UNCHANGED <<reactor, fate, client, sends, replies>>
      /\ stream[p] = "rst" /\ stream' = [stream EXCEPT ![p] = "closed"]
  BY DEF ReadError, ReadsFrom
<1>2. stream = [q \in Peers |-> stream[q]]
  BY DEF ClosedInv, TidyInv, ShapeInv
<1>3. \A q \in Peers : stream'[q] = stream[q] \/ stream[q] = "rst"
  BY <1>1, <1>2
<1>4. QED
  BY <1>1, <1>3, ReadsOrWrites, OneAtATimeKept, ArmedKept DEF ClosedInv, ClosedRest

LEMMA ReadEofRest ==
  ASSUME ClosedInv, NEW e, NEW p \in Peers, ReadEof(e, p)
  PROVE  ClosedRest'
<1>1. /\ CallsRead(e, "client")
      /\ UNCHANGED <<reactor, fate, client, stream, sends, replies>>
  BY DEF ReadEof, ReadsFrom, peerVars
<1>2. QED
  BY <1>1, ReadsOrWrites, OneAtATimeKept, ArmedKept DEF ClosedInv, ClosedRest

LEMMA CloseFdRest ==
  ASSUME ClosedInv, CloseFd
  PROVE  ClosedRest'
<1>1. /\ reactor' = CloseDescriptor(reactor, current.fd) /\ step = "close" /\ step' = "free"
      /\ UNCHANGED <<fate, current, client, stream, sends, replies>>
  BY DEF CloseFd, peerVars
<1>2. reactor'.mask = reactor.mask
  BY <1>1 DEF CloseDescriptor, ClosedInv, TidyInv, Sound, Reactors
<1>3. QED
  BY <1>1, <1>2, OneAtATimeKept, ArmedKept DEF ClosedInv, ClosedRest, CurrentInv

LEMMA FreeRest ==
  ASSUME PatientInv, Free
  PROVE  ClosedRest'
<1>1. /\ step = "free" /\ step' = "write" /\ reactor' = Freed(reactor, current.fd)
      /\ UNCHANGED <<fate, current, stream, sends, replies>>
  BY DEF Free, Returned, peerVars
<1>2. PICK p \in Peers : LeftOf(p) /\ RestOf(p)
  BY <1>1 DEF PatientInv, IInv
<1>3. client' = [client EXCEPT ![p] = NoClient] /\ client = [q \in Peers |-> client[q]]
  BY <1>2, OneIsLeft, AlwaysHolds DEF Free, PatientInv
<1>4. client'[p] = NoClient /\ \A q \in Peers : q # p => client'[q] = client[q]
  BY <1>3
<1>5. p \notin Listed' /\ client'[p].requestType = "initial"
  BY <1>4 DEF Listed, NoClient, NewClient
<1>6. \A f \in Descriptors : f # current.fd => SameAt(reactor', reactor, f)
  BY <1>1, <1>2, FreedIsSound, ForgottenAt DEF LeftOf, RestOf, Fds
<1>7. OthersMasksKept(p)
  <2>1. ASSUME NEW q \in Listed', q # p
        PROVE  /\ q \in Listed /\ client'[q] = client[q]
               /\ reactor'.mask[client[q].fd] = reactor.mask[client[q].fd]
    <3>1. q \in Peers /\ client'[q] = client[q] /\ q \in Listed
      BY <1>4, <2>1 DEF Listed
    <3>2. client[q].fd \in Fds /\ client[q].fd # current.fd
      BY <1>2, <2>1, <3>1, PeersAssumption DEF LeftOf, RestOf
    <3>3. QED
      BY <1>6, <3>1, <3>2 DEF SameAt, Fds
  <2>2. QED
    BY <2>1 DEF OthersMasksKept
<1>8. reactor'.mask[ListenFd] = reactor.mask[ListenFd]
  BY <1>2, <1>6, Names DEF SameAt, LeftOf, Fds
<1>9. ArmedInv'
  BY <1>4, <1>5, <1>7, <1>8, ArmedStep DEF PatientInv, ClosedRest
<1>10. OneAtATimeInv' /\ CurrentInv' /\ fate' = "running"
  BY <1>1, OneAtATimeKept DEF PatientInv, ClosedRest, CurrentInv
<1>11. QED
  BY <1>9, <1>10 DEF ClosedRest

LEMMA WriteReplyRest ==
  ASSUME ClosedInv, NEW p \in Peers, WriteReply(p)
  PROVE  ClosedRest'
<1>1. /\ CallsWrite(p) /\ WriteStep /\ UNCHANGED <<fate, stream, sends>>
      /\ client' = [client EXCEPT ![p].result = <<>>]
      /\ reactor' = DeleteEventListener(reactor, client[p].fd, "Write")
      /\ stream[p] = "open"
      /\ replies' = [replies EXCEPT ![p] = replies[p] \o client[p].result]
      /\ step' \in {"poll", "read"}
  BY DEF WriteReply, CallsWrite, WriteStep, NextDescriptor, Sent, Disarm
<1>2. /\ p \in Listed /\ client[p].fd \in Fds /\ client[p].fd \in Descriptors
      /\ client[p].fd # ListenFd /\ owner[client[p].fd] = p
      /\ client[p].fd = current.fd /\ Sound(reactor) /\ reactor \in Reactors
  BY <1>1, WritesAt DEF ClosedInv, Fds, Sound
<1>3. client = [q \in Peers |-> client[q]] /\ replies = [q \in Peers |-> replies[q]]
  BY DEF ClosedInv, TidyInv, ShapeInv, AnswerInv
<1>4. /\ client'[p] = [fd |-> client[p].fd, requestType |-> client[p].requestType, result |-> <<>>]
      /\ \A q \in Peers : q # p => client'[q] = client[q]
  <2>1. ClientIs(p, current.fd, client[p].requestType, <<>>)
    BY <1>1, <1>2, SentIs DEF ClosedInv, Sent
  <2>2. QED
    BY <1>2, <1>3, <2>1 DEF ClientIs
<1>5. /\ ListenerDeletedFrom(reactor, client[p].fd, "Write", reactor')
      /\ reactor'.mask[client[p].fd] = reactor.mask[client[p].fd] \ {"Write"}
      /\ \A f \in Descriptors : f # client[p].fd => SameAt(reactor', reactor, f)
  BY <1>1, <1>2, DeleteIsSound, DeletedAt, Names
<1>6. OthersMasksKept(p)
  BY <1>2, <1>4, <1>5, OthersMasks DEF ClosedInv
<1>7. reactor'.mask[ListenFd] = reactor.mask[ListenFd]
  BY <1>2, <1>5, Names DEF SameAt
<1>8. client'[p].requestType # "bulk" /\ "Write" \notin reactor'.mask[client'[p].fd]
  BY <1>4, <1>5 DEF ClosedInv, ArmedInv
<1>9. ArmedInv'
  BY <1>4, <1>6, <1>7, <1>8, ArmedStep DEF ClosedInv
<1>10. OneAtATimeInv'
  <2>1. PICK written, result : written = replies[p] /\ result = client[p].result
    OBVIOUS
  <2>2. /\ IsSequence(written) /\ IsSequence(result)
        /\ replies' = [replies EXCEPT ![p] = written \o result]
    BY <1>1, <2>1 DEF ClosedInv, AnswerInv
  <2>3. PICK all : all = written \o result
    OBVIOUS
  <2>4. /\ Len(all) = Len(written) + Len(result)
        /\ Len(written) \in Nat /\ Len(result) \in Nat
    BY <2>2, <2>3, ConcatLength, SequenceLength
  <2>5. PICK sent : sent = sends[p] /\ sent \in Nat
    BY DEF ClosedInv, AnswerInv
  <2>6. sent <= Len(written) + 1
    BY <2>1, <2>5 DEF ClosedInv, OneAtATimeInv
  <2>7. sent <= Len(all) + 1
    BY <2>4, <2>5, <2>6
  <2>8. replies'[p] = all /\ \A q \in Peers : q # p => replies'[q] = replies[q]
    BY <1>3, <2>2, <2>3
  <2>9. QED
    BY <1>1, <2>5, <2>7, <2>8 DEF ClosedInv, OneAtATimeInv
<1>11. CurrentInv' /\ fate' = "running"
  BY <1>1 DEF CurrentInv, ClosedInv
<1>12. QED
  BY <1>9, <1>10, <1>11 DEF ClosedRest

LEMMA NoWriteRest ==
  ASSUME ClosedInv, NoWrite
  PROVE  ClosedRest'
<1>1. UNCHANGED <<reactor, fate, client, stream, sends, replies>> /\ step' \in {"poll", "read"}
  BY DEF NoWrite, WriteStep, NextDescriptor
<1>2. QED
  BY <1>1, ArmedKept DEF ClosedInv, ClosedRest, OneAtATimeInv, CurrentInv

LEMMA ServerRest ==
  ASSUME PatientInv, PatientPeers, ServerNext
  PROVE  ClosedRest'
<1>1. ASSUME NEW e, HandleRead(e)
      PROVE  ClosedRest'
  <2>1. ClosedInv
    BY <1>1, ReadsWhenTidy, PatientIsClosed DEF PatientInv
  <2>2. ASSUME NEW p \in Peers, ReadQuery(e, p)
        PROVE  ClosedRest'
    BY <2>1, <2>2, ReadCommandRest, NothingUnreadable, ReadErrorRest, ReadEofRest DEF ReadQuery
  <2>3. QED
    BY <1>1, <2>1, <2>2, IdleReadRest, AcceptRest DEF HandleRead
<1>2. CASE HandleWrite
  <2>1. ClosedInv
    BY <1>2, WritesWhenTidy, PatientIsClosed
  <2>2. QED
    BY <1>2, <2>1, NoWriteRest, WriteReplyRest, NothingLost DEF HandleWrite
<1>3. CASE Start \/ Poll \/ CloseFd
  <2>1. ClosedInv
    BY <1>3, PatientIsClosed DEF Start, Poll, CloseFd
  <2>2. QED
    BY <1>3, <2>1, StartRest, PollRest, CloseFdRest
<1>4. QED
  BY <1>1, <1>2, <1>3, FreeRest DEF ServerNext

LEMMA PatientStep ==
  ASSUME PatientInv, PatientPeers, [Next]_vars
  PROVE  PatientInv'
<1>1. IInv' /\ AnswerInv'
  BY NextIInv, AnswerStep DEF PatientInv
<1>2. ClosedRest'
  <2>1. CASE UNCHANGED vars
    BY <2>1, ArmedKept DEF vars, PatientInv, ClosedRest, OneAtATimeInv, CurrentInv, Listed
  <2>2. QED
    BY <2>1, ServerRest, PeersRest DEF Next
<1>3. QED
  BY <1>1, <1>2 DEF PatientInv

LEMMA PatientStart ==
  ASSUME Init, PatientPeers
  PROVE  PatientInv
<1>1. IInv
  BY InitIInv DEF PatientPeers
<1>2. AnswerInv
  BY AnswerStart
<1>3. \A p \in Peers : sends[p] = 0 /\ replies[p] = <<>> /\ stream[p] = "none"
  BY DEF Init
<1>4. OneAtATimeInv
  BY <1>3, EmptySequence DEF OneAtATimeInv
<1>5. Listed = {} /\ \A p \in Peers : client[p].requestType = "initial"
  BY DEF Init, Listed, NoClient, NewClient
<1>6. reactor.mask[ListenFd] = {}
  BY Names DEF Init, NewReactor
<1>7. ArmedInv /\ CurrentInv /\ fate = "running"
  BY <1>5, <1>6 DEF Init, ArmedInv, CurrentInv
<1>8. QED
  BY <1>1, <1>2, <1>4, <1>7 DEF PatientInv, ClosedRest

LEMMA PatientInvariant ==
  ASSUME PatientPeers
  PROVE  Spec => []PatientInv
<1>1. Init => PatientInv
  BY PatientStart
<1>2. PatientInv /\ [Next]_vars => PatientInv'
  BY PatientStep
<1>3. QED
  BY <1>1, <1>2, PTL DEF Spec

\* io_service.hpp lines 266-296, client.hpp lines 51-232: no assertion fails, no
\* empty handler is called, no command hangs the server and no write meets a
\* broken pipe, for any number of peers that send whole commands, wait for each
\* answer and leave only between commands.
THEOREM StaysUpCorrect ==
  ASSUME PatientPeers
  PROVE  Spec => []StaysUp
<1>1. PatientInv => StaysUp
  BY DEF PatientInv, ClosedRest, StaysUp
<1>2. QED
  BY <1>1, PatientInvariant, PTL

-----------------------------------------------------------------------------
(* The table that patient peers see *)

LEMMA AnswersAre ==
  Answers = [p \in Peers |-> client[p].result]
BY DEF Answers, Listed, NoClient, NewClient

LEMMA AnswersNext ==
  Answers' = [p \in Peers |-> client'[p].result]
BY DEF Answers, Listed, NoClient, NewClient

\* A step that neither reads a command nor writes a reply is one the table does
\* not see.
TableKept == Requests' = Requests /\ Answers' = Answers /\ UNCHANGED <<store, replies>>

LEMMA Unseen ==
  ASSUME UNCHANGED <<store, inbox, replies>>,
         \A p \in Peers : client'[p].result = client[p].result
  PROVE  TableKept
<1>1. Requests' = Requests
  BY DEF Requests
<1>2. Answers' = Answers
  BY AnswersAre, AnswersNext
<1>3. QED
  BY <1>1, <1>2 DEF TableKept

LEMMA SendRefines ==
  ASSUME PatientInv, PatientPeers, NEW p \in Peers, Send(p)
  PROVE  \E c \in Commands : Table!Submit(p, c)
<1>1. PICK c \in Commands : inbox' = [inbox EXCEPT ![p] = Append(inbox[p], c)]
  BY DEF Send
<1>2. sends[p] = Len(replies[p]) /\ UNCHANGED <<store, client, replies>>
  BY DEF Send, Idle, PatientPeers
<1>3. inbox[p] = <<>> /\ client[p].result = <<>>
  BY <1>2, UnderWay DEF PatientInv, ClosedRest
<1>4. inbox = [q \in Peers |-> inbox[q]]
  BY AlwaysHolds DEF PatientInv, NetworkInv, ShapeInv
<1>5. Append(<<>>, c) = <<c>> /\ <<c>> # <<>> /\ Head(<<c>>) = c
  OBVIOUS
<1>6. inbox'[p] = <<c>> /\ \A q \in Peers : q # p => inbox'[q] = inbox[q]
  BY <1>1, <1>3, <1>4, <1>5
<1>7. /\ Requests[p] = <<>> /\ Answers[p] = <<>>
      /\ Requests' = [Requests EXCEPT ![p] = c]
  BY <1>3, <1>5, <1>6, AnswersAre DEF Requests
<1>8. Answers' = Answers
  BY <1>2, AnswersAre, AnswersNext
<1>9. Table!Submit(p, c)
  BY <1>2, <1>7, <1>8 DEF Table!Submit
<1>10. QED
  BY <1>9

LEMMA ReadRefines ==
  ASSUME ClosedInv, PatientPeers, NEW e, NEW p \in Peers, ReadCommand(e, p)
  PROVE  \/ \E k \in Keys : Table!Get(p, k) \/ \E v \in Values : Table!Set(p, k, v)
         \/ Table!Ignore(p)
<1>1. PICK reply, c :
           /\ inbox[p] # <<>> /\ c = Head(inbox[p]) /\ c \in WholeCommands
           /\ reply = Answer(c) /\ store' = StoreAfter(c)
           /\ client[p].result = <<>>
           /\ ClientIs(p, e.fd, "inline", reply)
  BY CommandRead
<1>2. /\ inbox' = [inbox EXCEPT ![p] = <<>>] /\ UNCHANGED replies
      /\ inbox = [q \in Peers |-> inbox[q]] /\ client = [q \in Peers |-> client[q]]
  BY DEF ReadCommand, Consume, ClosedInv, TidyInv, ShapeInv
<1>3. inbox'[p] = <<>> /\ \A q \in Peers : q # p => inbox'[q] = inbox[q]
  BY <1>2
<1>4. client'[p].result = reply /\ \A q \in Peers : q # p => client'[q] = client[q]
  BY <1>1, <1>2 DEF ClientIs
<1>5. Requests[p] = c /\ Requests' = [Requests EXCEPT ![p] = <<>>]
  BY <1>1, <1>3 DEF Requests
<1>6. Answers[p] = <<>> /\ Answers' = [Answers EXCEPT ![p] = reply]
  BY <1>1, <1>4, AnswersAre, AnswersNext
<1>7. ASSUME NEW k \in Keys, NEW v \in Values, c = <<"set", k, v>>
      PROVE  Table!Set(p, k, v)
  <2>1. c[1] = "set" /\ c[2] = k /\ c[3] = v
    BY <1>7
  <2>2. /\ reply = <<"ok">>
        /\ store' = IF store[k] = Missing THEN [store EXCEPT ![k] = v] ELSE store
    BY <1>1, <2>1 DEF Answer, StoreAfter, AddToStore
  <2>3. QED
    BY <1>2, <1>5, <1>6, <1>7, <2>2, SMTT(30) DEF Table!Set, Table!Executed
<1>8. ASSUME NEW k \in Keys, c = <<"get", k>>
      PROVE  Table!Get(p, k)
  <2>1. c[1] = "get" /\ c[2] = k
    BY <1>8
  <2>2. /\ reply = IF store[k] = Missing THEN <<>> ELSE <<store[k]>>
        /\ store' = store
    BY <1>1, <2>1 DEF Answer, StoreAfter
  <2>3. QED
    BY <1>2, <1>5, <1>6, <1>8, <2>2, SMTT(30) DEF Table!Get, Table!Executed
<1>9. ASSUME c = <<"other">>
      PROVE  Table!Ignore(p)
  <2>1. c[1] = "other" /\ c # <<>>
    BY <1>9
  <2>2. reply = <<>> /\ store' = store
    BY <1>1, <2>1 DEF Answer, StoreAfter
  <2>3. Answers' = Answers
    BY <1>6, <2>2 DEF Answers
  <2>4. QED
    BY <1>2, <1>5, <2>1, <2>2, <2>3, SMTT(30) DEF Table!Ignore, Table!Executed
<1>10. QED
  BY <1>1, <1>7, <1>8, <1>9 DEF WholeCommands

LEMMA WriteRefines ==
  ASSUME ClosedInv, NEW p \in Peers, WriteReply(p)
  PROVE  Table!Deliver(p)
<1>1. /\ client' = [client EXCEPT ![p].result = <<>>] /\ client[p].result # <<>>
      /\ replies' = [replies EXCEPT ![p] = replies[p] \o client[p].result]
      /\ UNCHANGED <<store, inbox>>
  BY DEF WriteReply, CallsWrite, WriteStep, Sent
<1>2. /\ client = [q \in Peers |-> client[q]]
      /\ client[p] = [fd |-> client[p].fd, requestType |-> client[p].requestType,
                      result |-> client[p].result]
  BY DEF ClosedInv, TidyInv, ShapeInv, ListInv
<1>3. client'[p].result = <<>> /\ \A q \in Peers : q # p => client'[q] = client[q]
  BY <1>1, <1>2
<1>4. Requests' = Requests
  BY <1>1 DEF Requests
<1>5. Answers[p] = client[p].result /\ Answers' = [Answers EXCEPT ![p] = <<>>]
  BY <1>3, AnswersAre, AnswersNext
<1>6. QED
  BY <1>1, <1>4, <1>5 DEF Table!Deliver

LEMMA TableStep ==
  ASSUME PatientInv, PatientPeers, [Next]_vars
  PROVE  Table!Next \/ TableKept
<1>0. /\ client = [q \in Peers |-> client[q]]
      /\ inbox = [q \in Peers |-> inbox[q]]
  BY AlwaysHolds DEF PatientInv, NetworkInv, ShapeInv
<1>1. ASSUME UNCHANGED <<store, client, inbox, replies>>
      PROVE  TableKept
  BY <1>1, Unseen
<1>2. CASE PeerNext
  <2>1. ASSUME NEW p \in Peers, Connect(p) \/ Leave(p)
        PROVE  TableKept
    BY <1>1, <2>1 DEF Connect, Leave
  <2>2. QED
    BY <1>2, <2>1, SendRefines DEF PeerNext, Table!Next
<1>3. ASSUME NEW e, HandleRead(e)
      PROVE  Table!Next \/ TableKept
  <2>0. ClosedInv
    BY <1>3, ReadsWhenTidy, PatientIsClosed DEF PatientInv
  <2>1. CASE NoRead(e) \/ AcceptFails(e)
    BY <1>1, <2>1 DEF NoRead, AcceptFails, peerVars
  <2>2. CASE Accept(e)
    <3>1. PICK p, fd : client' = [client EXCEPT ![p] = NewClient(fd)] /\ p = Head(backlog)
      BY <2>2 DEF Accept, AddClient
    <3>2. backlog \in Seq(Peers) /\ backlog # <<>> /\ UNCHANGED <<store, inbox, replies>>
      BY <2>0, <2>2 DEF Accept, ClosedInv, TidyInv, ShapeInv
    <3>3. p = backlog[1] /\ 1 \in 1 .. Len(backlog) /\ p \in Peers
      BY <3>1, <3>2
    <3>4. client[p].result = <<>> /\ NewClient(fd).result = <<>>
      BY <2>0, <3>3 DEF ClosedInv, TidyInv, BacklogInv, NoClient, NewClient
    <3>5. QED
      BY <1>0, <3>1, <3>2, <3>4, Unseen
  <2>3. ASSUME NEW p \in Peers, ReadError(e, p)
        PROVE  TableKept
    BY <1>1, <2>3 DEF ReadError
  <2>4. ASSUME NEW p \in Peers, ReadEof(e, p)
        PROVE  TableKept
    BY <1>1, <2>4 DEF ReadEof, peerVars
  <2>5. QED
    BY <1>3, <2>0, <2>1, <2>2, <2>3, <2>4, NothingUnreadable, ReadRefines
       DEF HandleRead, ReadQuery, Table!Next
<1>4. CASE HandleWrite
  <2>0. ClosedInv
    BY <1>4, WritesWhenTidy, PatientIsClosed
  <2>1. CASE NoWrite
    BY <1>1, <2>1 DEF NoWrite, WriteStep
  <2>2. QED
    BY <1>4, <2>0, <2>1, NothingLost, WriteRefines DEF HandleWrite, Table!Next
<1>5. CASE Free
  <2>1. step = "free" /\ UNCHANGED <<store, inbox, replies>>
    BY <1>5 DEF Free, peerVars
  <2>2. PICK p \in Peers : LeftOf(p) /\ RestOf(p)
    BY <2>1 DEF PatientInv, IInv
  <2>3. client' = [client EXCEPT ![p] = NoClient]
    BY <1>5, <2>2, OneIsLeft DEF Free
  <2>4. PICK q \in Listed : client[q].fd = current.fd /\ stream[q] \in {"fin", "closed"}
    BY <2>1 DEF PatientInv, IInv, LeavingInv
  <2>5. q = p
    BY <2>2, <2>4, OneIsLeft DEF ClientsOf
  <2>6. client[p].result = <<>> /\ NoClient.result = <<>>
    BY <2>4, <2>5, UnderWay DEF PatientInv, ClosedRest, NoClient, NewClient
  <2>7. QED
    BY <1>0, <2>1, <2>3, <2>6, Unseen
<1>6. CASE Start \/ Poll \/ CloseFd \/ UNCHANGED vars
  BY <1>1, <1>6 DEF Start, Poll, CloseFd, peerVars, vars
<1>7. QED
  BY <1>2, <1>3, <1>4, <1>5, <1>6 DEF Next, ServerNext

\* client.hpp lines 131-232, server.hpp lines 52-87: to peers that wait for each
\* answer the server is one atomic table that keeps the first value of each key:
\* every command read and every reply written is a step of KeyValueService, and
\* nothing else the server does can be seen.
THEOREM ServerImplementsTable ==
  ASSUME PatientPeers
  PROVE  Spec => ImplementsTable
<1>1. Init => Table!Init
  <2> SUFFICES ASSUME Init
               PROVE  Table!Init
    OBVIOUS
  <2>1. Requests = [p \in Peers |-> <<>>]
    BY DEF Init, Requests
  <2>2. Answers = [p \in Peers |-> <<>>]
    BY AnswersAre DEF Init, NoClient, NewClient
  <2>3. QED
    BY <2>1, <2>2 DEF Init, Table!Init
<1>2. PatientInv /\ [Next]_vars => [Table!Next]_(Table!vars)
  BY TableStep DEF TableKept, Table!vars
<1>3. QED
  BY <1>1, <1>2, PatientInvariant, PTL DEF Spec, ImplementsTable, Table!Spec
=============================================================================
