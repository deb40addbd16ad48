---------------------------- MODULE EpollReactor ----------------------------
(***************************************************************************)
(* How IOService (src/net/io_service.hpp) and EpollPoller                  *)
(* (src/net/epoll_poller.hpp) keep track of the events a descriptor is     *)
(* watched for.  The same fact is kept three times:                        *)
(*   registered[fd]  in the kernel's epoll instance                        *)
(*   polled[fd]      EpollPoller::fdEvent[fd].events                       *)
(*   mask[fd]        IOService::events_[fd].mask_                          *)
(* together with the handlers of IOService::events_[fd].  The state is one *)
(* record r, and each operation maps it to the next one, for modules that  *)
(* compose several calls into one step.                                    *)
(***************************************************************************)
EXTENDS Naturals, FiniteSets

CONSTANTS
  Descriptors,   \* the file descriptors the process may be given
  Handlers,      \* what a registered std::function may be bound to
  NoHandler      \* the empty std::function

ASSUME NoHandlerAssumption == NoHandler \notin Handlers

Events == {"Read", "Write"}

Reactors ==
  [registered : [Descriptors -> SUBSET Events],
   polled     : [Descriptors -> SUBSET Events],
   mask       : [Descriptors -> SUBSET Events],
   readHandler  : [Descriptors -> Handlers \cup {NoHandler}],
   writeHandler : [Descriptors -> Handlers \cup {NoHandler}]]

\* A new reactor watches nothing, but the fdEvent array of EpollPoller has no
\* initializer: "initial" is whatever its entries happen to hold.
NewReactor(initial) ==
  [registered |-> [fd \in Descriptors |-> {}],
   polled     |-> initial,
   mask       |-> [fd \in Descriptors |-> {}],
   readHandler  |-> [fd \in Descriptors |-> NoHandler],
   writeHandler |-> [fd \in Descriptors |-> NoHandler]]

-----------------------------------------------------------------------------
(* EpollPoller *)

\* AddEvent asks for EPOLL_CTL_ADD if it believes fd unwatched, and for
\* EPOLL_CTL_MOD otherwise; the kernel refuses the one it does not expect.
AddSucceeds(r, fd) == (r.polled[fd] = {}) = (r.registered[fd] = {})

MergedEvents_Overwrite(r, fd, event) == {event}
MergedEvents(r, fd, event) == r.polled[fd] \cup {event}

\* EPOLL_CTL_MOD and EPOLL_CTL_DEL of an unwatched descriptor fail, which
\* DeleteEvent does not look at.
DeleteEvent(r, fd, event) ==
  LET left == r.polled[fd] \ {event}
      watched == IF r.registered[fd] = {} THEN {} ELSE left
  IN  [r EXCEPT !.polled[fd] = left, !.registered[fd] = watched]

\* Poll: the events that epoll_wait reports of a descriptor that is ready for
\* "ready", as AddEvent's and Poll's translations of the masks leave them.
FiredEvents_WriteAsRead(r, fd, ready) ==
  IF r.registered[fd] \cap ready = {} THEN {} ELSE {"Read"}
FiredEvents(r, fd, ready) == r.registered[fd] \cap ready

-----------------------------------------------------------------------------
(* IOService *)

AddEventListener(r, fd, event, handler) ==
  IF ~AddSucceeds(r, fd) THEN r
  ELSE [r EXCEPT !.registered[fd]   = MergedEvents(r, fd, event),
                 !.polled[fd]       = MergedEvents(r, fd, event),
                 !.mask[fd]         = @ \cup {event},
                 !.readHandler[fd]  = IF event = "Read" THEN handler ELSE @,
                 !.writeHandler[fd] = IF event = "Write" THEN handler ELSE @]

\* The handlers go only with the last event of the descriptor.
HandlerAfterDelete_Kept(left, handler) == handler
HandlerAfterDelete_Always(left, handler) == NoHandler
HandlerAfterDelete(left, handler) == IF left = {} THEN NoHandler ELSE handler

\* DeleteEventListener, which calls DeleteEvent twice.
DeleteEventListener(r, fd, event) ==
  LET d == DeleteEvent(DeleteEvent(r, fd, event), fd, event)
      left == d.mask[fd] \ {event}
  IN  [d EXCEPT !.mask[fd] = left,
                !.readHandler[fd] = HandlerAfterDelete(left, d.readHandler[fd]),
                !.writeHandler[fd] = HandlerAfterDelete(left, d.writeHandler[fd])]

-----------------------------------------------------------------------------
(* The kernel *)

\* close(fd) takes fd out of the epoll instance, and tells nobody.
CloseDescriptor(r, fd) == [r EXCEPT !.registered[fd] = {}]

\* The two records of what the process watches fd for are the same, and a
\* watched event has a handler.
Watched(r, fd) ==
  /\ r.polled[fd] = r.mask[fd]
  /\ "Read" \in r.mask[fd] => r.readHandler[fd] # NoHandler
  /\ "Write" \in r.mask[fd] => r.writeHandler[fd] # NoHandler
=============================================================================
