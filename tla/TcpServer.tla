------------------------------- MODULE TcpServer -------------------------------
(***************************************************************************)
(* The word-vector server of src/src/server: the acceptor on the thread of *)
(* main, and one event loop per thread of the pool (EventLoop, EPoller,    *)
(* Channel) that serves the connections it was given (TcpConnection, with  *)
(* the callbacks of main.cpp).  A connection is named by its client: the   *)
(* program closes no descriptor, so a descriptor number is never reused.   *)
(*                                                                         *)
(* A request is any data that one read returns; the reply to it is         *)
(* ReplyLen units of data.  Channel::handleEvent's first branch (hang-up   *)
(* without readable data) is left out: ChannelRegistration shows that a    *)
(* loop never polls a channel whose reading is disabled, and a socket that *)
(* hangs up is readable.                                                   *)
(***************************************************************************)
EXTENDS ThreadPool, Buffer, FiniteSets, FiniteSetsExt, SequencesExt

CONSTANTS
    Clients,       \* the clients, each of which connects at most once
    ReplyLen,      \* size of a reply
    Capacity,      \* Capacity[c]: what the send buffer of the client's socket holds
    Segments       \* bound: how many segments each client sends at most

NoClient == "none"

ASSUME ServerAssumption ==
    /\ IsFiniteSet(Clients) /\ NoClient \notin Clients
    /\ ReplyLen \in Nat \ {0}
    /\ Capacity \in [Clients -> Nat \ {0}]
    /\ Segments \in [Clients -> Nat]

MaxWire == ReplyLen + 1      \* bound: what is written beyond one reply is counted once

VARIABLES
    sock,       \* the sockets, kept by the kernel (see SocketTypeOK)
    epoll,      \* epoll[l]: the descriptors registered in the epoll set of l, with their events
    main,       \* the thread of main: the client it is registering, or NoClient
    owner,      \* owner[c]: loop_ of the connection and of its channel
    events,     \* events_ of the channel
    index,      \* index_ of the channel: "new" (-1), "added", "deleted"
    revents,    \* revents_ of the channel, as far as it is not handled yet
    out,        \* outputBuffer_
    chmap,      \* chmap[l]: the keys of _Channel_map of the poller of l
    pc,         \* pc[l]: "poll", "events", "rest", "erase"
    active,     \* active[l]: activeChannels_, from the one being handled on
    work,       \* work[l]: restWork
    functors,   \* functors[l]: the functors of doRest that have not run
    destroyed,  \* history: how often connectDestroyed completed for a connection
    wire,       \* history: how much was written to a connection (up to MaxWire)
    died        \* why the process ended, "no" while it runs

chanVars == <<owner, events, index>>
loopVars == <<pc, active, work, functors>>
vars == <<poolVars, sock, epoll, main, chanVars, revents, out, chmap,
          loopVars, destroyed, wire, died>>

Init ==
    /\ PoolInit
    /\ sock = [c \in Clients |->
                [stage |-> "closed", sent |-> 0, unread |-> 0,
                 fin |-> FALSE, rst |-> FALSE, queued |-> 0, shut |-> FALSE]]
    /\ epoll = [l \in Loops |-> << >>]
    /\ main = NoClient
    /\ owner = [c \in Clients |-> 0]
    /\ events = [c \in Clients |-> {}]
    /\ index = [c \in Clients |-> "new"]
    /\ revents = [c \in Clients |-> {}]
    /\ out = [c \in Clients |-> EmptyBuffer]
    /\ chmap = [l \in Loops |-> {}]
    /\ pc = [l \in Loops |-> "poll"]
    /\ active = [l \in Loops |-> << >>]
    /\ work = [l \in Loops |-> << >>]
    /\ functors = [l \in Loops |-> << >>]
    /\ destroyed = [c \in Clients |-> 0]
    /\ wire = [c \in Clients |-> 0]
    /\ died = "no"

-------------------------------------------------------------------------------
(***************************************************************************)
(* The clients and the kernel.                                             *)
(***************************************************************************)
ClientOnly == UNCHANGED <<poolVars, epoll, main, chanVars, revents, out, chmap,
                          loopVars, destroyed, wire, died>>

Open(c) == sock[c].stage # "closed" /\ ~sock[c].fin /\ ~sock[c].rst

Connect(c) ==
    /\ starter = "listening"
    /\ sock[c].stage = "closed"
    /\ sock' = [sock EXCEPT ![c].stage = "backlog"]
    /\ ClientOnly

SendSegment(c) ==
    /\ Open(c)
    /\ sock[c].sent < Segments[c]
    /\ sock' = [sock EXCEPT ![c].sent = @ + 1, ![c].unread = @ + 1]
    /\ ClientOnly

\* The client takes what the server wrote, which makes room in the send buffer.
Drain(c) ==
    /\ sock[c].queued > 0 /\ ~sock[c].rst
    /\ sock' = [sock EXCEPT ![c].queued = 0]
    /\ ClientOnly

\* The client has no more to send.
Close(c) ==
    /\ Open(c)
    /\ sock' = [sock EXCEPT ![c].fin = TRUE]
    /\ ClientOnly

\* The client aborts, or answers data that arrives after it has gone.
Reset(c) ==
    /\ sock[c].stage # "closed" /\ ~sock[c].rst
    /\ sock' = [sock EXCEPT ![c].rst = TRUE, ![c].queued = 0]
    /\ ClientOnly

Room(c) == Capacity[c] - sock[c].queued

\* What the kernel reports of a registered descriptor (level-triggered).
Ready(l, c) ==
    epoll[l][c] \cap
        ((IF sock[c].unread > 0 \/ sock[c].fin \/ sock[c].rst THEN {"in"} ELSE {})
         \cup (IF Room(c) > 0 \/ sock[c].shut \/ sock[c].rst THEN {"out"} ELSE {}))

\* epoll_ctl: adding what is there, or changing what is not, fails, and unit.cpp exits.
EpollCtl(l, op, c, ev) ==
    LET known == DOMAIN epoll[l]
    IN  IF (op = "add") = (c \in known)
          THEN died' = "epoll_ctl" /\ UNCHANGED epoll
          ELSE /\ epoll' = [epoll EXCEPT ![l] =
                     [d \in (IF op = "del" THEN known \ {c} ELSE known \cup {c}) |->
                        IF d = c THEN ev ELSE @[d]]]
               /\ UNCHANGED died

-------------------------------------------------------------------------------
(***************************************************************************)
(* Channel and EPoller.                                                    *)
(***************************************************************************)
\* events_ is set to ev, then EPoller::updateChannel (its map is accessed by
\* Establish, for a new channel).  The mutant does not note that it has deleted.
CtlOp(c, ev) ==
    CASE index[c] # "added" -> "add"
    []   index[c] = "added" /\ ev = {} -> "del"
    []   OTHER -> "mod"

UpdateChannel_KeepsIndex(c, ev) ==
    /\ events' = [events EXCEPT ![c] = ev]
    /\ index' = [index EXCEPT ![c] = "added"]
    /\ EpollCtl(owner[c], CtlOp(c, ev), c, ev)
    /\ UNCHANGED owner

UpdateChannel(c, ev) ==
    /\ events' = [events EXCEPT ![c] = ev]
    /\ index' = [index EXCEPT ![c] = IF CtlOp(c, ev) = "del" THEN "deleted" ELSE "added"]
    /\ EpollCtl(owner[c], CtlOp(c, ev), c, ev)
    /\ UNCHANGED owner

\* The mutant of enableReading does not tell the poller.
enableReading_NoUpdate(c) ==
    /\ events' = [events EXCEPT ![c] = @ \cup {"in"}]
    /\ UNCHANGED <<owner, index, epoll, died>>
enableReading(c) == UpdateChannel(c, events[c] \cup {"in"})
enableWriting(c) == UpdateChannel(c, events[c] \cup {"out"})
disableAll(c) == UpdateChannel(c, {})

isWriting(c) == "out" \in events[c]

-------------------------------------------------------------------------------
(***************************************************************************)
(* The thread of main: its loop handles the listening socket.              *)
(***************************************************************************)
\* AcceptorHandleRead, newConnection and enableReading up to updateChannel's use
\* of the map of the io loop's poller, which this thread is about to change.
Accept(c) ==
    /\ starter = "listening"
    /\ main = NoClient
    /\ sock[c].stage = "backlog"
    /\ sock' = [sock EXCEPT ![c].stage = "accepted"]
    /\ TurnNext
    /\ owner' = [owner EXCEPT ![c] = NextLoop]
    /\ main' = c
    /\ UNCHANGED <<starter, task, loops, epoll, events, index, revents, out, chmap,
                   loopVars, destroyed, wire, died>>

\* unit::accept exits on an error it does not expect.  (On the others, of which
\* EMFILE can occur, nothing changes, and the socket stays in the backlog.)
AcceptFails(c) ==
    /\ starter = "listening"
    /\ main = NoClient
    /\ sock[c].stage = "backlog"
    /\ died' = "accept"
    /\ UNCHANGED <<poolVars, sock, epoll, main, chanVars, revents, out, chmap,
                   loopVars, destroyed, wire>>

\* The rest of enableReading, on the thread of main: the assertion that the map
\* has no entry for the descriptor, the entry, and the registration, from which
\* on the io loop may see events.  connCallback_ does nothing.
Establish ==
    /\ main # NoClient
    /\ IF main \in chmap[owner[main]]
         THEN /\ died' = "map"
              /\ UNCHANGED <<chmap, chanVars, epoll>>
         ELSE /\ chmap' = [chmap EXCEPT ![owner[main]] = @ \cup {main}]
              /\ enableReading(main)
    /\ main' = NoClient
    /\ UNCHANGED <<poolVars, sock, revents, out, loopVars, destroyed, wire>>

-------------------------------------------------------------------------------
(***************************************************************************)
(* The thread of a loop: EventLoop::loop.                                  *)
(***************************************************************************)
LoopStays == UNCHANGED <<poolVars, main>>

Poll(l) ==
    /\ pc[l] = "poll" /\ task[l] = "looping"
    /\ LET ready == {c \in DOMAIN epoll[l] : Ready(l, c) # {}}
       IN  /\ ready # {}
           /\ revents' = [c \in Clients |->
                            IF c \in ready THEN Ready(l, c) ELSE revents[c]]
           /\ \E order \in SetToSeqs(ready) : active' = [active EXCEPT ![l] = order]
    /\ pc' = [pc EXCEPT ![l] = "events"]
    /\ LoopStays
    /\ UNCHANGED <<sock, epoll, chanVars, out, chmap, work, functors, destroyed, wire, died>>

\* handleEvent of the first active channel is at its branch for event e:
\* readCallback_ before writeCallback_.
Handling(l, e, c) ==
    /\ pc[l] = "events" /\ active[l] # << >>
    /\ c = Head(active[l])
    /\ e \in revents[c]
    /\ e = "out" => "in" \notin revents[c]

\* The branch for e is done; the loop goes on to the next channel after the last one.
Handled(l, e, c) ==
    /\ revents' = [revents EXCEPT ![c] = @ \ {e}]
    /\ active' = IF revents[c] = {e} THEN [active EXCEPT ![l] = Tail(@)] ELSE active
    /\ LoopStays
    /\ UNCHANGED <<pc, functors, chmap, destroyed>>

\* restWork.push_back (the mutant keeps the last functor only)
Queue_Last(l, f, c) == work' = [work EXCEPT ![l] = <<[run |-> f, conn |-> c]>>]
Queue(l, f, c) == work' = [work EXCEPT ![l] = Append(@, [run |-> f, conn |-> c])]

Written(c, n) == wire' = [wire EXCEPT ![c] = Min({MaxWire, @ + n})]

\* handleRead with data: everything is read, main.cpp answers it, and sendInLoop
\* tries to write the reply if nothing is waiting to be written before it.
SendNow(c) == ~isWriting(c) /\ readableSize(out[c]) = 0

ReadAndAppend(l, c) ==
    /\ Handling(l, "in", c) /\ sock[c].unread > 0 /\ ~SendNow(c)
    /\ sock' = [sock EXCEPT ![c].unread = 0]
    /\ out' = [out EXCEPT ![c] = append(@, ReplyLen)]
    /\ IF isWriting(c)
         THEN UNCHANGED <<chanVars, epoll, died>>
         ELSE enableWriting(c)
    /\ Handled(l, "in", c)
    /\ UNCHANGED <<work, wire>>

Broken(c) == sock[c].shut \/ sock[c].rst

\* remaining == 0 (the mutant takes any successful write for a whole one)
Whole_Any(n) == n > 0
Whole(n) == n = ReplyLen

ReadAndSend(l, c) ==
    /\ Handling(l, "in", c) /\ sock[c].unread > 0 /\ SendNow(c)
    /\ ~Broken(c) /\ Room(c) > 0
    /\ LET n == Min({Room(c), ReplyLen})
       IN  /\ sock' = [sock EXCEPT ![c].unread = 0, ![c].queued = @ + n]
           /\ Written(c, n)
           /\ IF Whole(n)
                THEN /\ Queue(l, "writeComplete", c)
                     /\ UNCHANGED <<chanVars, epoll, out, died>>
                ELSE /\ out' = [out EXCEPT ![c] = append(@, ReplyLen - n)]
                     /\ enableWriting(c)
                     /\ UNCHANGED work
    /\ Handled(l, "in", c)

\* A write that fails raises SIGPIPE, or leaves nwrote at -1, which the assertion
\* nwrote <= len compares as an unsigned number: either ends the process.
ReadAndDie(l, c) ==
    /\ Handling(l, "in", c) /\ sock[c].unread > 0 /\ SendNow(c)
    /\ Broken(c) \/ Room(c) = 0
    /\ died' = "send"
    /\ Handled(l, "in", c)
    /\ UNCHANGED <<sock, epoll, chanVars, out, work, wire>>

\* handleRead at the end of the stream: handleClose and removeConnection.
ReadEnd(l, c) ==
    /\ Handling(l, "in", c) /\ sock[c].unread = 0 /\ sock[c].fin
    /\ disableAll(c)
    /\ Queue(l, "connectDestroyed", c)
    /\ Handled(l, "in", c)
    /\ UNCHANGED <<sock, out, wire>>

\* readFd exits on any error: a reset, or nothing to read.
ReadError(l, c) ==
    /\ Handling(l, "in", c) /\ sock[c].unread = 0 /\ ~sock[c].fin
    /\ died' = IF sock[c].rst THEN "reset" ELSE "again"
    /\ Handled(l, "in", c)
    /\ UNCHANGED <<sock, epoll, chanVars, out, work, wire>>

\* handleWrite: the whole of outputBuffer_ is written, as far as there is room,
\* and nothing is taken off it, so that it never is empty and writing stays on.
HandleWrite(l, c) ==
    /\ Handling(l, "out", c)
    /\ isWriting(c) => ~Broken(c)
    /\ IF isWriting(c)
         THEN LET n == Min({Room(c), readableSize(out[c])})
              IN  /\ sock' = [sock EXCEPT ![c].queued = @ + n]
                  /\ Written(c, n)
         ELSE UNCHANGED <<sock, wire>>
    /\ Handled(l, "out", c)
    /\ UNCHANGED <<epoll, chanVars, out, work, died>>

\* handleWrite that fails: the first failing call on a reset socket takes the error
\* away, and the socket then reads as ended; otherwise the error raises SIGPIPE.
WriteFails(l, c) ==
    /\ Handling(l, "out", c)
    /\ isWriting(c) /\ Broken(c)
    /\ IF sock[c].fin \/ sock[c].shut
         THEN died' = "send" /\ UNCHANGED sock
         ELSE sock' = [sock EXCEPT ![c].fin = TRUE] /\ UNCHANGED died
    /\ Handled(l, "out", c)
    /\ UNCHANGED <<epoll, chanVars, out, work, wire>>

\* doRest: restWork is swapped out under the mutex.
StartRest(l) ==
    /\ pc[l] = "events" /\ active[l] = << >>
    /\ functors' = [functors EXCEPT ![l] = work[l]]
    /\ work' = [work EXCEPT ![l] = << >>]
    /\ pc' = [pc EXCEPT ![l] = "rest"]
    /\ LoopStays
    /\ UNCHANGED <<sock, epoll, chanVars, revents, out, chmap, active, destroyed, wire, died>>

Running(l, f) ==
    /\ pc[l] = "rest" /\ functors[l] # << >>
    /\ Head(functors[l]).run = f

\* onWriteComplete: shutdown.
WriteComplete(l) ==
    /\ Running(l, "writeComplete")
    /\ LET c == Head(functors[l]).conn
       IN  sock' = [sock EXCEPT ![c].shut = @ \/ (~isWriting(c) /\ ~sock[c].rst)]
    /\ functors' = [functors EXCEPT ![l] = Tail(@)]
    /\ LoopStays
    /\ UNCHANGED <<epoll, chanVars, revents, out, chmap, pc, active, work,
                   destroyed, wire, died>>

\* connectDestroyed: disableAll, on a channel that handleClose has disabled,
\* registers it again, with no events.
DisableAgain(l) ==
    /\ Running(l, "connectDestroyed")
    /\ disableAll(Head(functors[l]).conn)
    /\ pc' = [pc EXCEPT ![l] = "erase"]
    /\ LoopStays
    /\ UNCHANGED <<sock, revents, out, chmap, active, work, functors, destroyed, wire>>

\* The thread of main is inside the map of l's poller.
MainInMap(l) == main # NoClient /\ owner[main] = l

\* The descriptor leaves the epoll set if index_ says that it is in it (the mutant
\* asks for the other state).
Deregister_IfDeleted(l, c) ==
    IF index[c] = "deleted" THEN EpollCtl(l, "del", c, {}) ELSE UNCHANGED <<epoll, died>>
Deregister(l, c) ==
    IF index[c] = "added" THEN EpollCtl(l, "del", c, {}) ELSE UNCHANGED <<epoll, died>>

\* connectDestroyed: EPoller::removeChannel.  Two threads inside one std::map
\* leave it with any content, or end the process.
RemoveChannel(l) ==
    /\ pc[l] = "erase"
    /\ LET c == Head(functors[l]).conn
       IN  /\ \/ chmap' = [chmap EXCEPT ![l] = @ \ {c}]
              \/ /\ MainInMap(l)
                 /\ \E content \in SUBSET Clients : chmap' = [chmap EXCEPT ![l] = content]
           /\ Deregister(l, c)
           /\ index' = [index EXCEPT ![c] = "new"]
           /\ destroyed' = [destroyed EXCEPT ![c] = @ + 1]
    /\ functors' = [functors EXCEPT ![l] = Tail(@)]
    /\ pc' = [pc EXCEPT ![l] = "rest"]
    /\ LoopStays
    /\ UNCHANGED <<sock, owner, events, revents, out, active, work, wire>>

MapCrash(l) ==
    /\ pc[l] = "erase" /\ MainInMap(l)
    /\ died' = "map"
    /\ LoopStays
    /\ UNCHANGED <<sock, epoll, chanVars, revents, out, chmap, loopVars, destroyed, wire>>

\* All functors have run.
RestDone(l) == pc[l] = "rest" /\ functors[l] = << >>

EndRest(l) ==
    /\ RestDone(l)
    /\ pc' = [pc EXCEPT ![l] = "poll"]
    /\ LoopStays
    /\ UNCHANGED <<sock, epoll, chanVars, revents, out, chmap, active, work, functors,
                   destroyed, wire, died>>

-------------------------------------------------------------------------------
PoolOnly == UNCHANGED <<sock, epoll, main, chanVars, revents, out, chmap,
                        loopVars, destroyed, wire, died>>
Starts == PoolNext /\ PoolOnly

ClientStep(c) == Connect(c) \/ SendSegment(c) \/ Drain(c) \/ Close(c) \/ Reset(c)

MainStep == Establish \/ \E c \in Clients : Accept(c)

HandleRead(l, c) ==
    \/ ReadAndAppend(l, c) \/ ReadAndSend(l, c) \/ ReadAndDie(l, c)
    \/ ReadEnd(l, c) \/ ReadError(l, c)

LoopStep(l) ==
    \/ Poll(l) \/ StartRest(l) \/ WriteComplete(l)
    \/ DisableAgain(l) \/ RemoveChannel(l) \/ MapCrash(l) \/ EndRest(l)
    \/ \E c \in Clients : HandleRead(l, c) \/ HandleWrite(l, c) \/ WriteFails(l, c)

Next ==
    /\ died = "no"
    /\ \/ Starts \/ MainStep
       \/ \E l \in Loops : LoopStep(l)
       \/ \E c \in Clients : ClientStep(c) \/ AcceptFails(c)

\* The threads of the server are scheduled; the clients may do nothing.
Fairness ==
    /\ WF_vars(died = "no" /\ (StartTask \/ CheckLoop \/ Listen) /\ PoolOnly)
    /\ WF_vars(died = "no" /\ MainStep)
    /\ \A l \in Loops :
         WF_vars(died = "no" /\ ((Handover(l) /\ PoolOnly) \/ LoopStep(l)))

Spec == Init /\ [][Next]_vars /\ Fairness

-------------------------------------------------------------------------------
Sockets ==
    [stage : {"closed", "backlog", "accepted"}, sent : Nat, unread : Nat,
     fin : BOOLEAN, rst : BOOLEAN, queued : Nat, shut : BOOLEAN]

SocketTypeOK ==
    /\ sock \in [Clients -> Sockets]
    /\ \A c \in Clients :
         /\ sock[c].unread <= sock[c].sent /\ sock[c].sent <= Segments[c]
         /\ sock[c].queued <= Capacity[c]

\* What an epoll set may hold.
Registrations == UNION {[D -> SUBSET {"in", "out"}] : D \in SUBSET Clients}

Functors == [run : {"writeComplete", "connectDestroyed"}, conn : Clients]

\* The type invariant: the variables hold what the comments at their declaration say.
TypeOK ==
    /\ PoolTypeOK /\ SocketTypeOK
    /\ epoll \in [Loops -> Registrations]
    /\ main \in Clients \cup {NoClient}
    /\ owner \in [Clients -> Loops \cup {0}]
    /\ events \in [Clients -> SUBSET {"in", "out"}]
    /\ index \in [Clients -> {"new", "added", "deleted"}]
    /\ revents \in [Clients -> SUBSET {"in", "out"}]
    /\ out \in [Clients -> [begin : Nat, end : Nat, capacity : Nat]]
    /\ chmap \in [Loops -> SUBSET Clients]
    /\ pc \in [Loops -> {"poll", "events", "rest", "erase"}]
    /\ active \in [Loops -> Seq(Clients)]
    /\ work \in [Loops -> Seq(Functors)] /\ functors \in [Loops -> Seq(Functors)]
    /\ destroyed \in [Clients -> Nat]
    /\ wire \in [Clients -> 0 .. MaxWire]
    /\ died \in {"no", "accept", "epoll_ctl", "map", "send", "reset", "again"}

(***************************************************************************)
(* The poller's bookkeeping agrees with the kernel's: a channel's index_   *)
(* says "added" exactly when its descriptor is in the epoll set of its own *)
(* loop, with the events the channel asks for; a loop that polls asks      *)
(* every registered descriptor for input; and so epoll_ctl never fails,    *)
(* which would end the process, and no read finds nothing to read, which   *)
(* would end it as well (EPoller::updateChannel and removeChannel,         *)
(* unit::epoll_ctl, Buffer::readFd).  (And the variables have their types.)*)
(***************************************************************************)
ChannelRegistration ==
    /\ TypeOK
    /\ \A c \in Clients, l \in Loops :
         /\ c \in DOMAIN epoll[l] <=> (index[c] = "added" /\ owner[c] = l)
         /\ c \in DOMAIN epoll[l] => epoll[l][c] = events[c]
         /\ c \in DOMAIN epoll[l] /\ pc[l] = "poll" => "in" \in epoll[l][c]
    /\ died \notin {"epoll_ctl", "again"}

\* The loops hold a reference to the connection of c that they will still follow.
Referenced(c) ==
    \E l \in Loops :
        \/ c \in DOMAIN epoll[l] \cup ToSet(active[l])
        \/ \E f \in ToSet(work[l] \o functors[l]) : f.conn = c

(***************************************************************************)
(* connectDestroyed "should be called only once" (TcpConnection.h:28), and *)
(* after it neither epoll, nor a list of active channels, nor queued work  *)
(* leads back to the connection.                                           *)
(***************************************************************************)
DestroyedOnce ==
    \A c \in Clients :
        /\ destroyed[c] <= 1
        /\ destroyed[c] = 1 => ~Referenced(c)

(***************************************************************************)
(* shutdown after the write-complete callback cuts nothing off: when the   *)
(* sending side is shut, one whole reply, and nothing else, was written    *)
(* (sendInLoop, shutdownInLoop).                                           *)
(***************************************************************************)
ShutAfterWhole ==
    \A c \in Clients : sock[c].shut => readableSize(out[c]) = 0 /\ wire[c] = ReplyLen

(***************************************************************************)
(* What waits to be written lies within the array of its buffer: begin is  *)
(* never moved but by readAll, which empties the buffer, so that MakeRoom  *)
(* never counts on the room before begin, which it does not make           *)
(* (Buffer::append, MakeRoom, Expand).                                     *)
(***************************************************************************)
OutputInBounds == \A c \in Clients : InBounds(out[c])

(***************************************************************************)
(* A connection whose client has finished sending is destroyed, unless     *)
(* the process ends: queueInLoop does not wake the loop, and still no work *)
(* is left behind when it polls (handleClose, queueInLoop, doRest).        *)
(***************************************************************************)
ClosedIsDestroyed ==
    \A c \in Clients : sock[c].fin ~> (destroyed[c] = 1 \/ died # "no")

(***************************************************************************)
(* A client that sends something is written a reply, or as much of it as   *)
(* its send buffer holds, unless the process ends (poll, handleRead,       *)
(* onMessage, sendInLoop).                                                 *)
(***************************************************************************)
RequestAnswered ==
    \A c \in Clients : sock[c].sent > 0 ~> (wire[c] >= Min({ReplyLen, Capacity[c]}) \/ died # "no")

(***************************************************************************)
(* The server ends up listening, unless the process ends before: the       *)
(* handover of the loops loses no notification (Task::startLoop).          *)
(***************************************************************************)
Serves == <>(starter = "listening" \/ died # "no")

(***************************************************************************)
(* Channel.h:19: a channel belongs to one EventLoop and so to one I/O      *)
(* thread.  Then the map of channels of a loop's poller, which has no      *)
(* lock, is used by one thread at a time.                                  *)
(***************************************************************************)
PollerMapUsedByOne ==
    \A l \in Loops : ~(MainInMap(l) /\ pc[l] = "erase")
================================================================================
