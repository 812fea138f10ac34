------------------------------- MODULE Reactor -------------------------------
(***************************************************************************)
(* The server of src/src/server_pop: one thread that polls, accepts, reads *)
(* a request, answers it in the same call of handleEvent and closes.  Each *)
(* action is one system call of the loop with the code up to the next, or  *)
(* one thing a client or the network does.                                 *)
(*                                                                         *)
(* A request is a sequence of tokens: "line" (a header line, which alone   *)
(* has the 16 bytes that parse asserts), "blank" (the empty line after the *)
(* headers), "space", and the words.  The listening socket has descriptor  *)
(* 0 here.  A backlog of fewer than 20 connections never overflows, and    *)
(* the kernel does not take an accepted descriptor out of the backlog, so  *)
(* the blocking accept finds the connection that poll announced.           *)
(***************************************************************************)
EXTENDS Integers, FiniteSets, FiniteSetsExt, SequencesExt, PopBuffer

CONSTANTS
    Clients,
    MaxFd,          \* the connections have descriptors 1 .. MaxFd
    Request,        \* Request[c]: the segments in which the request of c arrives
    Faults,         \* Faults[c]: what client c may do early, of "shut" and "reset"
    Words,          \* what clients send apart from header lines, empty lines and spaces
    Vocab,          \* the words of vocab.txt
    Room,           \* how many vectors the send buffer of a connection holds
    MaxFails,       \* bound: how many failed writes of a reply are followed
    NoClient

Tokens == Words \cup {"line", "blank", "space"}   \* what a request consists of
Sent == Vocab \cup {"nullptr", "stray"}           \* what a client may be sent

ASSUME ReactorAssumption ==
    /\ MaxFd \in Nat \ {0} /\ Room \in Nat \ {0} /\ MaxFails \in Nat
    /\ IsFiniteSet(Clients) /\ NoClient \notin Clients
    /\ Request \in [Clients -> Seq(Seq(Tokens))]
    /\ \A c \in Clients : Faults[c] \subseteq {"shut", "reset"}

Listening == 0
Fds == 1 .. MaxFd
Handlers == 1 .. 1 + Cardinality(Clients)   \* one listens, and each connection has one

VARIABLES
    phase,        \* phase[c]: "new", "queued" (in the backlog), "open", "closed" by the server
    peer,         \* peer[c]: the client's side, "alive", "shut" (FIN sent) or "reset"
    toSend,       \* toSend[c]: the segments the client has still to send
    inbox,        \* inbox[c]: what has arrived and is not read
    queued,       \* queued[c]: vectors in the send buffer that c has not read
    stream,       \* stream[c]: all that write() accepted for c
    backlog,      \* connections that wait for accept
    fdOf,         \* fdOf[f]: whose connection descriptor f is
    epoll,        \* epoll[f]: the Handler registered with f, 0 for none
    handlerMap,   \* handlerMap[f]: the Handler of f, 0 for none
    made,         \* Handlers constructed so far (a Handler's identity)
    pc,           \* "start", "poll", "handle" (the event i), "send" (in sendFd), "exit"
    actionEvents, \* the pointers of this round, with their descriptors
    i,            \* the index of the loop over actionEvents
    words,        \* words of the one HttpParse
    output,       \* output[h]: the _output of Handler h, empty from its construction on
    ptr,          \* sendFd: ptr, as an offset into the buffer
    left,         \* sendFd: readableCount
    asked,        \* history: << >>, or <<the words of the request read from c>>
    refused       \* history: refused[c]: how many writes to c failed

clientVars == <<phase, peer, toSend, inbox, queued, stream, backlog>>
serverVars == <<fdOf, epoll, handlerMap, made, pc, actionEvents, i>>
replyVars  == <<words, output, ptr, left, asked, refused>>
vars == <<clientVars, serverVars, replyVars>>

Init ==
    /\ phase = [c \in Clients |-> "new"]
    /\ peer = [c \in Clients |-> "alive"]
    /\ toSend = Request
    /\ inbox = [c \in Clients |-> << >>]
    /\ queued = [c \in Clients |-> 0]
    /\ stream = [c \in Clients |-> << >>]
    /\ backlog = << >>
    /\ fdOf = [f \in Fds |-> NoClient]
    /\ epoll = [f \in {Listening} \cup Fds |-> 0]
    /\ handlerMap = epoll
    /\ made = 0
    /\ pc = "start" /\ actionEvents = << >> /\ i = 1
    /\ words = << >> /\ output = [h \in Handlers |-> EmptyBuffer] /\ ptr = 0 /\ left = 0
    /\ asked = [c \in Clients |-> << >>]
    /\ refused = [c \in Clients |-> 0]
-----------------------------------------------------------------------------
Connect(c) ==
    /\ phase[c] = "new" /\ epoll[Listening] # 0
    /\ phase' = [phase EXCEPT ![c] = "queued"]
    /\ backlog' = Append(backlog, c)
    /\ UNCHANGED <<peer, toSend, inbox, queued, stream>>

\* A segment of the request arrives.
SendSegment(c) ==
    /\ phase[c] \in {"queued", "open"} /\ peer[c] = "alive"
    /\ toSend[c] # << >>
    /\ inbox' = [inbox EXCEPT ![c] = @ \o Head(toSend[c])]
    /\ toSend' = [toSend EXCEPT ![c] = Tail(@)]
    /\ UNCHANGED <<phase, peer, queued, stream, backlog>>

Leave(c) ==
    /\ phase[c] \in {"queued", "open"}
    /\ \E p \in Faults[c] :
         /\ peer[c] = "alive" \/ (peer[c] = "shut" /\ p = "reset")
         /\ peer' = [peer EXCEPT ![c] = p]
    /\ UNCHANGED <<phase, toSend, inbox, queued, stream, backlog>>

\* The client reads what its full send buffer holds.
Drain(c) ==
    /\ queued[c] = Room /\ peer[c] # "reset"
    /\ queued' = [queued EXCEPT ![c] = 0]
    /\ UNCHANGED <<phase, peer, toSend, inbox, stream, backlog>>
-----------------------------------------------------------------------------
Readable(f) ==
    IF f = Listening THEN backlog # << >>
    ELSE fdOf[f] # NoClient /\ (inbox[fdOf[f]] # << >> \/ peer[fdOf[f]] # "alive")

Ready == {f \in DOMAIN epoll : epoll[f] # 0 /\ Readable(f)}

\* What poll adds to actionEvents: the pointers that epoll holds, in any order
\* (20000 places are enough for all).
Collected == {[k \in DOMAIN s |-> [fd |-> s[k], handler |-> epoll[s[k]]]] : s \in SetToSeqs(Ready)}

\* actionEvents.clear(), before every poll (the mutant forgets it)
ClearedEvents_Kept == actionEvents
ClearedEvents == << >>

\* epoll_wait without a timeout returns when something is ready.
Poll ==
    /\ pc = "poll" /\ Ready # {}
    /\ \E s \in Collected : actionEvents' = actionEvents \o s
    /\ pc' = "handle" /\ i' = 1
    /\ UNCHANGED <<clientVars, fdOf, epoll, handlerMap, made, replyVars>>

NextEvent ==
    IF i < Len(actionEvents) THEN /\ pc' = "handle" /\ i' = i + 1
                                  /\ UNCHANGED actionEvents
                             ELSE /\ pc' = "poll" /\ i' = 1
                                  /\ actionEvents' = ClearedEvents

Handling(f) == pc = "handle" /\ actionEvents[i].fd = f

Exit == pc' = "exit" /\ UNCHANGED <<actionEvents, i>>

FreeFds == {f \in Fds : fdOf[f] = NoClient}

\* (the mutant keeps a handler that is in the map)
Install_KeepsOld(f) ==
    /\ made' = made + 1
    /\ handlerMap' = [handlerMap EXCEPT ![f] = IF @ = 0 THEN made' ELSE @]
    /\ epoll' = [epoll EXCEPT ![f] = made']

\* A new Handler for descriptor f replaces the one of an earlier connection.
Install(f) ==
    /\ made' = made + 1
    /\ handlerMap' = [handlerMap EXCEPT ![f] = made']
    /\ epoll' = [epoll EXCEPT ![f] = made']

\* Server::Server: the listening socket is registered with its own Handler.
Start ==
    /\ pc = "start"
    /\ pc' = "poll"
    /\ Install(Listening)
    /\ UNCHANGED <<clientVars, fdOf, actionEvents, i, replyVars>>

\* units::socket, bind and listen end the process when they fail.
StartFails ==
    /\ pc = "start"
    /\ Exit
    /\ UNCHANGED <<clientVars, fdOf, epoll, handlerMap, made, replyVars>>

\* newConn: accept4 takes the lowest free descriptor.
NewConn ==
    /\ Handling(Listening)
    /\ FreeFds # {}
    /\ LET f == Min(FreeFds) IN
         /\ fdOf' = [fdOf EXCEPT ![f] = Head(backlog)]
         /\ Install(f)
    /\ phase' = [phase EXCEPT ![Head(backlog)] = "open"]
    /\ backlog' = Tail(backlog)
    /\ NextEvent
    /\ UNCHANGED <<peer, toSend, inbox, queued, stream, replyVars>>

\* EMFILE: units::accept returns -1, newConn goes on with it, and epoll_ctl ends
\* the process.
NewConnFails ==
    /\ Handling(Listening)
    /\ FreeFds = {}
    /\ Exit
    /\ UNCHANGED <<clientVars, fdOf, epoll, handlerMap, made, replyVars>>

\* The spaces behind a word, in what follows the empty line.
Ends(request) ==
    {p \in 3 .. Len(request) : /\ request[p] = "space" /\ request[p - 1] # "space"
                               /\ \E k \in 1 .. p - 2 : request[k] = "blank"}

\* HttpParse::parse: the words that a space follows, in their order.
Parsed(request) ==
    LET Before(p) == {q \in Ends(request) : q <= p}
        End(n) == CHOOSE p \in Ends(request) : Cardinality(Before(p)) = n
    IN  [n \in 1 .. Cardinality(Ends(request)) |-> request[End(n) - 1]]

\* Data::getWordvec: "nullptr" for a word that is not in the map.
Vector(w) == IF w \in Vocab THEN w ELSE "nullptr"

\* Data::getRespone: the vectors of the words, a space behind each.
Vectors(ws) == [k \in DOMAIN ws |-> Vector(ws[k])]

\* parse appends to words, which nothing clears.
WordsAfter(request) == words \o Parsed(request)

\* write: the request is taken out of _input, whose length parse asserts; the reply
\* goes to the _output of the Handler that handlerMap has for f, and to sendFd.
Write(f, request) ==
    IF "line" \in ToSet(request)
      THEN /\ asked' = [asked EXCEPT ![fdOf[f]] = <<Parsed(request)>>]
           /\ words' = WordsAfter(request)
           /\ output' = [output EXCEPT ![handlerMap[f]] = AppendTo(@, Vectors(words'))]
           /\ ptr' = output'[handlerMap[f]].readIndex
           /\ left' = ReadableBytes(output'[handlerMap[f]])
           /\ pc' = "send"
           /\ UNCHANGED <<actionEvents, i>>
      ELSE Exit /\ UNCHANGED <<asked, words, output, ptr, left>>

\* read with nread > 0: setEvents(EPOLLOUT) overwrites the events of the handler
\* that is being handled, so handleEvent calls write in the same round.
ReadRequest(f) ==
    /\ Handling(f) /\ f # Listening
    /\ inbox[fdOf[f]] # << >>
    /\ inbox' = [inbox EXCEPT ![fdOf[f]] = << >>]
    /\ Write(f, ReadAllAsString(AppendTo(EmptyBuffer, inbox[fdOf[f]])))
    /\ UNCHANGED <<phase, peer, toSend, queued, stream, backlog>>
    /\ UNCHANGED <<fdOf, epoll, handlerMap, made, refused>>

\* close takes the descriptor out of epoll; its Handler stays in handlerMap.  What
\* the client sent or still sends is lost, what it has not read yet is delivered.
CloseFd_Leaves(f) ==   \* (a mutant that leaves it open)
    NextEvent /\ UNCHANGED <<fdOf, epoll, handlerMap, made, clientVars>>
CloseFd(f) ==
    LET c == fdOf[f] IN
    /\ fdOf' = [fdOf EXCEPT ![f] = NoClient]
    /\ epoll' = [epoll EXCEPT ![f] = 0]
    /\ phase' = [phase EXCEPT ![c] = "closed"]
    /\ toSend' = [toSend EXCEPT ![c] = << >>]
    /\ inbox' = [inbox EXCEPT ![c] = << >>]
    /\ queued' = [queued EXCEPT ![c] = 0]
    /\ NextEvent
    /\ UNCHANGED <<handlerMap, made, peer, stream, backlog>>

ReadEof(f) ==
    /\ Handling(f) /\ f # Listening
    /\ inbox[fdOf[f]] = << >> /\ peer[fdOf[f]] = "shut"
    /\ CloseFd(f)
    /\ UNCHANGED replyVars

\* readFd ends the process when readv fails (ECONNRESET, or EAGAIN if nothing came).
ReadFails(f) ==
    /\ Handling(f) /\ f # Listening
    /\ inbox[fdOf[f]] = << >> /\ peer[fdOf[f]] # "shut"
    /\ Exit
    /\ UNCHANGED <<clientVars, fdOf, epoll, handlerMap, made, replyVars>>

Sending(f) == pc = "send" /\ actionEvents[i].fd = f

\* What lies at offset k of the heap when the _output for f is at 0.
ByteAt(f, k) ==
    LET bytes == output[handlerMap[f]].bytes
    IN  IF k \in DOMAIN bytes THEN bytes[k] ELSE "stray"

SendSome(f) ==
    /\ Sending(f) /\ left > 0
    /\ peer[fdOf[f]] # "reset" /\ queued[fdOf[f]] < Room
    /\ LET c == fdOf[f]
           n == Min({left, Room - queued[c]})
       IN  /\ stream' = [stream EXCEPT ![c] = @ \o [k \in 1 .. n |-> ByteAt(f, ptr + k)]]
           /\ queued' = [queued EXCEPT ![c] = @ + n]
           /\ ptr' = ptr + n
           /\ left' = left - n
    /\ UNCHANGED <<phase, peer, toSend, inbox, backlog, serverVars, words, output, asked, refused>>

\* (a mutant in which the test for an error works, and ends the loop)
SendFails_GivesUp(f) ==
    /\ Sending(f) /\ left > 0
    /\ peer[fdOf[f]] = "reset" \/ queued[fdOf[f]] = Room
    /\ refused[fdOf[f]] < MaxFails
    /\ left' = 0
    /\ refused' = [refused EXCEPT ![fdOf[f]] = @ + 1]
    /\ UNCHANGED <<clientVars, serverVars, words, output, ptr, asked>>

\* write fails (EAGAIN, or EPIPE with SIGPIPE ignored): bytesSent is unsigned, so
\* the test for an error is never true, and adding it subtracts one.
SendFails(f) ==
    /\ Sending(f) /\ left > 0
    /\ peer[fdOf[f]] = "reset" \/ queued[fdOf[f]] = Room
    /\ refused[fdOf[f]] < MaxFails
    /\ ptr' = ptr - 1
    /\ left' = left + 1
    /\ refused' = [refused EXCEPT ![fdOf[f]] = @ + 1]
    /\ UNCHANGED <<clientVars, serverVars, words, output, asked>>

\* sendFd resets the buffer after its loop, and write closes the descriptor.
SendDone(f) ==
    /\ Sending(f) /\ left = 0
    /\ output' = [output EXCEPT ![handlerMap[f]] = EmptyBuffer]
    /\ ptr' = 0
    /\ CloseFd(f)
    /\ UNCHANGED <<words, left, asked, refused>>
-----------------------------------------------------------------------------
Server ==
    \/ Start \/ StartFails \/ Poll \/ NewConn \/ NewConnFails
    \/ \E f \in Fds : ReadRequest(f) \/ ReadEof(f) \/ ReadFails(f)
    \/ \E f \in Fds : SendSome(f) \/ SendFails(f) \/ SendDone(f)

Client == /\ pc # "exit"
          /\ \E c \in Clients : Connect(c) \/ SendSegment(c) \/ Leave(c) \/ Drain(c)
          /\ UNCHANGED <<serverVars, replyVars>>

Next == Server \/ Client

Spec == Init /\ [][Next]_vars /\ WF_vars(Server)
-----------------------------------------------------------------------------
\* Pointers with their descriptors, when n Handlers were made.
Events(n) == [fd : {Listening} \cup Fds, handler : 0 .. n]

\* The type invariant: the variables hold what the comments at their declaration say.
TypeOK ==
    /\ phase \in [Clients -> {"new", "queued", "open", "closed"}]
    /\ peer \in [Clients -> {"alive", "shut", "reset"}]
    /\ toSend \in [Clients -> Seq(Seq(Tokens))] /\ inbox \in [Clients -> Seq(Tokens)]
    /\ queued \in [Clients -> 0 .. Room] /\ stream \in [Clients -> Seq(Sent)]
    /\ backlog \in Seq(Clients)
    /\ fdOf \in [Fds -> Clients \cup {NoClient}]
    /\ epoll \in [{Listening} \cup Fds -> 0 .. made]
    /\ handlerMap \in [{Listening} \cup Fds -> 0 .. made]
    /\ made \in 0 .. 1 + Cardinality(Clients)
    /\ pc \in {"start", "poll", "handle", "send", "exit"}
    /\ actionEvents \in Seq(Events(made))
    /\ i \in Nat
    /\ words \in Seq(Tokens)
    /\ output \in [Handlers -> [bytes : Seq(Sent), readIndex : {0}, writeIndex : Nat]]
    /\ \A h \in Handlers : output[h].writeIndex <= Len(output[h].bytes)
    /\ ptr \in Int /\ ptr >= -MaxFails /\ left \in Nat
    /\ asked \in [Clients -> Seq(Seq(Tokens))] /\ refused \in [Clients -> 0 .. MaxFails]

(***************************************************************************)
(* Raw Handler pointers are collected before any is handled, and handling  *)
(* one may close a descriptor, reuse its number and free the Handler that  *)
(* had it.  Still every pointer that is yet to be handled leads to a live  *)
(* Handler, of an open descriptor that has something to read                *)
(* (Epoller::poll, Server::newConn, EventLoop::loop).                      *)
(***************************************************************************)
PendingEventsLive ==
    pc \in {"handle", "send"} =>
        \A k \in DOMAIN actionEvents :
            LET e == actionEvents[k] IN
            /\ k >= i => handlerMap[e.fd] = e.handler /\ epoll[e.fd] = e.handler
            /\ k >= i /\ ~(pc = "send" /\ k = i) => Readable(e.fd)

(***************************************************************************)
(* A descriptor is open exactly while epoll holds a Handler for it, and    *)
(* that is the Handler handlerMap would find; two connections never share  *)
(* a Handler (Server::newConn, read and write).  (And the variables have   *)
(* their types.)                                                           *)
(***************************************************************************)
OneHandlerPerConnection ==
    /\ TypeOK
    /\ \A f \in Fds : /\ fdOf[f] # NoClient <=> epoll[f] # 0
                      /\ epoll[f] \in {0, handlerMap[f]}
    /\ \A f, g \in DOMAIN epoll : f # g /\ epoll[f] # 0 => epoll[f] # epoll[g]

Answered(c) == phase[c] = "closed" /\ asked[c] # << >> /\ refused[c] = 0

(***************************************************************************)
(* Violated.  A client is sent the vectors of the words of its own post,   *)
(* and nothing else ("the words of the post", MyServer::sendMessage): one  *)
(* HttpParse serves all, and parse appends to words, which nothing clears. *)
(***************************************************************************)
AnswersItsPost == \A c \in Clients : Answered(c) => stream[c] = Vectors(asked[c][1])

\* The members of s are found in t, one behind the other.
InOrder(s, t) ==
    \E at \in [DOMAIN s -> DOMAIN t] :
        /\ \A k \in DOMAIN s : t[at[k]] = s[k]
        /\ \A k, l \in DOMAIN s : k < l => at[k] < at[l]

(***************************************************************************)
(* A failed write repeats what was sent but leaves nothing out: whatever   *)
(* writes failed and however few bytes the others took, a client that is   *)
(* closed after its question has been sent all vectors that it asked for,  *)
(* in their order (Buffer::sendFd, Server::write).                         *)
(***************************************************************************)
NothingLeftOut ==
    \A c \in Clients :
        phase[c] = "closed" /\ asked[c] # << >> => InOrder(Vectors(asked[c][1]), stream[c])

Promise == INSTANCE WordService WITH
    Questions <- Seq(Tokens),
    reply <- [c \in Clients |-> IF Answered(c) THEN <<stream[c]>> ELSE << >>],
    up <- pc # "exit"

(***************************************************************************)
(* The reactor implements WordService: one question and one reply for each *)
(* client, the reply ending with the vectors of what was read from this    *)
(* client, as long as no write fails.                                      *)
(***************************************************************************)
ImplementsService == Promise!Spec

(***************************************************************************)
(* A client whose request has arrived, or that has gone, gets its reply    *)
(* and is closed, unless the process ends, or a write fails (which sendFd  *)
(* may then repeat for ever, and nobody else is served meanwhile).         *)
(***************************************************************************)
EveryoneServed ==
    \A c \in Clients :
        phase[c] = "open" /\ (inbox[c] # << >> \/ peer[c] # "alive")
            ~> phase[c] = "closed" \/ pc = "exit" \/ (\E d \in Clients : refused[d] > 0)
==============================================================================
