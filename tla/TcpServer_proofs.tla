--------------------------- MODULE TcpServer_proofs ---------------------------
(***************************************************************************)
(* The loops, channels and connections of the server, for every number of  *)
(* threads, of clients and of what they send.                              *)
(*                                                                         *)
(* ChannelRegistration, DestroyedOnce and ShutAfterWhole each lean on the  *)
(* others.  One invariant carries them all.  LoopInv says what a loop has  *)
(* in hand at each place of its round; RefInv, that whatever leads to a    *)
(* connection (a list of active channels, queued work) is of the loop that *)
(* owns it and of a channel that is registered or about to be destroyed;   *)
(* ChanInv, how index_ and events_ of a channel tell where it is in its    *)
(* life; WireInv, that a reply which did not fit leaves the buffer filled  *)
(* and writing enabled, so that the only connection that is shut is one    *)
(* whose single reply was written whole.                                   *)
(***************************************************************************)
EXTENDS TcpServer, SequenceTheorems, FiniteSetTheorems, TLAPS

\* The loops are started one after the other.
PoolInv ==
    /\ \A i \in 1 .. Len(loops) : loops[i] = i /\ task[i] = "looping"
    /\ \A l \in Loops : l > Starting => task[l] = "none"
    /\ starter = "spawn" => \A l \in Loops : l = Starting => task[l] = "none"
    /\ starter \in {"check", "wait"} => Starting \in Loops
    /\ starter = "listening" => Len(loops) = NumThreads

In(x, s) == \E i \in 1 .. Len(s) : s[i] = x
Distinct(s) == \A i, j \in 1 .. Len(s) : s[i].conn = s[j].conn => i = j

\* What a loop has in hand, at each place of its round.
LoopInv ==
    \A l \in Loops :
      /\ pc[l] = "poll" => active[l] = << >> /\ work[l] = << >> /\ functors[l] = << >>
      /\ pc[l] = "events" => functors[l] = << >>
      /\ pc[l] \in {"rest", "erase"} => active[l] = << >> /\ work[l] = << >>
      /\ Distinct(work[l]) /\ Distinct(functors[l])

Readable(c) == sock[c].unread > 0 \/ sock[c].fin \/ sock[c].rst

\* The channel whose connection l is destroying.
Erasing(l, c) ==
    /\ pc[l] = "erase" /\ functors[l] # << >>
    /\ Head(functors[l]) = [run |-> "connectDestroyed", conn |-> c]

\* What leads to the connection of c at the loop l.
ActiveRef(l, c) ==
    In(c, active[l]) =>
      /\ owner[c] = l /\ index[c] # "new"
      /\ "in" \in revents[c] => "in" \in events[c] /\ Readable(c)

WorkRef(l, c) ==
    \A f \in Functors : f.conn = c /\ In(f, work[l]) =>
      /\ owner[c] = l /\ index[c] # "new"
      /\ In(c, active[l]) => "in" \notin revents[c]
      /\ f.run = "connectDestroyed" => index[c] = "deleted"

FunctorRef(l, c) ==
    \A f \in Functors : f.conn = c /\ In(f, functors[l]) =>
      /\ owner[c] = l /\ index[c] # "new"
      /\ f.run = "connectDestroyed" => index[c] = "deleted" \/ Erasing(l, c)

RefInv == \A l \in Loops, c \in Clients : ActiveRef(l, c) /\ WorkRef(l, c) /\ FunctorRef(l, c)

\* The life of a channel: new, registered for input, disabled, registered for
\* nothing while it is erased, and new again.
Life(c) ==
    /\ index[c] \in {"new", "deleted"} => events[c] = {}
    /\ index[c] # "new" => owner[c] \in Loops /\ destroyed[c] = 0
    /\ index[c] = "added" /\ "in" \notin events[c] => events[c] = {} /\ Erasing(owner[c], c)
    /\ sock[c].stage # "accepted" => index[c] = "new" /\ destroyed[c] = 0
    /\ main = c => index[c] = "new" /\ destroyed[c] = 0 /\ owner[c] \in Loops
                   /\ sock[c].stage = "accepted"
    /\ destroyed[c] <= 1

Registered(l, c) ==
    /\ c \in DOMAIN epoll[l] <=> (index[c] = "added" /\ owner[c] = l)
    /\ c \in DOMAIN epoll[l] => epoll[l][c] = events[c]

RegInv == \A c \in Clients, l \in Loops : Registered(l, c)

ChanInv ==
    /\ \A c \in Clients : Life(c)
    /\ \A l \in Loops : pc[l] = "erase" =>
         \E c \in Clients : Erasing(l, c) /\ index[c] = "added" /\ events[c] = {}
    /\ RegInv
    /\ died \notin {"epoll_ctl", "again"}

Completing(c) ==
    \E l \in Loops : \/ In([run |-> "writeComplete", conn |-> c], work[l])
                     \/ In([run |-> "writeComplete", conn |-> c], functors[l])

\* The reply to c and what of it waits to be written.
WireAt(c) ==
    /\ index[c] = "new" /\ destroyed[c] = 0 => out[c] = EmptyBuffer /\ wire[c] = 0 /\ ~sock[c].shut
    /\ isWriting(c) => readableSize(out[c]) > 0
    /\ Completing(c) => readableSize(out[c]) = 0 /\ wire[c] = ReplyLen
    /\ sock[c].shut => readableSize(out[c]) = 0 /\ wire[c] = ReplyLen
    /\ readableSize(out[c]) = 0 /\ wire[c] > 0 => sock[c].shut \/ sock[c].rst \/ Completing(c)

WireInv == \A c \in Clients : WireAt(c)

BufferInv == \A c \in Clients : out[c].begin = 0 /\ out[c].end <= out[c].capacity

Inv == TypeOK /\ PoolInv /\ LoopInv /\ RefInv /\ ChanInv /\ WireInv /\ BufferInv

-----------------------------------------------------------------------------
(* Sequences by what they hold. *)

LEMMA InEmpty == \A x : ~ In(x, << >>)
BY EmptySeq DEF In

LEMMA InAppend ==
  ASSUME NEW S, NEW s \in Seq(S), NEW e \in S
  PROVE  \A x : In(x, Append(s, e)) <=> In(x, s) \/ x = e
<1>1. /\ Len(s) \in Nat /\ Len(Append(s, e)) = Len(s) + 1
      /\ \A i \in 1 .. Len(s) : Append(s, e)[i] = s[i]
      /\ Append(s, e)[Len(s) + 1] = e
  BY AppendProperties, LenProperties
<1> TAKE x
<1>2. ASSUME In(x, s) \/ x = e PROVE In(x, Append(s, e))
  <2>1. CASE x = e
    BY <1>1, <2>1 DEF In
  <2>2. CASE In(x, s)
    BY <1>1, <2>2 DEF In
  <2> QED
    BY <1>2, <2>1, <2>2
<1>3. ASSUME In(x, Append(s, e)) PROVE In(x, s) \/ x = e
  BY <1>1, <1>3 DEF In
<1> QED
  BY <1>2, <1>3

LEMMA InTail ==
  ASSUME NEW S, NEW s \in Seq(S), s # << >>
  PROVE  /\ In(Head(s), s) /\ Head(s) \in S /\ Tail(s) \in Seq(S)
         /\ \A x : In(x, s) <=> x = Head(s) \/ In(x, Tail(s))
<1>1. /\ Len(s) \in Nat \ {0} /\ Len(Tail(s)) = Len(s) - 1 /\ Head(s) = s[1]
      /\ \A i \in 1 .. Len(Tail(s)) : Tail(s)[i] = s[i + 1]
      /\ Head(s) \in S /\ Tail(s) \in Seq(S)
  BY HeadTailProperties, EmptySeq, LenProperties
<1>2. In(Head(s), s)
  BY <1>1 DEF In
<1>3. ASSUME NEW x, In(x, s) PROVE x = Head(s) \/ In(x, Tail(s))
  <2>1. PICK i \in 1 .. Len(s) : s[i] = x
    BY <1>3 DEF In
  <2>2. CASE i = 1
    BY <1>1, <2>1, <2>2
  <2>3. CASE i # 1
    <3>1. i - 1 \in 1 .. Len(Tail(s)) /\ Tail(s)[i - 1] = x
      BY <1>1, <2>1, <2>3
    <3> QED
      BY <3>1 DEF In
  <2> QED
    BY <2>2, <2>3
<1>4. ASSUME NEW x, In(x, Tail(s)) PROVE In(x, s)
  <2>1. PICK i \in 1 .. Len(Tail(s)) : Tail(s)[i] = x
    BY <1>4 DEF In
  <2>2. i + 1 \in 1 .. Len(s) /\ s[i + 1] = x
    BY <1>1, <2>1
  <2> QED
    BY <2>2 DEF In
<1> QED
  BY <1>1, <1>2, <1>3, <1>4

(* The functors of a queue are of different connections. *)
LEMMA DistinctAppend ==
  ASSUME NEW s \in Seq(Functors), NEW e \in Functors, Distinct(s),
         \A f \in Functors : In(f, s) => f.conn # e.conn
  PROVE  Distinct(Append(s, e))
<1>1. /\ Len(s) \in Nat /\ Len(Append(s, e)) = Len(s) + 1
      /\ \A i \in 1 .. Len(s) : Append(s, e)[i] = s[i] /\ s[i] \in Functors
      /\ Append(s, e)[Len(s) + 1] = e
  BY AppendProperties, LenProperties
<1>2. \A i \in 1 .. Len(s) : s[i].conn # e.conn
  BY <1>1 DEF In
<1>3. \A i \in 1 .. Len(s) + 1 : i \in 1 .. Len(s) \/ i = Len(s) + 1
  BY <1>1
<1> QED
  BY <1>1, <1>2, <1>3 DEF Distinct

LEMMA DistinctTail ==
  ASSUME NEW s \in Seq(Functors), s # << >>, Distinct(s)
  PROVE  /\ Distinct(Tail(s))
         /\ \A f \in Functors : In(f, Tail(s)) => f.conn # Head(s).conn
<1>1. /\ Len(s) \in Nat \ {0} /\ Len(Tail(s)) = Len(s) - 1 /\ Head(s) = s[1]
      /\ \A i \in 1 .. Len(Tail(s)) : Tail(s)[i] = s[i + 1]
  BY HeadTailProperties, EmptySeq, LenProperties
<1>2. \A i \in 1 .. Len(Tail(s)) : i + 1 \in 1 .. Len(s) /\ i + 1 # 1 /\ Tail(s)[i] = s[i + 1]
  BY <1>1
<1>3. Distinct(Tail(s))
  BY <1>1, <1>2 DEF Distinct
<1>4. ASSUME NEW f \in Functors, In(f, Tail(s)) PROVE f.conn # Head(s).conn
  <2>1. PICK i \in 1 .. Len(Tail(s)) : Tail(s)[i] = f
    BY <1>4 DEF In
  <2> QED
    BY <1>1, <1>2, <2>1 DEF Distinct
<1> QED
  BY <1>3, <1>4

LEMMA MinOfTwo ==
  ASSUME NEW a \in Nat, NEW b \in Nat
  PROVE  /\ Min({a, b}) \in {a, b} /\ Min({a, b}) <= a /\ Min({a, b}) <= b
         /\ Min({a, b}) \in Nat
<1>1. \E x \in {a, b} : \A y \in {a, b} : x <= y
  BY DEF Min
<1>2. /\ Min({a, b}) \in {a, b} /\ \A y \in {a, b} : Min({a, b}) <= y
  BY <1>1 DEF Min
<1> QED
  BY <1>2

-----------------------------------------------------------------------------
(* The epoll sets. *)

LEMMA RegistrationsType ==
  ASSUME NEW r
  PROVE  r \in Registrations <=> \E D \in SUBSET Clients : r \in [D -> SUBSET {"in", "out"}]
BY DEF Registrations

(* epoll_ctl that does not fail: one descriptor of one set changes. *)
LEMMA CtlEffect ==
  ASSUME epoll \in [Loops -> Registrations], NEW l \in Loops, NEW c \in Clients,
         NEW op \in {"add", "mod", "del"}, NEW ev \in SUBSET {"in", "out"},
         (op = "add") <=> c \notin DOMAIN epoll[l], EpollCtl(l, op, c, ev)
  PROVE  /\ died' = died /\ epoll' \in [Loops -> Registrations]
         /\ \A k \in Loops : k # l => epoll'[k] = epoll[k]
         /\ \A d \in Clients : d # c =>
              /\ d \in DOMAIN epoll'[l] <=> d \in DOMAIN epoll[l]
              /\ d \in DOMAIN epoll[l] => epoll'[l][d] = epoll[l][d]
         /\ c \in DOMAIN epoll'[l] <=> op # "del"
         /\ op # "del" => epoll'[l][c] = ev
<1> DEFINE known == DOMAIN epoll[l]
           new == IF op = "del" THEN known \ {c} ELSE known \cup {c}
           r == [d \in new |-> IF d = c THEN ev ELSE epoll[l][d]]
<1>1. epoll' = [epoll EXCEPT ![l] = r] /\ died' = died
  BY DEF EpollCtl
<1>2. known \in SUBSET Clients /\ \A d \in known : epoll[l][d] \in SUBSET {"in", "out"}
  BY RegistrationsType
<1>3. new \in SUBSET Clients
  BY <1>2
<1>4. r \in [new -> SUBSET {"in", "out"}]
  BY <1>2
<1>5. r \in Registrations
  BY <1>3, <1>4, RegistrationsType
<1>6. DOMAIN r = new /\ \A d \in new : r[d] = IF d = c THEN ev ELSE epoll[l][d]
  OBVIOUS
<1>7. epoll'[l] = r /\ \A k \in Loops : k # l => epoll'[k] = epoll[k]
  BY <1>1
<1>8. epoll' \in [Loops -> Registrations]
  BY <1>1, <1>5
<1> HIDE DEF r
<1> QED
  BY <1>1, <1>6, <1>7, <1>8

(* What the events of a registered descriptor are taken from. *)
LEMMA ReadyType ==
  ASSUME epoll \in [Loops -> Registrations], NEW l \in Loops, NEW c \in DOMAIN epoll[l]
  PROVE  /\ c \in Clients /\ Ready(l, c) \in SUBSET {"in", "out"} /\ Ready(l, c) \subseteq epoll[l][c]
         /\ "in" \in Ready(l, c) => Readable(c)
<1>1. DOMAIN epoll[l] \in SUBSET Clients /\ epoll[l][c] \in SUBSET {"in", "out"}
  BY RegistrationsType
<1> QED
  BY <1>1 DEF Ready, Readable

-----------------------------------------------------------------------------
(* Types. *)

LEMMA InitType == Init => TypeOK
<1> SUFFICES ASSUME Init PROVE TypeOK
  OBVIOUS
<1>1. NumThreads \in Nat \ {0} /\ 0 \in 0 .. NumThreads - 1 /\ 0 \in 0 .. MaxWire
  BY NumThreadsAssumption, ServerAssumption DEF MaxWire
<1>2. PoolTypeOK
  BY <1>1, EmptySeq DEF Init, PoolInit, PoolTypeOK
<1>3. SocketTypeOK
  BY ServerAssumption DEF Init, SocketTypeOK, Sockets
<1>4. << >> \in Registrations
  <2>1. << >> \in [{} -> SUBSET {"in", "out"}]
    OBVIOUS
  <2> QED
    BY <2>1, RegistrationsType
<1>5. /\ epoll \in [Loops -> Registrations] /\ out \in [Clients -> [begin : Nat, end : Nat, capacity : Nat]]
  BY <1>4 DEF Init, EmptyBuffer
<1>6. /\ active \in [Loops -> Seq(Clients)]
      /\ work \in [Loops -> Seq(Functors)] /\ functors \in [Loops -> Seq(Functors)]
  BY EmptySeq DEF Init
<1> QED
  BY <1>1, <1>2, <1>3, <1>5, <1>6 DEF Init, TypeOK

(* The start of the loops. *)
LEMMA PoolType ==
  ASSUME TypeOK, PoolInv, Starts
  PROVE  TypeOK'
<1>1. PoolTypeOK /\ NumThreads \in Nat \ {0} /\ Starting = Len(loops) + 1 /\ Len(loops) \in Nat
  BY NumThreadsAssumption, LenProperties DEF TypeOK, Starting, PoolTypeOK
<1>2. PoolTypeOK'
  <2>1. CASE StartTask
    BY <1>1, <2>1 DEF StartTask, PoolTypeOK
  <2>2. CASE CheckLoop
    <3>1. CASE LoopBuilt
      <4>1. loops' = Append(loops, Starting) /\ starter' = "spawn" /\ UNCHANGED <<task, next>>
            /\ Starting \in Loops
        BY <2>2, <3>1 DEF CheckLoop, PoolInv
      <4>2. loops' \in Seq(Loops) /\ Len(loops') = Len(loops) + 1
        BY <1>1, <4>1, AppendProperties DEF PoolTypeOK
      <4> QED
        BY <1>1, <4>1, <4>2 DEF PoolTypeOK, Loops
    <3>2. CASE ~LoopBuilt
      BY <1>1, <2>2, <3>2 DEF CheckLoop, PoolTypeOK
    <3> QED
      BY <3>1, <3>2
  <2>3. CASE SpuriousWake
    BY <1>1, <2>3 DEF SpuriousWake, PoolTypeOK
  <2>4. CASE Listen
    BY <1>1, <2>4 DEF Listen, PoolTypeOK
  <2>5. ASSUME NEW l \in Loops, Handover(l) PROVE PoolTypeOK'
    BY <1>1, <2>5 DEF Handover, Notify, PoolTypeOK
  <2> QED
    BY <2>1, <2>2, <2>3, <2>4, <2>5 DEF Starts, PoolNext
<1> QED
  BY <1>2 DEF TypeOK, SocketTypeOK, Starts, PoolOnly, chanVars, loopVars

(* One socket changes. *)
LEMMA SocketChange ==
  ASSUME SocketTypeOK, NEW c \in Clients, NEW r \in Sockets,
         r.unread <= r.sent, r.sent <= Segments[c], r.queued <= Capacity[c],
         sock' = [sock EXCEPT ![c] = r]
  PROVE  SocketTypeOK' /\ sock'[c] = r /\ \A d \in Clients : d # c => sock'[d] = sock[d]
BY DEF SocketTypeOK

LEMMA SocketOf ==
  ASSUME SocketTypeOK, NEW c \in Clients
  PROVE  /\ sock[c] \in Sockets
         /\ sock[c].unread \in Nat /\ sock[c].sent \in Nat /\ sock[c].queued \in Nat
         /\ sock[c].unread <= sock[c].sent /\ sock[c].sent <= Segments[c]
         /\ sock[c].queued <= Capacity[c] /\ Capacity[c] \in Nat /\ Segments[c] \in Nat
BY ServerAssumption DEF SocketTypeOK, Sockets

(* A step of a client keeps the types, and changes of what the server goes *)
(* by only that there is more to read, or a reset.                         *)
LEMMA ClientEffect ==
  ASSUME TypeOK, NEW c \in Clients, ClientStep(c)
  PROVE  /\ ClientOnly /\ SocketTypeOK'
         /\ \A d \in Clients :
              /\ sock'[d].shut = sock[d].shut /\ (sock[d].rst => sock'[d].rst)
              /\ Readable(d) => Readable(d)'
              /\ sock[d].stage = "accepted" <=> sock'[d].stage = "accepted"
<1> DEFINE Effect(r) ==
             /\ r \in Sockets /\ r.unread <= r.sent /\ r.sent <= Segments[c] /\ r.queued <= Capacity[c]
             /\ r.shut = sock[c].shut /\ (sock[c].rst => r.rst)
             /\ Readable(c) => r.unread > 0 \/ r.fin \/ r.rst
             /\ sock[c].stage = "accepted" <=> r.stage = "accepted"
<1>0. SocketTypeOK
  BY DEF TypeOK
<1>1. /\ sock[c] \in Sockets /\ sock[c].unread \in Nat /\ sock[c].sent \in Nat /\ sock[c].queued \in Nat
      /\ sock[c].unread <= sock[c].sent /\ sock[c].sent <= Segments[c]
      /\ sock[c].queued <= Capacity[c] /\ Capacity[c] \in Nat /\ Segments[c] \in Nat
  BY <1>0, SocketOf
<1>2. \E r : Effect(r) /\ sock' = [sock EXCEPT ![c] = r]
  <2>1. CASE Connect(c)
    <3> DEFINE r == [sock[c] EXCEPT !.stage = "backlog"]
    <3>1. sock' = [sock EXCEPT ![c] = r] /\ sock[c].stage = "closed"
      BY <2>1 DEF Connect
    <3>2. Effect(r)
      BY <1>1, <3>1 DEF Sockets, Readable
    <3> QED
      BY <3>1, <3>2
  <2>2. CASE SendSegment(c)
    <3> DEFINE r == [sock[c] EXCEPT !.sent = sock[c].sent + 1, !.unread = sock[c].unread + 1]
    <3>1. sock' = [sock EXCEPT ![c] = r] /\ sock[c].sent < Segments[c]
      BY <1>0, <2>2 DEF SendSegment, SocketTypeOK, Sockets
    <3>2. /\ r \in Sockets /\ r.sent = sock[c].sent + 1 /\ r.unread = sock[c].unread + 1
          /\ r.queued = sock[c].queued /\ r.shut = sock[c].shut /\ r.rst = sock[c].rst
          /\ r.fin = sock[c].fin /\ r.stage = sock[c].stage
      <4>1. sock[c].sent + 1 \in Nat /\ sock[c].unread + 1 \in Nat
        BY <1>1
      <4>2. PICK m \in Nat : m = sock[c].sent + 1
        BY <4>1
      <4>3. PICK n \in Nat : n = sock[c].unread + 1
        BY <4>1
      <4>4. PICK s \in Sockets : s = sock[c]
        BY <1>1
      <4>5. r = [s EXCEPT !.sent = m, !.unread = n]
        BY <4>2, <4>3, <4>4
      <4> HIDE DEF r
      <4>6. /\ r \in Sockets /\ r.sent = m /\ r.unread = n
            /\ r.queued = s.queued /\ r.shut = s.shut /\ r.rst = s.rst
            /\ r.fin = s.fin /\ r.stage = s.stage
        BY <4>5 DEF Sockets
      <4> QED
        BY <4>2, <4>3, <4>4, <4>6
    <3>3. Effect(r)
      BY <1>1, <3>1, <3>2 DEF Readable
    <3> QED
      BY <3>1, <3>3
  <2>3. CASE Drain(c)
    <3> DEFINE r == [sock[c] EXCEPT !.queued = 0]
    <3>1. sock' = [sock EXCEPT ![c] = r]
      BY <2>3 DEF Drain
    <3>2. Effect(r)
      BY <1>1 DEF Sockets, Readable
    <3> QED
      BY <3>1, <3>2
  <2>4. CASE Close(c)
    <3> DEFINE r == [sock[c] EXCEPT !.fin = TRUE]
    <3>1. sock' = [sock EXCEPT ![c] = r]
      BY <2>4 DEF Close
    <3>2. Effect(r)
      BY <1>1 DEF Sockets, Readable
    <3> QED
      BY <3>1, <3>2
  <2>5. CASE Reset(c)
    <3> DEFINE r == [sock[c] EXCEPT !.rst = TRUE, !.queued = 0]
    <3>1. sock' = [sock EXCEPT ![c] = r]
      BY <1>0, <2>5 DEF Reset, SocketTypeOK, Sockets
    <3>2. /\ r \in Sockets /\ r.sent = sock[c].sent /\ r.unread = sock[c].unread
          /\ r.queued = 0 /\ r.shut = sock[c].shut /\ r.rst = TRUE
          /\ r.fin = sock[c].fin /\ r.stage = sock[c].stage
      BY <1>1 DEF Sockets
    <3>3. Effect(r)
      BY <1>1, <3>2 DEF Readable
    <3> QED
      BY <3>1, <3>3
  <2> QED
    BY <2>1, <2>2, <2>3, <2>4, <2>5 DEF ClientStep
<1>3. PICK r : Effect(r) /\ sock' = [sock EXCEPT ![c] = r]
  BY <1>2
<1>4. SocketTypeOK' /\ sock'[c] = r /\ \A d \in Clients : d # c => sock'[d] = sock[d]
  BY <1>0, <1>3, SocketChange
<1>5. ClientOnly
  BY DEF ClientStep, Connect, SendSegment, Drain, Close, Reset
<1>6. \A d \in Clients :
        /\ sock'[d].shut = sock[d].shut /\ (sock[d].rst => sock'[d].rst)
        /\ Readable(d) => Readable(d)'
        /\ sock[d].stage = "accepted" <=> sock'[d].stage = "accepted"
  BY <1>3, <1>4 DEF Readable
<1> QED
  BY <1>4, <1>5, <1>6

LEMMA ClientType ==
  ASSUME TypeOK, NEW c \in Clients, ClientStep(c)
  PROVE  TypeOK'
<1>1. ClientOnly /\ SocketTypeOK'
  BY ClientEffect
<1> QED
  BY <1>1 DEF TypeOK, PoolTypeOK, ClientOnly, poolVars, chanVars, loopVars

-----------------------------------------------------------------------------
(* What the operations of a channel and of a loop do. *)

(* Events are asked for, and the epoll set follows: no call of epoll_ctl fails. *)
LEMMA UpdateEffect ==
  ASSUME TypeOK, RegInv, NEW c \in Clients, NEW ev \in SUBSET {"in", "out"},
         owner[c] \in Loops, UpdateChannel(c, ev)
  PROVE  /\ owner' = owner /\ died' = died /\ epoll' \in [Loops -> Registrations]
         /\ events' \in [Clients -> SUBSET {"in", "out"}]
         /\ index' \in [Clients -> {"new", "added", "deleted"}]
         /\ events'[c] = ev
         /\ index'[c] = IF index[c] = "added" /\ ev = {} THEN "deleted" ELSE "added"
         /\ \A d \in Clients : d # c => events'[d] = events[d] /\ index'[d] = index[d]
         /\ RegInv'
<1> DEFINE l == owner[c]
           op == CtlOp(c, ev)
<1>1. /\ epoll \in [Loops -> Registrations] /\ events \in [Clients -> SUBSET {"in", "out"}]
      /\ index \in [Clients -> {"new", "added", "deleted"}]
  BY DEF TypeOK
<1>2. /\ op \in {"add", "mod", "del"}
      /\ op = "add" <=> index[c] # "added"
      /\ op = "del" <=> index[c] = "added" /\ ev = {}
  BY DEF CtlOp
<1>3. /\ events' = [events EXCEPT ![c] = ev] /\ owner' = owner
      /\ index' = [index EXCEPT ![c] = IF op = "del" THEN "deleted" ELSE "added"]
      /\ EpollCtl(l, op, c, ev)
  BY DEF UpdateChannel
<1>4. c \in DOMAIN epoll[l] <=> index[c] = "added"
  BY DEF RegInv, Registered
<1>5. /\ died' = died /\ epoll' \in [Loops -> Registrations]
      /\ \A k \in Loops : k # l => epoll'[k] = epoll[k]
      /\ \A d \in Clients : d # c =>
           /\ d \in DOMAIN epoll'[l] <=> d \in DOMAIN epoll[l]
           /\ d \in DOMAIN epoll[l] => epoll'[l][d] = epoll[l][d]
      /\ c \in DOMAIN epoll'[l] <=> op # "del"
      /\ op # "del" => epoll'[l][c] = ev
  <2>1. /\ l \in Loops /\ op \in {"add", "mod", "del"} /\ EpollCtl(l, op, c, ev)
        /\ (op = "add") <=> c \notin DOMAIN epoll[l]
    <3> HIDE DEF op, l
    <3>1. l \in Loops
      BY DEF l
    <3>2. (op = "add") <=> c \notin DOMAIN epoll[l]
      BY <1>2, <1>4
    <3> QED
      BY <1>2, <1>3, <3>1, <3>2
  <2> HIDE DEF op, l
  <2> QED
    BY <1>1, <2>1, CtlEffect
<1>6. /\ events'[c] = ev
      /\ index'[c] = IF index[c] = "added" /\ ev = {} THEN "deleted" ELSE "added"
      /\ \A d \in Clients : d # c => events'[d] = events[d] /\ index'[d] = index[d]
      /\ events' \in [Clients -> SUBSET {"in", "out"}]
      /\ index' \in [Clients -> {"new", "added", "deleted"}]
  <2> HIDE DEF op
  <2> QED
    BY <1>1, <1>2, <1>3
<1>7. ASSUME NEW d \in Clients, NEW k \in Loops PROVE Registered(k, d)'
  <2> HIDE DEF op, l
  <2>0. owner' = owner /\ l = owner[c] /\ l \in Loops
    BY <1>3 DEF l
  <2>1. Registered(k, d)
    BY DEF RegInv
  <2>2. CASE d = c
    <3>1. CASE k = l
      BY <1>2, <1>5, <1>6, <2>0, <2>2, <3>1 DEF Registered
    <3>2. CASE k # l
      BY <1>5, <2>0, <2>1, <2>2, <3>2 DEF Registered
    <3> QED
      BY <3>1, <3>2
  <2>3. CASE d # c
    BY <1>5, <1>6, <2>0, <2>1, <2>3 DEF Registered
  <2> QED
    BY <2>2, <2>3
<1> QED
  BY <1>3, <1>5, <1>6, <1>7 DEF RegInv

(* A branch of handleEvent takes its event, and the channel with the last. *)
LEMMA HandledEffect ==
  ASSUME TypeOK, NEW l \in Loops, NEW c \in Clients, NEW e \in {"in", "out"},
         Handling(l, e, c), Handled(l, e, c)
  PROVE  /\ pc[l] = "events" /\ e \in revents[c] /\ In(c, active[l])
         /\ UNCHANGED <<poolVars, main, pc, functors, chmap, destroyed>>
         /\ revents' \in [Clients -> SUBSET {"in", "out"}] /\ active' \in [Loops -> Seq(Clients)]
         /\ \A k \in Loops : \A d : In(d, active'[k]) => In(d, active[k])
         /\ \A d \in Clients : revents'[d] \subseteq revents[d]
         /\ "in" \notin revents'[c]
<1>1. /\ revents \in [Clients -> SUBSET {"in", "out"}] /\ active \in [Loops -> Seq(Clients)]
  BY DEF TypeOK
<1>2. /\ pc[l] = "events" /\ active[l] # << >> /\ c = Head(active[l]) /\ e \in revents[c]
      /\ e = "out" => "in" \notin revents[c]
  BY DEF Handling
<1>3. /\ revents' = [revents EXCEPT ![c] = @ \ {e}]
      /\ active' = IF revents[c] = {e} THEN [active EXCEPT ![l] = Tail(@)] ELSE active
      /\ UNCHANGED <<poolVars, main, pc, functors, chmap, destroyed>>
  BY DEF Handled, LoopStays
<1>4. /\ In(c, active[l]) /\ Tail(active[l]) \in Seq(Clients)
      /\ \A d : In(d, Tail(active[l])) => In(d, active[l])
  <2>1. active[l] \in Seq(Clients)
    BY <1>1
  <2> QED
    BY <1>2, <2>1, InTail
<1>5. /\ revents' \in [Clients -> SUBSET {"in", "out"}] /\ "in" \notin revents'[c]
      /\ \A d \in Clients : revents'[d] \subseteq revents[d]
  BY <1>1, <1>2, <1>3
<1>6. active' \in [Loops -> Seq(Clients)]
  BY <1>1, <1>3, <1>4
<1>7. \A k \in Loops : \A d : In(d, active'[k]) => In(d, active[k])
  <2> TAKE k \in Loops
  <2> TAKE d
  <2>1. CASE active' = active
    BY <2>1
  <2>2. CASE active' = [active EXCEPT ![l] = Tail(@)]
    <3>1. active'[k] = IF k = l THEN Tail(active[l]) ELSE active[k]
      BY <1>1, <2>2
    <3> QED
      BY <1>4, <3>1
  <2> QED
    BY <1>3, <2>1, <2>2
<1> QED
  BY <1>2, <1>3, <1>4, <1>5, <1>6, <1>7

\* The functor q has been queued at l.
QueuedAt(l, q) ==
    /\ work' \in [Loops -> Seq(Functors)] /\ work'[l] = Append(work[l], q)
    /\ \A k \in Loops : k # l => work'[k] = work[k]
    /\ \A k \in Loops : \A g : In(g, work'[k]) <=> In(g, work[k]) \/ (k = l /\ g = q)

(* A functor is queued at one loop. *)
LEMMA QueueEffect ==
  ASSUME TypeOK, NEW l \in Loops, NEW c \in Clients,
         NEW f \in {"writeComplete", "connectDestroyed"}, Queue(l, f, c)
  PROVE  \E q \in Functors : q.run = f /\ q.conn = c /\ QueuedAt(l, q)
<1>1. work \in [Loops -> Seq(Functors)] /\ [run |-> f, conn |-> c] \in Functors
  BY DEF TypeOK, Functors
<1> DEFINE e == [run |-> f, conn |-> c]
<1>2. work' = [work EXCEPT ![l] = Append(work[l], e)]
  BY DEF Queue
<1> HIDE DEF e
<1>3. e \in Functors
  BY <1>1 DEF e
<1>4. /\ work' \in [Loops -> Seq(Functors)] /\ work'[l] = Append(work[l], e)
      /\ \A k \in Loops : k # l => work'[k] = work[k]
  BY <1>1, <1>2, <1>3
<1>5. \A g : In(g, Append(work[l], e)) <=> In(g, work[l]) \/ g = e
  <2>1. work[l] \in Seq(Functors)
    BY <1>1
  <2> QED
    BY <1>3, <2>1, InAppend
<1>6. e.run = f /\ e.conn = c
  BY DEF e
<1>7. QueuedAt(l, e)
  BY <1>4, <1>5 DEF QueuedAt
<1> QED
  BY <1>3, <1>6, <1>7

(* What is appended to a buffer that begins at its array's begin. *)
LEMMA AppendEffect ==
  ASSUME NEW b \in [begin : Nat, end : Nat, capacity : Nat], NEW len \in Nat,
         b.begin = 0, b.end <= b.capacity
  PROVE  /\ append(b, len) \in [begin : Nat, end : Nat, capacity : Nat]
         /\ append(b, len).begin = 0 /\ append(b, len).end <= append(b, len).capacity
         /\ readableSize(append(b, len)) = readableSize(b) + len
         /\ readableSize(b) \in Nat
<1>0. Exp \in Nat
  BY ExpAssumption
<1>1. /\ b.end \in Nat /\ b.capacity \in Nat /\ readableSize(b) = b.end
  BY DEF readableSize
<1>2. PICK m : m = MakeRoom(b, len)
  OBVIOUS
<1>3. /\ m \in [begin : Nat, end : Nat, capacity : Nat] /\ m.begin = 0 /\ m.end = b.end
      /\ m.end + len <= m.capacity
  <2>1. CASE b.end + len <= b.capacity \/ readableSize(b) + len < b.capacity
    BY <1>1, <1>2, <2>1 DEF MakeRoom
  <2>2. CASE ~ (b.end + len <= b.capacity \/ readableSize(b) + len < b.capacity)
    <3>1. m = [begin |-> 0, end |-> b.end,
               capacity |-> Greater(Exp, Greater(2 * b.capacity, b.end + len))]
      BY <1>1, <1>2, <2>2 DEF MakeRoom, Expand
    <3>2. /\ Greater(Exp, Greater(2 * b.capacity, b.end + len)) \in Nat
          /\ Greater(Exp, Greater(2 * b.capacity, b.end + len)) >= b.end + len
      BY <1>0, <1>1 DEF Greater
    <3> QED
      BY <1>1, <3>1, <3>2
  <2> QED
    BY <2>1, <2>2
<1>4. append(b, len) = [m EXCEPT !.end = m.end + len]
  BY <1>2, <1>3 DEF append
<1>5. /\ append(b, len) \in [begin : Nat, end : Nat, capacity : Nat]
      /\ append(b, len).begin = 0 /\ append(b, len).end = b.end + len
      /\ append(b, len).capacity = m.capacity
  BY <1>1, <1>3, <1>4
<1> QED
  BY <1>1, <1>3, <1>5 DEF readableSize

-----------------------------------------------------------------------------
(* The steps that leave the loops and the channels alone. *)

LEMMA PoolStep ==
  ASSUME TypeOK, PoolInv, Starts
  PROVE  PoolInv'
<1>1. /\ loops \in Seq(Loops) /\ Len(loops) \in Nat /\ Starting = Len(loops) + 1
      /\ task \in [Loops -> {"none", "created", "looping"}] /\ NumThreads \in Nat
      /\ Len(loops) <= NumThreads /\ Loops = 1 .. NumThreads
  BY NumThreadsAssumption, LenProperties DEF TypeOK, PoolTypeOK, Starting, Loops
<1>2. CASE StartTask
  BY <1>1, <1>2 DEF StartTask, PoolInv, Starting
<1>3. CASE CheckLoop
  <2>1. CASE LoopBuilt
    <3>1. /\ loops' = Append(loops, Starting) /\ starter' = "spawn" /\ task' = task
          /\ Starting \in Loops /\ task[Starting] = "looping"
      BY <1>3, <2>1 DEF CheckLoop, PoolInv, LoopBuilt
    <3>2. /\ Len(loops') = Starting /\ loops'[Starting] = Starting
          /\ \A i \in 1 .. Len(loops) : loops'[i] = loops[i]
      BY <1>1, <3>1, AppendProperties
    <3>3. \A i \in 1 .. Len(loops') : loops'[i] = i /\ task'[i] = "looping"
      <4> TAKE i \in 1 .. Len(loops')
      <4>1. CASE i = Starting
        BY <3>1, <3>2, <4>1
      <4>2. CASE i # Starting
        <5>1. i \in 1 .. Len(loops)
          BY <1>1, <3>2, <4>2
        <5> QED
          BY <3>1, <3>2, <5>1 DEF PoolInv
      <4> QED
        BY <4>1, <4>2
    <3>4. Starting' = Starting + 1
      BY <1>1, <3>2 DEF Starting
    <3>5. \A l \in Loops : l > Starting => task'[l] = "none"
      BY <3>1 DEF PoolInv
    <3>6. \A l \in Loops : l >= Starting' => task'[l] = "none"
      BY <1>1, <3>4, <3>5
    <3> QED
      BY <1>1, <3>1, <3>3, <3>4, <3>6 DEF PoolInv
  <2>2. CASE ~LoopBuilt
    BY <1>1, <1>3, <2>2 DEF CheckLoop, PoolInv, Starting
  <2> QED
    BY <2>1, <2>2
<1>4. CASE SpuriousWake
  BY <1>1, <1>4 DEF SpuriousWake, PoolInv, Starting
<1>5. CASE Listen
  BY <1>1, <1>5 DEF Listen, PoolInv, Starting
<1>6. ASSUME NEW l \in Loops, Handover(l) PROVE PoolInv'
  <2>1. /\ task[l] = "created" /\ task' = [task EXCEPT ![l] = "looping"] /\ loops' = loops
        /\ starter' = IF starter = "wait" /\ l = Starting THEN "check" ELSE starter
    BY <1>6 DEF Handover, Notify
  <2>2. l = Starting
    BY <1>1, <2>1 DEF PoolInv
  <2>3. Starting' = Starting
    BY <2>1 DEF Starting
  <2>4. starter # "spawn" /\ starter # "listening"
    BY <1>1, <2>1, <2>2 DEF PoolInv
  <2>5. \A k \in Loops : k # l => task'[k] = task[k]
    BY <1>1, <2>1
  <2>6. \A i \in 1 .. Len(loops) : loops'[i] = i /\ task'[i] = "looping"
    BY <1>1, <2>1, <2>2, <2>5 DEF PoolInv
  <2>7. starter' # "spawn" /\ starter' # "listening"
    BY <2>1, <2>4
  <2>8. starter' \in {"check", "wait"} => Starting' \in Loops
    BY <2>2, <2>3
  <2>9. \A k \in Loops : k > Starting' => task'[k] = "none"
    BY <1>1, <2>2, <2>3, <2>5 DEF PoolInv
  <2> QED
    BY <2>1, <2>6, <2>7, <2>8, <2>9 DEF PoolInv
<1> QED
  BY <1>2, <1>3, <1>4, <1>5, <1>6 DEF Starts, PoolNext

LEMMA PoolConstructed ==
  ASSUME TypeOK, PoolInv
  PROVE  LoopsConstructed
<1>1. /\ Len(loops) \in Nat /\ Starting = Len(loops) + 1 /\ Loops = 1 .. NumThreads
  BY LenProperties DEF TypeOK, PoolTypeOK, Starting, Loops
<1>2. \A l \in Loops : l \in 1 .. Len(loops) \/ l = Starting \/ l > Starting
  BY <1>1, NumThreadsAssumption
<1> QED
  BY <1>1, <1>2 DEF LoopsConstructed, PoolInv

(* Where the channels are registered depends on these only. *)
LEMMA ChanKept ==
  ASSUME ChanInv, UNCHANGED <<epoll, main, chanVars, destroyed>>,
         died' \notin {"epoll_ctl", "again"},
         \A d \in Clients : sock[d].stage = "accepted" <=> sock'[d].stage = "accepted",
         \A l \in Loops, d \in Clients : Erasing(l, d) => Erasing(l, d)',
         \A l \in Loops : pc'[l] = "erase" => pc[l] = "erase"
  PROVE  ChanInv'
<1>1. RegInv'
  BY DEF ChanInv, RegInv, Registered, chanVars
<1>2. ASSUME NEW d \in Clients PROVE Life(d)'
  <2>1. Life(d)
    BY DEF ChanInv
  <2>2. index[d] # "new" => owner[d] \in Loops
    BY <2>1 DEF Life
  <2> QED
    BY <2>1, <2>2 DEF Life, chanVars
<1>3. ASSUME NEW l \in Loops, pc'[l] = "erase"
      PROVE  \E d \in Clients : Erasing(l, d)' /\ index'[d] = "added" /\ events'[d] = {}
  BY <1>3 DEF ChanInv, chanVars
<1> QED
  BY <1>1, <1>2, <1>3 DEF ChanInv

(* The loops are started while there is no connection that could be disturbed. *)
LEMMA StartsInv ==
  ASSUME Inv, Starts
  PROVE  Inv'
<1>1. TypeOK' /\ PoolInv'
  BY PoolType, PoolStep DEF Inv
<1>2. PoolOnly
  BY DEF Starts
<1>3. LoopInv' /\ BufferInv'
  BY <1>2 DEF Inv, LoopInv, BufferInv, PoolOnly, loopVars
<1>4. RefInv'
  BY <1>2 DEF Inv, RefInv, ActiveRef, WorkRef, FunctorRef, Erasing, Readable, PoolOnly, chanVars, loopVars
<1>5. ChanInv'
  <2>1. \A l \in Loops, d \in Clients : Erasing(l, d) => Erasing(l, d)'
    BY <1>2 DEF Erasing, PoolOnly, loopVars
  <2>2. \A l \in Loops : pc'[l] = "erase" => pc[l] = "erase"
    BY <1>2 DEF PoolOnly, loopVars
  <2>3. /\ UNCHANGED <<epoll, main, chanVars, destroyed>>
        /\ died' \notin {"epoll_ctl", "again"}
        /\ \A d \in Clients : sock[d].stage = "accepted" <=> sock'[d].stage = "accepted"
    BY <1>2 DEF PoolOnly, Inv, ChanInv
  <2> QED
    BY <2>1, <2>2, <2>3, ChanKept DEF Inv
<1>6. WireInv'
  BY <1>2 DEF Inv, WireInv, WireAt, Completing, isWriting, PoolOnly, chanVars, loopVars
<1> QED
  BY <1>1, <1>3, <1>4, <1>5, <1>6 DEF Inv

(* A client makes more readable, never less. *)
LEMMA ClientInv ==
  ASSUME Inv, NEW c \in Clients, ClientStep(c)
  PROVE  Inv'
<1>1. TypeOK'
  BY ClientType DEF Inv
<1>2. /\ ClientOnly
      /\ \A d \in Clients :
           /\ sock'[d].shut = sock[d].shut /\ (sock[d].rst => sock'[d].rst)
           /\ Readable(d) => Readable(d)'
           /\ sock[d].stage = "accepted" <=> sock'[d].stage = "accepted"
  BY ClientEffect DEF Inv
<1>3. LoopInv' /\ BufferInv' /\ PoolInv'
  BY <1>2 DEF Inv, LoopInv, BufferInv, PoolInv, Starting, ClientOnly, poolVars, loopVars
<1>4. RefInv'
  BY <1>2 DEF Inv, RefInv, ActiveRef, WorkRef, FunctorRef, Erasing, ClientOnly, chanVars, loopVars
<1>5. ChanInv'
  <2>1. \A l \in Loops, d \in Clients : Erasing(l, d) => Erasing(l, d)'
    BY <1>2 DEF Erasing, ClientOnly, loopVars
  <2>2. \A l \in Loops : pc'[l] = "erase" => pc[l] = "erase"
    BY <1>2 DEF ClientOnly, loopVars
  <2>3. /\ UNCHANGED <<epoll, main, chanVars, destroyed>>
        /\ died' \notin {"epoll_ctl", "again"}
        /\ \A d \in Clients : sock[d].stage = "accepted" <=> sock'[d].stage = "accepted"
    BY <1>2 DEF ClientOnly, Inv, ChanInv
  <2> QED
    BY <2>1, <2>2, <2>3, ChanKept DEF Inv
<1>6. WireInv'
  BY <1>2 DEF Inv, WireInv, WireAt, Completing, isWriting, ClientOnly, chanVars, loopVars
<1> QED
  BY <1>1, <1>3, <1>4, <1>5, <1>6 DEF Inv

(* The process ends, for another reason than a failing epoll_ctl or an empty read. *)
LEMMA EndInv ==
  ASSUME Inv, died' \in {"no", "accept", "map"},
         UNCHANGED <<poolVars, sock, epoll, main, chanVars, revents, out, chmap,
                     loopVars, destroyed, wire>>
  PROVE  Inv'
<1>1. TypeOK'
  BY DEF Inv, TypeOK, PoolTypeOK, SocketTypeOK, poolVars, chanVars, loopVars
<1>3. LoopInv' /\ BufferInv' /\ PoolInv'
  BY DEF Inv, LoopInv, BufferInv, PoolInv, Starting, poolVars, loopVars
<1>4. RefInv'
  BY DEF Inv, RefInv, ActiveRef, WorkRef, FunctorRef, Erasing, Readable, chanVars, loopVars
<1>5. ChanInv'
  <2>1. \A l \in Loops, d \in Clients : Erasing(l, d) => Erasing(l, d)'
    BY DEF Erasing, loopVars
  <2>2. \A l \in Loops : pc'[l] = "erase" => pc[l] = "erase"
    BY DEF loopVars
  <2> QED
    BY <2>1, <2>2, ChanKept DEF Inv
<1>6. WireInv'
  BY DEF Inv, WireInv, WireAt, Completing, isWriting, chanVars, loopVars
<1> QED
  BY <1>1, <1>3, <1>4, <1>5, <1>6 DEF Inv

-----------------------------------------------------------------------------
(* The branches of handleEvent. *)

(* The channel that a loop is handling is registered for input, or is disabled; *)
(* nothing is queued for it while its input is not handled.                     *)
LEMMA ActiveChannel ==
  ASSUME Inv, NEW l \in Loops, NEW c \in Clients, pc[l] = "events", In(c, active[l])
  PROVE  /\ owner[c] = l /\ main # c
         /\ \/ index[c] = "added" /\ "in" \in events[c]
            \/ index[c] = "deleted" /\ events[c] = {}
         /\ "in" \in revents[c] =>
              /\ index[c] = "added" /\ "in" \in events[c] /\ Readable(c) /\ ~Completing(c)
              /\ \A f \in Functors : In(f, work[l]) => f.conn # c
<1>1. /\ ActiveRef(l, c) /\ Life(c) /\ functors[l] = << >>
      /\ index[c] \in {"new", "added", "deleted"}
      /\ \A k \in Loops : WorkRef(k, c) /\ FunctorRef(k, c)
  BY DEF Inv, RefInv, ChanInv, LoopInv, TypeOK
<1>2. /\ owner[c] = l /\ index[c] # "new"
      /\ "in" \in revents[c] => "in" \in events[c] /\ Readable(c)
  BY <1>1 DEF ActiveRef
<1>3. main # c /\ ~Erasing(l, c)
  BY <1>1, <1>2 DEF Life, Erasing
<1>4. \/ index[c] = "added" /\ "in" \in events[c]
      \/ index[c] = "deleted" /\ events[c] = {}
  BY <1>1, <1>2, <1>3 DEF Life
<1>5. ASSUME "in" \in revents[c]
      PROVE  /\ index[c] = "added" /\ ~Completing(c)
             /\ \A f \in Functors : In(f, work[l]) => f.conn # c
  <2>1. \A f \in Functors : In(f, work[l]) => f.conn # c
    BY <1>1, <1>5 DEF WorkRef
  <2>2. [run |-> "writeComplete", conn |-> c] \in Functors /\ [run |-> "writeComplete", conn |-> c].conn = c
    BY DEF Functors
  <2>3. ~Completing(c)
    <3> SUFFICES ASSUME Completing(c) PROVE FALSE
      OBVIOUS
    <3>1. PICK k \in Loops : \/ In([run |-> "writeComplete", conn |-> c], work[k])
                             \/ In([run |-> "writeComplete", conn |-> c], functors[k])
      BY DEF Completing
    <3>2. k = l
      BY <1>1, <1>2, <2>2, <3>1 DEF WorkRef, FunctorRef
    <3> QED
      BY <1>1, <2>1, <2>2, <3>1, <3>2, InEmpty
  <2> QED
    BY <1>2, <1>4, <1>5, <2>1, <2>3
<1> QED
  BY <1>2, <1>3, <1>4, <1>5

LEMMA FunctorRefKept ==
  ASSUME NEW l \in Loops, NEW c \in Clients, FunctorRef(l, c),
         functors'[l] = functors[l], owner'[c] = owner[c], index[c] # "new" => index'[c] # "new",
         index[c] = "deleted" => index'[c] = "deleted", Erasing(l, c) => Erasing(l, c)'
  PROVE  FunctorRef(l, c)'
<1> SUFFICES ASSUME NEW f \in Functors, f.conn = c, In(f, functors[l])
             PROVE  /\ owner'[c] = l /\ index'[c] # "new"
                    /\ f.run = "connectDestroyed" => index'[c] = "deleted" \/ Erasing(l, c)'
  BY DEF FunctorRef
<1> QED
  BY DEF FunctorRef

LEMMA LifeInUse ==
  ASSUME NEW c \in Clients, index'[c] \in {"added", "deleted"}, owner'[c] \in Loops,
         destroyed'[c] = 0, sock'[c].stage = "accepted", main' # c,
         index'[c] = "deleted" => events'[c] = {},
         index'[c] = "added" => "in" \in events'[c]
  PROVE  Life(c)'
BY DEF Life

(* What a branch may do: change its own socket, buffer and channel, and, when *)
(* it handles input, queue one functor.                                       *)
LEMMA HandlerInv ==
  ASSUME Inv, NEW l \in Loops, NEW c \in Clients, NEW e \in {"in", "out"},
         Handling(l, e, c), Handled(l, e, c),
         SocketTypeOK', RegInv', WireAt(c)', owner' = owner,
         epoll' \in [Loops -> Registrations], events' \in [Clients -> SUBSET {"in", "out"}],
         index' \in [Clients -> {"new", "added", "deleted"}],
         out' \in [Clients -> [begin : Nat, end : Nat, capacity : Nat]],
         wire' \in [Clients -> 0 .. MaxWire], died' \in {"no", "send", "reset"},
         \A d \in Clients : d # c =>
           /\ events'[d] = events[d] /\ index'[d] = index[d]
           /\ sock'[d] = sock[d] /\ out'[d] = out[d] /\ wire'[d] = wire[d],
         sock'[c].stage = sock[c].stage,
         out'[c].begin = 0 /\ out'[c].end <= out'[c].capacity,
         \/ index'[c] = "added" /\ "in" \in events'[c] /\ index[c] = "added"
         \/ index'[c] = "deleted" /\ events'[c] = {},
         \/ work' = work
         \/ /\ e = "in"
            /\ \E f \in {"writeComplete", "connectDestroyed"} :
                 Queue(l, f, c) /\ (f = "connectDestroyed" => index'[c] = "deleted")
  PROVE  Inv'
<1>1. /\ pc[l] = "events" /\ e \in revents[c] /\ In(c, active[l])
      /\ UNCHANGED <<poolVars, main, pc, functors, chmap, destroyed>>
      /\ revents' \in [Clients -> SUBSET {"in", "out"}] /\ active' \in [Loops -> Seq(Clients)]
      /\ \A k \in Loops : \A d : In(d, active'[k]) => In(d, active[k])
      /\ \A d \in Clients : revents'[d] \subseteq revents[d]
      /\ "in" \notin revents'[c]
  <2> USE DEF Inv
  <2> QED
    BY HandledEffect
<1>2. /\ owner[c] = l /\ main # c
      /\ "in" \in revents[c] => \A f \in Functors : In(f, work[l]) => f.conn # c
      /\ index[c] # "new"
  BY <1>1, ActiveChannel
<1>3. /\ work' \in [Loops -> Seq(Functors)]
      /\ \A k \in Loops : Distinct(work'[k])
      /\ \A k \in Loops : k # l => work'[k] = work[k]
      /\ \A k \in Loops, g \in Functors : In(g, work'[k]) =>
           \/ In(g, work[k])
           \/ k = l /\ g.conn = c /\ (g.run = "connectDestroyed" => index'[c] = "deleted")
      /\ \A k \in Loops, g \in Functors : In(g, work[k]) => In(g, work'[k])
      /\ \A k \in Loops, g \in Functors : g.conn # c /\ In(g, work'[k]) => In(g, work[k])
  <2>1. CASE work' = work
    BY <2>1 DEF Inv, TypeOK, LoopInv
  <2>2. CASE work' # work
    <3>0. PICK f \in {"writeComplete", "connectDestroyed"} :
            Queue(l, f, c) /\ (f = "connectDestroyed" => index'[c] = "deleted")
      BY <2>2
    <3>1. TypeOK /\ e = "in"
      BY <2>2 DEF Inv
    <3>2. PICK q \in Functors : q.run = f /\ q.conn = c /\ QueuedAt(l, q)
      BY <3>0, <3>1, QueueEffect
    <3>3. /\ work' \in [Loops -> Seq(Functors)] /\ work'[l] = Append(work[l], q)
          /\ \A k \in Loops : k # l => work'[k] = work[k]
          /\ \A k \in Loops : \A g : In(g, work'[k]) <=> In(g, work[k]) \/ (k = l /\ g = q)
      BY <3>2 DEF QueuedAt
    <3>4. work[l] \in Seq(Functors) /\ \A k \in Loops : Distinct(work[k])
      BY <3>1 DEF TypeOK, Inv, LoopInv
    <3>5. \A g \in Functors : In(g, work[l]) => g.conn # q.conn
      BY <1>1, <1>2, <3>1, <3>2
    <3>6. Distinct(work'[l])
      BY <3>3, <3>4, <3>5, DistinctAppend
    <3>7. \A k \in Loops : Distinct(work'[k])
      BY <3>3, <3>4, <3>6
    <3>8. \A k \in Loops, g \in Functors : In(g, work'[k]) =>
           \/ In(g, work[k])
           \/ k = l /\ g.conn = c /\ (g.run = "connectDestroyed" => index'[c] = "deleted")
      BY <3>0, <3>2, <3>3
    <3>9. \A k \in Loops, g \in Functors : g.conn # c /\ In(g, work'[k]) => In(g, work[k])
      BY <3>2, <3>3
    <3> QED
      BY <3>3, <3>7, <3>8, <3>9
  <2> QED
    BY <2>1, <2>2
<1>4. TypeOK'
  BY <1>1, <1>3 DEF Inv, TypeOK, PoolTypeOK, poolVars
<1>5. PoolInv' /\ BufferInv'
  <2>1. PoolInv'
    BY <1>1 DEF Inv, PoolInv, Starting, poolVars
  <2>2. ASSUME NEW d \in Clients PROVE out'[d].begin = 0 /\ out'[d].end <= out'[d].capacity
    <3>1. d # c => out'[d] = out[d]
      OBVIOUS
    <3>2. out[d].begin = 0 /\ out[d].end <= out[d].capacity
      BY DEF Inv, BufferInv
    <3> QED
      BY <3>1, <3>2
  <2> QED
    BY <2>1, <2>2 DEF BufferInv
<1>6. LoopInv'
  <2> SUFFICES ASSUME NEW k \in Loops
               PROVE  /\ pc'[k] = "poll" => active'[k] = << >> /\ work'[k] = << >> /\ functors'[k] = << >>
                      /\ pc'[k] = "events" => functors'[k] = << >>
                      /\ pc'[k] \in {"rest", "erase"} => active'[k] = << >> /\ work'[k] = << >>
                      /\ Distinct(work'[k]) /\ Distinct(functors'[k])
    BY DEF LoopInv
  <2>1. /\ pc[k] = "poll" => active[k] = << >> /\ work[k] = << >> /\ functors[k] = << >>
        /\ pc[k] = "events" => functors[k] = << >>
        /\ pc[k] \in {"rest", "erase"} => active[k] = << >> /\ work[k] = << >>
        /\ Distinct(functors[k])
    BY DEF Inv, LoopInv
  <2>2. k # l => active'[k] = active[k]
    BY DEF Handled, Inv, TypeOK
  <2>3. pc' = pc /\ functors' = functors
    BY <1>1
  <2>4. CASE k = l
    BY <1>1, <1>3, <2>1, <2>3, <2>4
  <2>5. CASE k # l
    BY <1>3, <2>1, <2>2, <2>3, <2>5
  <2> QED
    BY <2>4, <2>5
<1>7. \A k \in Loops, d \in Clients : Erasing(k, d)' <=> Erasing(k, d)
  BY <1>1 DEF Erasing
<1>8. RefInv'
  <2> SUFFICES ASSUME NEW k \in Loops, NEW d \in Clients
               PROVE  ActiveRef(k, d)' /\ WorkRef(k, d)' /\ FunctorRef(k, d)'
    BY DEF RefInv
  <2>1. ActiveRef(k, d) /\ WorkRef(k, d) /\ FunctorRef(k, d)
    BY DEF Inv, RefInv
  <2>2. ActiveRef(k, d)'
    <3>1. CASE d = c
      BY <1>1, <1>2, <2>1, <3>1 DEF ActiveRef
    <3>2. CASE d # c
      <4>1. Readable(d)' <=> Readable(d)
        BY <3>2 DEF Readable
      <4>2. In(d, active'[k]) => In(d, active[k])
        BY <1>1
      <4>3. "in" \in revents'[d] => "in" \in revents[d]
        BY <1>1
      <4> QED
        BY <2>1, <3>2, <4>1, <4>2, <4>3 DEF ActiveRef
    <3> QED
      BY <3>1, <3>2
  <2>3. WorkRef(k, d)'
    <3> SUFFICES ASSUME NEW f \in Functors, f.conn = d, In(f, work'[k])
                 PROVE  /\ owner'[d] = k /\ index'[d] # "new"
                        /\ In(d, active'[k]) => "in" \notin revents'[d]
                        /\ f.run = "connectDestroyed" => index'[d] = "deleted"
      BY DEF WorkRef
    <3>1. CASE d = c
      <4>1. index'[c] \in {"added", "deleted"} /\ (index[c] = "deleted" => index'[c] = "deleted")
        OBVIOUS
      <4>2. \/ In(f, work[k])
            \/ k = l /\ (f.run = "connectDestroyed" => index'[c] = "deleted")
        BY <1>3
      <4>3. In(f, work[k]) => owner[c] = k /\ (f.run = "connectDestroyed" => index[c] = "deleted")
        BY <2>1, <3>1 DEF WorkRef
      <4> QED
        BY <1>1, <1>2, <3>1, <4>1, <4>2, <4>3
    <3>2. CASE d # c
      <4>1. In(f, work[k])
        BY <1>3, <3>2
      <4>2. In(d, active'[k]) => In(d, active[k])
        BY <1>1
      <4>3. "in" \in revents'[d] => "in" \in revents[d]
        BY <1>1
      <4> QED
        BY <2>1, <3>2, <4>1, <4>2, <4>3 DEF WorkRef
    <3> QED
      BY <3>1, <3>2
  <2>4. FunctorRef(k, d)'
    <3>1. functors'[k] = functors[k] /\ (Erasing(k, d)' <=> Erasing(k, d))
      BY <1>1, <1>7
    <3>2. CASE d = c
      <4>1. index'[c] \in {"added", "deleted"} /\ (index[c] = "deleted" => index'[c] = "deleted")
        OBVIOUS
      <4> QED
        BY <2>1, <3>1, <3>2, <4>1, FunctorRefKept
    <3>3. CASE d # c
      <4>1. owner'[d] = owner[d] /\ index'[d] = index[d]
        BY <3>3
      <4> QED
        BY <2>1, <3>1, <4>1, FunctorRefKept
    <3> QED
      BY <3>2, <3>3
  <2> QED
    BY <2>2, <2>3, <2>4
<1>9. ChanInv'
  <2>1. ASSUME NEW d \in Clients PROVE Life(d)'
    <3>1. Life(d)
      BY DEF Inv, ChanInv
    <3>2. CASE d = c
      <4>1. destroyed[c] = 0 /\ destroyed' = destroyed /\ main' = main /\ sock[c].stage = "accepted"
        BY <1>1, <1>2, <3>1, <3>2 DEF Life
      <4>2. /\ main' # c /\ owner'[c] \in Loops
            /\ destroyed'[c] = 0 /\ sock'[c].stage = "accepted"
        BY <1>2, <4>1
      <4>3. /\ index'[c] \in {"added", "deleted"}
            /\ index'[c] = "deleted" => events'[c] = {}
            /\ index'[c] = "added" => "in" \in events'[c]
        OBVIOUS
      <4> QED
        BY <3>2, <4>2, <4>3, LifeInUse
    <3>3. CASE d # c
      <4>1. owner[d] \in Loops => (Erasing(owner[d], d)' <=> Erasing(owner[d], d))
        BY <1>7
      <4>2. /\ main' = main /\ destroyed' = destroyed /\ owner' = owner
            /\ events'[d] = events[d] /\ index'[d] = index[d] /\ sock'[d] = sock[d]
        BY <1>1, <3>3
      <4> QED
        BY <3>1, <4>1, <4>2 DEF Life, Erasing
    <3> QED
      BY <3>2, <3>3
  <2>2. ASSUME NEW k \in Loops, pc'[k] = "erase"
        PROVE  \E d \in Clients : Erasing(k, d)' /\ index'[d] = "added" /\ events'[d] = {}
    <3>1. pc[k] = "erase"
      BY <1>1, <2>2
    <3>2. PICK d \in Clients : Erasing(k, d) /\ index[d] = "added" /\ events[d] = {}
      BY <3>1 DEF Inv, ChanInv
    <3>3. k # l
      BY <1>1, <3>1
    <3>4. Erasing(owner[d], d)
      BY <3>2 DEF Inv, ChanInv, Life
    <3>5. d # c
      BY <1>1, <1>2, <3>4 DEF Erasing
    <3> QED
      BY <1>7, <3>2, <3>5
  <2> QED
    BY <2>1, <2>2 DEF ChanInv
<1>10. WireInv'
  <2> SUFFICES ASSUME NEW d \in Clients, d # c PROVE WireAt(d)'
    BY DEF WireInv
  <2>1. Completing(d)' <=> Completing(d)
    <3>1. PICK g \in Functors : g = [run |-> "writeComplete", conn |-> d] /\ g.conn # c
      <4>1. [run |-> "writeComplete", conn |-> d] \in Functors
        BY DEF Functors
      <4>2. [run |-> "writeComplete", conn |-> d].conn = d
        OBVIOUS
      <4> QED
        BY <4>1, <4>2
    <3>2. \A k \in Loops : In(g, work'[k]) <=> In(g, work[k])
      BY <1>3, <3>1
    <3> QED
      BY <1>1, <3>1, <3>2 DEF Completing
  <2>2. WireAt(d)
    BY DEF Inv, WireInv
  <2>3. /\ index'[d] = index[d] /\ destroyed'[d] = destroyed[d] /\ out'[d] = out[d]
        /\ wire'[d] = wire[d] /\ sock'[d] = sock[d] /\ events'[d] = events[d]
    BY <1>1
  <2> QED
    BY <2>1, <2>2, <2>3 DEF WireAt, isWriting
<1> QED
  BY <1>4, <1>5, <1>6, <1>8, <1>9, <1>10 DEF Inv

(* What the server does to a socket: it takes what is to be read, puts n into *)
(* the send buffer, takes an error away, or shuts the sending side.           *)
LEMMA SocketServed ==
  ASSUME SocketTypeOK, NEW c \in Clients, NEW n \in Nat, sock[c].queued + n <= Capacity[c],
         \/ sock' = [sock EXCEPT ![c].unread = 0]
         \/ sock' = [sock EXCEPT ![c].unread = 0, ![c].queued = @ + n]
         \/ sock' = [sock EXCEPT ![c].queued = @ + n]
  PROVE  /\ SocketTypeOK' /\ \A d \in Clients : d # c => sock'[d] = sock[d]
         /\ sock'[c].stage = sock[c].stage /\ sock'[c].shut = sock[c].shut
         /\ sock'[c].rst = sock[c].rst /\ sock'[c].fin = sock[c].fin
<1>1. PICK s \in Sockets : s = sock[c]
  BY SocketOf
<1>2. /\ s.unread \in Nat /\ s.sent \in Nat /\ s.queued \in Nat
      /\ s.unread <= s.sent /\ s.sent <= Segments[c] /\ s.queued <= Capacity[c]
      /\ s.queued + n <= Capacity[c]
  BY <1>1, SocketOf
<1>3. PICK m \in Nat : m = s.queued + n
  BY <1>2
<1> DEFINE Served(r) == /\ r \in Sockets /\ r.sent = s.sent /\ r.unread <= s.sent /\ r.queued <= Capacity[c]
                        /\ r.stage = s.stage /\ r.shut = s.shut /\ r.rst = s.rst /\ r.fin = s.fin
<1>4. \E r : Served(r) /\ sock' = [sock EXCEPT ![c] = r]
  <2>1. CASE sock' = [sock EXCEPT ![c].unread = 0]
    <3> DEFINE r == [s EXCEPT !.unread = 0]
    <3>1. sock' = [sock EXCEPT ![c] = r]
      BY <1>1, <2>1
    <3>2. Served(r)
      BY <1>2 DEF Sockets
    <3> QED
      BY <3>1, <3>2
  <2>2. CASE sock' = [sock EXCEPT ![c].unread = 0, ![c].queued = @ + n]
    <3> DEFINE r == [s EXCEPT !.unread = 0, !.queued = m]
    <3>1. sock' = [sock EXCEPT ![c] = r]
      BY <1>1, <1>3, <2>2 DEF SocketTypeOK, Sockets
    <3>2. /\ r \in Sockets /\ r.sent = s.sent /\ r.unread = 0 /\ r.queued = m
          /\ r.stage = s.stage /\ r.shut = s.shut /\ r.rst = s.rst /\ r.fin = s.fin
      BY DEF Sockets
    <3> HIDE DEF r
    <3>3. Served(r)
      BY <1>2, <1>3, <3>2
    <3> QED
      BY <3>1, <3>3
  <2>3. CASE sock' = [sock EXCEPT ![c].queued = @ + n]
    <3> DEFINE r == [s EXCEPT !.queued = m]
    <3>1. sock' = [sock EXCEPT ![c] = r]
      BY <1>1, <1>3, <2>3 DEF SocketTypeOK, Sockets
    <3>2. Served(r)
      BY <1>2, <1>3 DEF Sockets
    <3> QED
      BY <3>1, <3>2
  <2> QED
    BY <2>1, <2>2, <2>3
<1>5. PICK r : Served(r) /\ sock' = [sock EXCEPT ![c] = r]
  BY <1>4
<1>6. SocketTypeOK' /\ sock'[c] = r /\ \A d \in Clients : d # c => sock'[d] = sock[d]
  BY <1>2, <1>5, SocketChange
<1> QED
  BY <1>1, <1>5, <1>6

LEMMA SocketFin ==
  ASSUME SocketTypeOK, NEW c \in Clients, sock' = [sock EXCEPT ![c].fin = TRUE]
  PROVE  /\ SocketTypeOK' /\ \A d \in Clients : d # c => sock'[d] = sock[d]
         /\ sock'[c].stage = sock[c].stage /\ sock'[c].shut = sock[c].shut
         /\ sock'[c].rst = sock[c].rst
<1> DEFINE r == [sock[c] EXCEPT !.fin = TRUE]
<1>1. sock' = [sock EXCEPT ![c] = r]
  OBVIOUS
<1>2. /\ r \in Sockets /\ r.unread <= r.sent /\ r.sent <= Segments[c] /\ r.queued <= Capacity[c]
      /\ r.stage = sock[c].stage /\ r.shut = sock[c].shut /\ r.rst = sock[c].rst
  BY SocketOf DEF Sockets
<1> HIDE DEF r
<1>3. SocketTypeOK' /\ sock'[c] = r /\ \A d \in Clients : d # c => sock'[d] = sock[d]
  BY <1>1, <1>2, SocketChange
<1> QED
  BY <1>2, <1>3

LEMMA QueueCompletes ==
  ASSUME TypeOK, NEW l \in Loops, NEW c \in Clients, functors' = functors,
         NEW f \in {"writeComplete", "connectDestroyed"}, Queue(l, f, c)
  PROVE  /\ f = "writeComplete" => Completing(c)'
         /\ f = "connectDestroyed" => (Completing(c)' => Completing(c))
<1>1. PICK q \in Functors : q.run = f /\ q.conn = c /\ QueuedAt(l, q)
  BY QueueEffect
<1>2. PICK g \in Functors : g = [run |-> "writeComplete", conn |-> c]
  BY DEF Functors
<1>3. g.run = "writeComplete" /\ g.conn = c
  BY <1>2
<1>4. f = "writeComplete" => q = g
  BY <1>1, <1>2 DEF Functors
<1>5. f = "connectDestroyed" => q # g
  BY <1>1, <1>3
<1>6. \A k \in Loops : In(g, work'[k]) <=> In(g, work[k]) \/ (k = l /\ g = q)
  BY <1>1 DEF QueuedAt
<1>7. Completing(c) <=> \E k \in Loops : In(g, work[k]) \/ In(g, functors[k])
  BY <1>2 DEF Completing
<1>8. Completing(c)' <=> \E k \in Loops : In(g, work'[k]) \/ In(g, functors[k])
  BY <1>2 DEF Completing
<1> QED
  BY <1>4, <1>5, <1>6, <1>7, <1>8

(* Input is handled of a channel that is registered for it. *)
LEMMA InputFacts ==
  ASSUME Inv, NEW l \in Loops, NEW c \in Clients, NEW e \in {"in", "out"}, Handling(l, e, c)
  PROVE  /\ owner[c] = l /\ main # c /\ WireAt(c)
         /\ \/ index[c] = "added" /\ "in" \in events[c]
            \/ index[c] = "deleted" /\ events[c] = {}
         /\ e = "in" => /\ index[c] = "added" /\ "in" \in events[c] /\ Readable(c) /\ ~Completing(c)
         /\ out[c] \in [begin : Nat, end : Nat, capacity : Nat]
         /\ out[c].begin = 0 /\ out[c].end <= out[c].capacity
         /\ events[c] \in SUBSET {"in", "out"} /\ wire[c] \in 0 .. MaxWire
         /\ RegInv /\ TypeOK /\ SocketTypeOK
<1>1. TypeOK /\ SocketTypeOK /\ RegInv /\ WireAt(c)
  BY DEF Inv, TypeOK, ChanInv, WireInv
<1>2. /\ out[c] \in [begin : Nat, end : Nat, capacity : Nat]
      /\ events[c] \in SUBSET {"in", "out"} /\ wire[c] \in 0 .. MaxWire
      /\ out[c].begin = 0 /\ out[c].end <= out[c].capacity
  BY DEF Inv, TypeOK, BufferInv
<1>3. pc[l] = "events" /\ In(c, active[l]) /\ e \in revents[c]
  <2>1. active[l] \in Seq(Clients) /\ active[l] # << >> /\ c = Head(active[l])
    BY <1>1 DEF Handling, TypeOK
  <2> QED
    BY <2>1, InTail DEF Handling
<1>4. /\ owner[c] = l /\ main # c
      /\ \/ index[c] = "added" /\ "in" \in events[c]
         \/ index[c] = "deleted" /\ events[c] = {}
      /\ "in" \in revents[c] =>
           /\ index[c] = "added" /\ "in" \in events[c] /\ Readable(c) /\ ~Completing(c)
  BY <1>3, ActiveChannel
<1> QED
  BY <1>1, <1>2, <1>3, <1>4

LEMMA RegKept ==
  ASSUME RegInv, UNCHANGED <<epoll, chanVars>>
  PROVE  RegInv'
BY DEF RegInv, Registered, chanVars

LEMMA CompletingKept ==
  ASSUME UNCHANGED <<work, functors>>, NEW c
  PROVE  Completing(c)' <=> Completing(c)
BY DEF Completing

(* A branch that leaves the channel, the buffer and the work alone. *)
LEMMA PlainHandler ==
  ASSUME Inv, NEW l \in Loops, NEW c \in Clients, NEW e \in {"in", "out"},
         Handling(l, e, c), Handled(l, e, c), UNCHANGED <<epoll, chanVars, out, work>>,
         SocketTypeOK', \A d \in Clients : d # c => sock'[d] = sock[d],
         sock'[c].stage = sock[c].stage, sock'[c].shut = sock[c].shut, sock'[c].rst = sock[c].rst,
         wire' \in [Clients -> 0 .. MaxWire], \A d \in Clients : d # c => wire'[d] = wire[d],
         wire'[c] = wire[c] \/ readableSize(out[c]) > 0,
         died' \in {"no", "send", "reset"}
  PROVE  Inv'
<1>1. /\ owner[c] = l /\ main # c /\ WireAt(c)
      /\ \/ index[c] = "added" /\ "in" \in events[c]
         \/ index[c] = "deleted" /\ events[c] = {}
      /\ RegInv
      /\ out[c] \in [begin : Nat, end : Nat, capacity : Nat]
      /\ out[c].begin = 0 /\ out[c].end <= out[c].capacity
  BY InputFacts
<1>2. RegInv'
  BY <1>1, RegKept
<1>3. /\ owner' = owner /\ events' = events /\ index' = index /\ out' = out /\ functors' = functors
      /\ epoll' = epoll /\ work' = work
  BY DEF chanVars, Handled
<1>4. Completing(c)' <=> Completing(c)
  BY <1>3, CompletingKept
<1>5. index'[c] # "new"
  BY <1>1, <1>3
<1>6. readableSize(out[c]) \in Nat
  BY <1>1 DEF readableSize
<1>7. WireAt(c)'
  <2>1. CASE wire'[c] = wire[c]
    BY <1>1, <1>3, <1>4, <1>5, <2>1 DEF WireAt, isWriting
  <2>2. CASE readableSize(out[c]) > 0
    BY <1>1, <1>3, <1>4, <1>5, <1>6, <2>2 DEF WireAt, isWriting
  <2> QED
    BY <2>1, <2>2
<1>8. /\ epoll \in [Loops -> Registrations] /\ events \in [Clients -> SUBSET {"in", "out"}]
      /\ index \in [Clients -> {"new", "added", "deleted"}]
      /\ out \in [Clients -> [begin : Nat, end : Nat, capacity : Nat]]
  BY DEF Inv, TypeOK
<1> QED
  BY <1>1, <1>2, <1>3, <1>7, <1>8, HandlerInv

LEMMA ReadAndAppendInv ==
  ASSUME Inv, NEW l \in Loops, NEW c \in Clients, ReadAndAppend(l, c), died = "no"
  PROVE  Inv'
<1>1. /\ Handling(l, "in", c) /\ Handled(l, "in", c) /\ ~SendNow(c)
      /\ sock' = [sock EXCEPT ![c].unread = 0]
      /\ out' = [out EXCEPT ![c] = append(out[c], ReplyLen)]
      /\ IF isWriting(c) THEN UNCHANGED <<chanVars, epoll, died>>
                         ELSE UpdateChannel(c, events[c] \cup {"out"})
      /\ work' = work /\ wire' = wire
  BY DEF ReadAndAppend, enableWriting
<1>2. /\ owner[c] = l /\ main # c /\ WireAt(c)
      /\ index[c] = "added" /\ "in" \in events[c] /\ ~Completing(c)
      /\ out[c] \in [begin : Nat, end : Nat, capacity : Nat]
      /\ out[c].begin = 0 /\ out[c].end <= out[c].capacity
      /\ events[c] \in SUBSET {"in", "out"}
      /\ RegInv /\ TypeOK /\ SocketTypeOK
  BY <1>1, InputFacts
<1>3. /\ epoll \in [Loops -> Registrations] /\ events \in [Clients -> SUBSET {"in", "out"}]
      /\ index \in [Clients -> {"new", "added", "deleted"}]
      /\ out \in [Clients -> [begin : Nat, end : Nat, capacity : Nat]]
      /\ wire \in [Clients -> 0 .. MaxWire] /\ ReplyLen \in Nat \ {0}
  BY ServerAssumption DEF Inv, TypeOK
<1>4. /\ SocketTypeOK' /\ \A d \in Clients : d # c => sock'[d] = sock[d]
      /\ sock'[c].stage = sock[c].stage /\ sock'[c].shut = sock[c].shut
      /\ sock'[c].rst = sock[c].rst
  <2>1. sock[c].queued + 0 <= Capacity[c]
    BY <1>2, SocketOf
  <2> QED
    BY <1>1, <1>2, <2>1, SocketServed
<1>5. /\ append(out[c], ReplyLen) \in [begin : Nat, end : Nat, capacity : Nat]
      /\ append(out[c], ReplyLen).begin = 0
      /\ append(out[c], ReplyLen).end <= append(out[c], ReplyLen).capacity
      /\ readableSize(append(out[c], ReplyLen)) = readableSize(out[c]) + ReplyLen
      /\ readableSize(out[c]) \in Nat
  BY <1>2, <1>3, AppendEffect
<1>6. /\ out' \in [Clients -> [begin : Nat, end : Nat, capacity : Nat]]
      /\ out'[c] = append(out[c], ReplyLen) /\ \A d \in Clients : d # c => out'[d] = out[d]
  BY <1>1, <1>3, <1>5
<1>7. /\ owner' = owner /\ epoll' \in [Loops -> Registrations]
      /\ events' \in [Clients -> SUBSET {"in", "out"}]
      /\ index' \in [Clients -> {"new", "added", "deleted"}]
      /\ index'[c] = "added" /\ "in" \in events'[c] /\ died' = died /\ RegInv'
      /\ \A d \in Clients : d # c => events'[d] = events[d] /\ index'[d] = index[d]
  <2>1. CASE isWriting(c)
    BY <1>1, <1>2, <1>3, <2>1, RegKept DEF chanVars
  <2>2. CASE ~isWriting(c)
    <3> DEFINE ev == events[c] \cup {"out"}
    <3>1. ev \in SUBSET {"in", "out"} /\ "in" \in ev /\ ev # {} /\ UpdateChannel(c, ev)
      BY <1>1, <1>2, <2>2
    <3> HIDE DEF ev
    <3>2. owner[c] \in Loops
      BY <1>2
    <3>3. /\ owner' = owner /\ died' = died /\ epoll' \in [Loops -> Registrations]
          /\ events' \in [Clients -> SUBSET {"in", "out"}]
          /\ index' \in [Clients -> {"new", "added", "deleted"}]
          /\ events'[c] = ev
          /\ index'[c] = IF index[c] = "added" /\ ev = {} THEN "deleted" ELSE "added"
          /\ \A d \in Clients : d # c => events'[d] = events[d] /\ index'[d] = index[d]
          /\ RegInv'
      BY <1>2, <3>1, <3>2, UpdateEffect
    <3> QED
      BY <3>1, <3>3
  <2> QED
    BY <2>1, <2>2
<1>8. WireAt(c)'
  <2>1. readableSize(out[c]) > 0
    BY <1>1, <1>2, <1>5 DEF SendNow, WireAt
  <2>2. readableSize(out'[c]) > 0 /\ readableSize(out'[c]) \in Nat
    BY <1>3, <1>5, <1>6
  <2>3. ~Completing(c)'
    BY <1>1, <1>2, CompletingKept DEF Handled
  <2>4. ~sock'[c].shut
    BY <1>2, <1>4, <2>1 DEF WireAt
  <2>5. index'[c] # "new"
    BY <1>7
  <2> QED
    BY <2>2, <2>3, <2>4, <2>5 DEF WireAt, isWriting
<1> QED
  BY <1>1, <1>2, <1>3, <1>4, <1>5, <1>6, <1>7, <1>8, HandlerInv

LEMMA WrittenEffect ==
  ASSUME TypeOK, NEW c \in Clients, NEW n \in Nat, Written(c, n)
  PROVE  /\ wire' \in [Clients -> 0 .. MaxWire] /\ wire'[c] = Min({MaxWire, wire[c] + n})
         /\ \A d \in Clients : d # c => wire'[d] = wire[d]
<1>1. wire \in [Clients -> 0 .. MaxWire] /\ MaxWire \in Nat
  BY ServerAssumption DEF TypeOK, MaxWire
<1>2. PICK m : m = Min({MaxWire, wire[c] + n})
  OBVIOUS
<1>3. m \in Nat /\ m <= MaxWire
  BY <1>1, <1>2, MinOfTwo
<1>4. wire' = [wire EXCEPT ![c] = m]
  BY <1>2 DEF Written
<1> QED
  BY <1>1, <1>2, <1>3, <1>4

(* A reply is written whole, and its completion queued, or the rest of it waits. *)
LEMMA ReadAndSendInv ==
  ASSUME Inv, NEW l \in Loops, NEW c \in Clients, ReadAndSend(l, c), died = "no"
  PROVE  Inv'
<1>1. PICK n : n = Min({Room(c), ReplyLen})
  OBVIOUS
<1>2. /\ Handling(l, "in", c) /\ Handled(l, "in", c) /\ SendNow(c) /\ ~Broken(c) /\ Room(c) > 0
      /\ sock' = [sock EXCEPT ![c].unread = 0, ![c].queued = @ + n]
      /\ Written(c, n)
      /\ IF n = ReplyLen
           THEN Queue(l, "writeComplete", c) /\ UNCHANGED <<chanVars, epoll, out, died>>
           ELSE /\ out' = [out EXCEPT ![c] = append(out[c], ReplyLen - n)]
                /\ UpdateChannel(c, events[c] \cup {"out"})
                /\ work' = work
  BY <1>1 DEF ReadAndSend, Whole, enableWriting
<1>3. /\ owner[c] = l /\ main # c /\ WireAt(c)
      /\ index[c] = "added" /\ "in" \in events[c] /\ ~Completing(c)
      /\ out[c] \in [begin : Nat, end : Nat, capacity : Nat]
      /\ out[c].begin = 0 /\ out[c].end <= out[c].capacity
      /\ events[c] \in SUBSET {"in", "out"} /\ wire[c] \in 0 .. MaxWire
      /\ RegInv /\ TypeOK /\ SocketTypeOK
  BY <1>2, InputFacts
<1>4. /\ epoll \in [Loops -> Registrations] /\ events \in [Clients -> SUBSET {"in", "out"}]
      /\ index \in [Clients -> {"new", "added", "deleted"}]
      /\ out \in [Clients -> [begin : Nat, end : Nat, capacity : Nat]]
      /\ ReplyLen \in Nat \ {0} /\ MaxWire = ReplyLen + 1
  BY ServerAssumption DEF Inv, TypeOK, MaxWire
<1>5. /\ n \in Nat \ {0} /\ n <= ReplyLen /\ sock[c].queued + n <= Capacity[c]
  <2>1. sock[c].queued \in Nat /\ Capacity[c] \in Nat /\ sock[c].queued <= Capacity[c]
    BY <1>3, SocketOf
  <2>2. Room(c) \in Nat \ {0} /\ sock[c].queued + Room(c) = Capacity[c]
    BY <1>2, <2>1 DEF Room
  <2>3. n \in {Room(c), ReplyLen} /\ n <= Room(c) /\ n <= ReplyLen
    BY <1>1, <1>4, <2>2, MinOfTwo
  <2> QED
    BY <1>4, <2>1, <2>2, <2>3
<1>6. /\ SocketTypeOK' /\ \A d \in Clients : d # c => sock'[d] = sock[d]
      /\ sock'[c].stage = sock[c].stage /\ sock'[c].shut = sock[c].shut
      /\ sock'[c].rst = sock[c].rst
  BY <1>2, <1>3, <1>5, SocketServed
<1>7. ~sock[c].shut /\ ~sock[c].rst /\ readableSize(out[c]) = 0 /\ ~isWriting(c)
  BY <1>2 DEF Broken, SendNow
<1>8. wire[c] = 0
  BY <1>3, <1>7 DEF WireAt
<1>9. /\ wire' \in [Clients -> 0 .. MaxWire] /\ wire'[c] = n
      /\ \A d \in Clients : d # c => wire'[d] = wire[d]
  <2>1. /\ wire' \in [Clients -> 0 .. MaxWire] /\ wire'[c] = Min({MaxWire, wire[c] + n})
        /\ \A d \in Clients : d # c => wire'[d] = wire[d]
    BY <1>2, <1>3, <1>5, WrittenEffect
  <2>2. Min({MaxWire, n}) \in {MaxWire, n} /\ Min({MaxWire, n}) <= n
    <3>1. MaxWire \in Nat /\ n \in Nat
      BY <1>4, <1>5
    <3> QED
      BY <3>1, MinOfTwo
  <2>3. Min({MaxWire, n}) = n
    BY <1>4, <1>5, <2>2
  <2>4. wire[c] + n = n
    BY <1>5, <1>8
  <2> QED
    BY <2>1, <2>3, <2>4
<1>10. CASE n = ReplyLen
  <2>1. Queue(l, "writeComplete", c) /\ UNCHANGED <<epoll, chanVars, out, died>>
    BY <1>2, <1>10
  <2>2. owner' = owner /\ events' = events /\ index' = index /\ functors' = functors /\ RegInv'
    BY <1>2, <1>3, <2>1, RegKept DEF chanVars, Handled
  <2>3. Completing(c)'
    BY <1>3, <2>1, <2>2, QueueCompletes
  <2>4. readableSize(out'[c]) = 0 /\ wire'[c] = ReplyLen
    BY <1>7, <1>9, <1>10, <2>1
  <2>5. ~isWriting(c)' /\ index'[c] # "new"
    BY <1>3, <1>7, <2>2 DEF isWriting
  <2>6. WireAt(c)'
    BY <2>3, <2>4, <2>5 DEF WireAt
  <2>7. \E f \in {"writeComplete", "connectDestroyed"} :
          Queue(l, f, c) /\ (f = "connectDestroyed" => index'[c] = "deleted")
    BY <2>1
  <2> QED
    BY <1>2, <1>3, <1>4, <1>6, <1>9, <2>1, <2>2, <2>6, <2>7, HandlerInv
<1>11. CASE n # ReplyLen
  <2> DEFINE ev == events[c] \cup {"out"}
  <2>1. /\ out' = [out EXCEPT ![c] = append(out[c], ReplyLen - n)] /\ UpdateChannel(c, ev) /\ work' = work
        /\ ev \in SUBSET {"in", "out"} /\ "in" \in ev /\ ev # {}
    BY <1>2, <1>3, <1>11
  <2> HIDE DEF ev
  <2>2. ReplyLen - n \in Nat \ {0}
    BY <1>4, <1>5, <1>11
  <2>3. owner[c] \in Loops
    BY <1>3
  <2>4. /\ owner' = owner /\ died' = died /\ epoll' \in [Loops -> Registrations]
        /\ events' \in [Clients -> SUBSET {"in", "out"}]
        /\ index' \in [Clients -> {"new", "added", "deleted"}]
        /\ events'[c] = ev
        /\ index'[c] = IF index[c] = "added" /\ ev = {} THEN "deleted" ELSE "added"
        /\ \A d \in Clients : d # c => events'[d] = events[d] /\ index'[d] = index[d]
        /\ RegInv'
    BY <1>3, <2>1, <2>3, UpdateEffect
  <2>5. PICK a : a = append(out[c], ReplyLen - n)
    OBVIOUS
  <2>6. /\ a \in [begin : Nat, end : Nat, capacity : Nat]
        /\ a.begin = 0 /\ a.end <= a.capacity
        /\ readableSize(a) = readableSize(out[c]) + (ReplyLen - n)
    BY <1>3, <2>2, <2>5, AppendEffect
  <2>7. readableSize(a) \in Nat \ {0}
    BY <1>7, <2>2, <2>6
  <2>8. /\ out' \in [Clients -> [begin : Nat, end : Nat, capacity : Nat]]
        /\ out'[c] = a /\ \A d \in Clients : d # c => out'[d] = out[d]
    BY <1>4, <2>1, <2>5, <2>6
  <2>9. WireAt(c)'
    <3>1. ~Completing(c)'
      BY <1>2, <1>3, <2>1, CompletingKept DEF Handled
    <3>2. ~sock'[c].shut /\ index'[c] # "new" /\ readableSize(out'[c]) > 0 /\ readableSize(out'[c]) # 0
      BY <1>6, <1>7, <2>1, <2>4, <2>7, <2>8
    <3> QED
      BY <3>1, <3>2 DEF WireAt
  <2>10. index'[c] = "added" /\ "in" \in events'[c] /\ died' = "no"
    BY <2>1, <2>4
  <2>11. out'[c].begin = 0 /\ out'[c].end <= out'[c].capacity
    BY <2>6, <2>8
  <2>12. /\ Handling(l, "in", c) /\ Handled(l, "in", c) /\ work' = work
         /\ index[c] = "added" /\ died' \in {"no", "send", "reset"}
         /\ \A d \in Clients : d # c =>
              /\ events'[d] = events[d] /\ index'[d] = index[d]
              /\ sock'[d] = sock[d] /\ out'[d] = out[d] /\ wire'[d] = wire[d]
    BY <1>2, <1>3, <1>6, <1>9, <2>1, <2>4, <2>8, <2>10
  <2> QED
    BY <1>6, <1>9, <2>4, <2>8, <2>9, <2>10, <2>11, <2>12, HandlerInv
<1> QED
  BY <1>10, <1>11

LEMMA ReadEndInv ==
  ASSUME Inv, NEW l \in Loops, NEW c \in Clients, ReadEnd(l, c), died = "no"
  PROVE  Inv'
<1>1. /\ Handling(l, "in", c) /\ Handled(l, "in", c) /\ UpdateChannel(c, {})
      /\ Queue(l, "connectDestroyed", c) /\ UNCHANGED <<sock, out, wire>>
  BY DEF ReadEnd, disableAll
<1>2. /\ owner[c] = l /\ main # c /\ WireAt(c)
      /\ index[c] = "added" /\ ~Completing(c)
      /\ out[c].begin = 0 /\ out[c].end <= out[c].capacity
      /\ RegInv /\ TypeOK /\ SocketTypeOK
  BY <1>1, InputFacts
<1>3. /\ out \in [Clients -> [begin : Nat, end : Nat, capacity : Nat]]
      /\ wire \in [Clients -> 0 .. MaxWire]
  BY DEF Inv, TypeOK
<1>4. owner[c] \in Loops /\ {} \in SUBSET {"in", "out"}
  BY <1>2
<1>5. /\ owner' = owner /\ died' = died /\ epoll' \in [Loops -> Registrations]
      /\ events' \in [Clients -> SUBSET {"in", "out"}]
      /\ index' \in [Clients -> {"new", "added", "deleted"}]
      /\ events'[c] = {}
      /\ index'[c] = IF index[c] = "added" /\ {} = {} THEN "deleted" ELSE "added"
      /\ \A d \in Clients : d # c => events'[d] = events[d] /\ index'[d] = index[d]
      /\ RegInv'
  BY <1>1, <1>2, <1>4, UpdateEffect
<1>6. index'[c] = "deleted" /\ events'[c] = {}
  BY <1>2, <1>5
<1>7. ~Completing(c)'
  BY <1>1, <1>2, QueueCompletes DEF Handled
<1>8. WireAt(c)'
  <2>1. ~isWriting(c)' /\ index'[c] # "new"
    BY <1>6 DEF isWriting
  <2>2. out' = out /\ wire' = wire /\ sock' = sock
    BY <1>1
  <2> QED
    BY <1>2, <1>7, <2>1, <2>2 DEF WireAt
<1>9. \E f \in {"writeComplete", "connectDestroyed"} :
        Queue(l, f, c) /\ (f = "connectDestroyed" => index'[c] = "deleted")
  BY <1>1, <1>6
<1>10. SocketTypeOK'
  BY <1>1, <1>2 DEF SocketTypeOK
<1>11. /\ died' \in {"no", "send", "reset"} /\ out' = out /\ wire' = wire /\ sock' = sock
       /\ owner' = owner /\ epoll' \in [Loops -> Registrations] /\ RegInv'
       /\ events' \in [Clients -> SUBSET {"in", "out"}]
       /\ index' \in [Clients -> {"new", "added", "deleted"}]
       /\ \A d \in Clients : d # c => events'[d] = events[d] /\ index'[d] = index[d]
  BY <1>1, <1>5
<1>12. /\ out' \in [Clients -> [begin : Nat, end : Nat, capacity : Nat]]
       /\ wire' \in [Clients -> 0 .. MaxWire]
       /\ out'[c].begin = 0 /\ out'[c].end <= out'[c].capacity
       /\ sock'[c].stage = sock[c].stage
       /\ \A d \in Clients : d # c =>
            /\ events'[d] = events[d] /\ index'[d] = index[d]
            /\ sock'[d] = sock[d] /\ out'[d] = out[d] /\ wire'[d] = wire[d]
  BY <1>2, <1>3, <1>11
<1>13. Handling(l, "in", c) /\ Handled(l, "in", c)
  BY <1>1
<1> QED
  BY <1>6, <1>8, <1>9, <1>10, <1>11, <1>12, <1>13, HandlerInv

(* No read finds nothing to read. *)
LEMMA ReadFailsInv ==
  ASSUME Inv, NEW l \in Loops, NEW c \in Clients, ReadError(l, c) \/ ReadAndDie(l, c)
  PROVE  Inv'
<1>1. /\ Handling(l, "in", c) /\ Handled(l, "in", c)
      /\ UNCHANGED <<sock, epoll, chanVars, out, work, wire>>
  BY DEF ReadError, ReadAndDie
<1>2. Readable(c) /\ SocketTypeOK
  BY <1>1, InputFacts
<1>3. died' \in {"send", "reset"}
  <2>1. CASE ReadAndDie(l, c)
    BY <2>1 DEF ReadAndDie
  <2>2. CASE ReadError(l, c)
    <3>1. sock[c].rst
      BY <1>2, <2>2, SocketOf DEF ReadError, Readable
    <3> QED
      BY <2>2, <3>1 DEF ReadError
  <2> QED
    BY <2>1, <2>2
<1>4. SocketTypeOK' /\ wire' \in [Clients -> 0 .. MaxWire]
  BY <1>1, <1>2 DEF SocketTypeOK, Inv, TypeOK
<1> QED
  BY <1>1, <1>3, <1>4, PlainHandler

LEMMA HandleWriteInv ==
  ASSUME Inv, NEW l \in Loops, NEW c \in Clients, HandleWrite(l, c), died = "no"
  PROVE  Inv'
<1>1. /\ Handling(l, "out", c) /\ Handled(l, "out", c)
      /\ UNCHANGED <<epoll, chanVars, out, work, died>>
  BY DEF HandleWrite
<1>2. /\ WireAt(c) /\ TypeOK /\ SocketTypeOK
      /\ out[c] \in [begin : Nat, end : Nat, capacity : Nat]
      /\ out[c].begin = 0
  BY <1>1, InputFacts
<1>3. CASE isWriting(c)
  <2>1. PICK n : n = Min({Room(c), readableSize(out[c])})
    OBVIOUS
  <2>2. sock' = [sock EXCEPT ![c].queued = @ + n] /\ Written(c, n)
    BY <1>3, <2>1 DEF HandleWrite
  <2>3. sock[c].queued \in Nat /\ Capacity[c] \in Nat /\ sock[c].queued <= Capacity[c]
    BY <1>2, SocketOf
  <2>4. Room(c) \in Nat /\ sock[c].queued + Room(c) = Capacity[c]
    BY <2>3 DEF Room
  <2>5. readableSize(out[c]) \in Nat
    BY <1>2 DEF readableSize
  <2>6. n \in Nat /\ n <= Room(c)
    BY <2>1, <2>4, <2>5, MinOfTwo
  <2>7. sock[c].queued + n <= Capacity[c]
    BY <2>3, <2>4, <2>6
  <2>8. /\ SocketTypeOK' /\ \A d \in Clients : d # c => sock'[d] = sock[d]
        /\ sock'[c].stage = sock[c].stage /\ sock'[c].shut = sock[c].shut
        /\ sock'[c].rst = sock[c].rst
    BY <1>2, <2>2, <2>6, <2>7, SocketServed
  <2>9. /\ wire' \in [Clients -> 0 .. MaxWire]
        /\ \A d \in Clients : d # c => wire'[d] = wire[d]
    BY <1>2, <2>2, <2>6, WrittenEffect
  <2>10. readableSize(out[c]) > 0
    BY <1>2, <1>3 DEF WireAt
  <2> QED
    BY <1>1, <2>8, <2>9, <2>10, PlainHandler
<1>4. CASE ~isWriting(c)
  <2>1. sock' = sock /\ wire' = wire
    BY <1>4 DEF HandleWrite
  <2>2. SocketTypeOK' /\ wire' \in [Clients -> 0 .. MaxWire]
    BY <1>2, <2>1 DEF SocketTypeOK, TypeOK
  <2> QED
    BY <1>1, <2>1, <2>2, PlainHandler
<1> QED
  BY <1>3, <1>4

LEMMA WriteFailsInv ==
  ASSUME Inv, NEW l \in Loops, NEW c \in Clients, WriteFails(l, c), died = "no"
  PROVE  Inv'
<1>1. /\ Handling(l, "out", c) /\ Handled(l, "out", c)
      /\ UNCHANGED <<epoll, chanVars, out, work, wire>> /\ died' \in {"no", "send"}
      /\ sock' = sock \/ sock' = [sock EXCEPT ![c].fin = TRUE]
  BY DEF WriteFails
<1>2. SocketTypeOK /\ wire \in [Clients -> 0 .. MaxWire]
  BY DEF Inv, TypeOK
<1>3. /\ SocketTypeOK' /\ \A d \in Clients : d # c => sock'[d] = sock[d]
      /\ sock'[c].stage = sock[c].stage /\ sock'[c].shut = sock[c].shut
      /\ sock'[c].rst = sock[c].rst
  <2>1. CASE sock' = sock
    BY <1>2, <2>1 DEF SocketTypeOK
  <2>2. CASE sock' = [sock EXCEPT ![c].fin = TRUE]
    BY <1>2, <2>2, SocketFin
  <2> QED
    BY <1>1, <2>1, <2>2
<1> QED
  BY <1>1, <1>2, <1>3, PlainHandler

-----------------------------------------------------------------------------
(* The thread of main, and the round of a loop outside handleEvent. *)

(* References that go, and channels that stay in use, keep RefInv. *)
LEMMA RefKept ==
  ASSUME RefInv,
         \A k \in Loops, d \in Clients : In(d, active'[k]) => In(d, active[k]),
         \A k \in Loops, f \in Functors : In(f, work'[k]) => In(f, work[k]),
         \A k \in Loops, f \in Functors : In(f, functors'[k]) => In(f, functors[k]),
         \A d \in Clients : "in" \in revents'[d] => "in" \in revents[d],
         \A d \in Clients : Readable(d) => Readable(d)',
         \A d \in Clients : index[d] # "new" =>
           /\ owner'[d] = owner[d] /\ index'[d] # "new"
           /\ "in" \in events[d] => "in" \in events'[d]
           /\ index[d] = "deleted" => index'[d] = "deleted",
         \A k \in Loops, d \in Clients : Erasing(k, d) => Erasing(k, d)'
  PROVE  RefInv'
<1> SUFFICES ASSUME NEW k \in Loops, NEW d \in Clients
             PROVE  ActiveRef(k, d)' /\ WorkRef(k, d)' /\ FunctorRef(k, d)'
  BY DEF RefInv
<1>1. ActiveRef(k, d) /\ WorkRef(k, d) /\ FunctorRef(k, d)
  BY DEF RefInv
<1>2. ActiveRef(k, d)'
  <2>1. In(d, active'[k]) => In(d, active[k])
    OBVIOUS
  <2> QED
    BY <1>1, <2>1 DEF ActiveRef
<1>3. WorkRef(k, d)'
  <2>1. In(d, active'[k]) => In(d, active[k])
    OBVIOUS
  <2>2. \A f \in Functors : In(f, work'[k]) => In(f, work[k])
    OBVIOUS
  <2> QED
    BY <1>1, <2>1, <2>2 DEF WorkRef
<1>4. FunctorRef(k, d)'
  <2>1. \A f \in Functors : In(f, functors'[k]) => In(f, functors[k])
    OBVIOUS
  <2>2. Erasing(k, d) => Erasing(k, d)'
    OBVIOUS
  <2> QED
    BY <1>1, <2>1, <2>2 DEF FunctorRef
<1> QED
  BY <1>2, <1>3, <1>4

LEMMA LoopKept ==
  ASSUME LoopInv, UNCHANGED loopVars
  PROVE  LoopInv' /\ \A k \in Loops, d \in Clients : Erasing(k, d)' <=> Erasing(k, d)
BY DEF LoopInv, Erasing, loopVars

LEMMA SocketAccepted ==
  ASSUME SocketTypeOK, NEW c \in Clients, sock' = [sock EXCEPT ![c].stage = "accepted"]
  PROVE  /\ SocketTypeOK' /\ \A d \in Clients : d # c => sock'[d] = sock[d]
         /\ sock'[c].stage = "accepted" /\ sock'[c].shut = sock[c].shut /\ sock'[c].rst = sock[c].rst
         /\ sock'[c].unread = sock[c].unread /\ sock'[c].fin = sock[c].fin
<1> DEFINE r == [sock[c] EXCEPT !.stage = "accepted"]
<1>1. sock' = [sock EXCEPT ![c] = r]
  OBVIOUS
<1>2. /\ r \in Sockets /\ r.unread <= r.sent /\ r.sent <= Segments[c] /\ r.queued <= Capacity[c]
      /\ r.stage = "accepted" /\ r.shut = sock[c].shut /\ r.rst = sock[c].rst
      /\ r.unread = sock[c].unread /\ r.fin = sock[c].fin
  BY SocketOf DEF Sockets
<1> HIDE DEF r
<1>3. SocketTypeOK' /\ sock'[c] = r /\ \A d \in Clients : d # c => sock'[d] = sock[d]
  BY <1>1, <1>2, SocketChange
<1> QED
  BY <1>2, <1>3

(* The connections are handed to the loops in turn. *)
LEMMA TurnEffect ==
  ASSUME PoolTypeOK, PoolInv, starter = "listening", TurnNext
  PROVE  NextLoop \in Loops /\ next' \in 0 .. NumThreads - 1
<1>1. /\ Len(loops) = NumThreads /\ NumThreads \in Nat \ {0} /\ next \in 0 .. NumThreads - 1
      /\ \A i \in 1 .. Len(loops) : loops[i] = i
  BY NumThreadsAssumption DEF PoolTypeOK, PoolInv
<1>2. next + 1 \in 1 .. NumThreads /\ next' = (next + 1) % NumThreads
  BY <1>1 DEF TurnNext
<1>3. next' \in 0 .. NumThreads - 1
  BY <1>1, <1>2
<1> QED
  BY <1>1, <1>2, <1>3 DEF NextLoop, Loops

LEMMA AcceptInv ==
  ASSUME Inv, NEW c \in Clients, Accept(c)
  PROVE  Inv'
<1>1. /\ starter = "listening" /\ main = NoClient /\ sock[c].stage = "backlog"
      /\ sock' = [sock EXCEPT ![c].stage = "accepted"]
      /\ TurnNext /\ owner' = [owner EXCEPT ![c] = NextLoop] /\ main' = c
      /\ UNCHANGED <<starter, task, loops, epoll, events, index, revents, out, chmap,
                     loopVars, destroyed, wire, died>>
  BY DEF Accept
<1>2. TypeOK /\ PoolTypeOK /\ SocketTypeOK /\ PoolInv /\ LoopInv /\ RefInv /\ ChanInv /\ Life(c)
  BY DEF Inv, TypeOK, ChanInv
<1>3. NextLoop \in Loops /\ next' \in 0 .. NumThreads - 1
  BY <1>1, <1>2, TurnEffect
<1>4. /\ SocketTypeOK' /\ \A d \in Clients : d # c => sock'[d] = sock[d]
      /\ sock'[c].stage = "accepted" /\ sock'[c].shut = sock[c].shut /\ sock'[c].rst = sock[c].rst
      /\ sock'[c].unread = sock[c].unread /\ sock'[c].fin = sock[c].fin
  BY <1>1, <1>2, SocketAccepted
<1>5. index[c] = "new" /\ destroyed[c] = 0
  BY <1>1, <1>2 DEF Life
<1>6. /\ owner' \in [Clients -> Loops \cup {0}] /\ owner'[c] = NextLoop
      /\ \A d \in Clients : d # c => owner'[d] = owner[d]
  BY <1>1, <1>2, <1>3 DEF TypeOK
<1>7. PoolTypeOK'
  BY <1>1, <1>2, <1>3 DEF PoolTypeOK
<1>8. TypeOK'
  BY <1>1, <1>2, <1>4, <1>6, <1>7 DEF TypeOK, loopVars
<1>9. PoolInv' /\ BufferInv'
  BY <1>1 DEF Inv, PoolInv, BufferInv, Starting
<1>10. LoopInv' /\ \A k \in Loops, d \in Clients : Erasing(k, d)' <=> Erasing(k, d)
  BY <1>1, <1>2, LoopKept
<1>11. RefInv'
  <2>1. \A d \in Clients : Readable(d) => Readable(d)'
    <3> TAKE d \in Clients
    <3>1. sock'[d].unread = sock[d].unread /\ sock'[d].fin = sock[d].fin /\ sock'[d].rst = sock[d].rst
      BY <1>4
    <3> QED
      BY <3>1 DEF Readable
  <2>2. \A d \in Clients : index[d] # "new" => owner'[d] = owner[d]
    BY <1>5, <1>6
  <2>3. /\ active' = active /\ work' = work /\ functors' = functors /\ revents' = revents
        /\ index' = index /\ events' = events
    BY <1>1 DEF loopVars
  <2> QED
    BY <1>2, <1>10, <2>1, <2>2, <2>3, RefKept
<1>12. ChanInv'
  <2>1. ASSUME NEW d \in Clients PROVE Life(d)'
    <3>1. Life(d)
      BY <1>2 DEF ChanInv
    <3>2. CASE d = c
      BY <1>1, <1>3, <1>4, <1>5, <1>6, <3>1, <3>2 DEF Life
    <3>3. CASE d # c
      <4>1. /\ owner'[d] = owner[d] /\ sock'[d] = sock[d] /\ main' # d
            /\ index' = index /\ events' = events /\ destroyed' = destroyed
        BY <1>1, <1>4, <1>6, <3>3
      <4> QED
        BY <1>1, <3>1, <4>1 DEF Life, Erasing, loopVars
    <3> QED
      BY <3>2, <3>3
  <2>2. RegInv'
    <3> SUFFICES ASSUME NEW d \in Clients, NEW k \in Loops PROVE Registered(k, d)'
      BY DEF RegInv
    <3>1. Registered(k, d)
      BY <1>2 DEF ChanInv, RegInv
    <3>2. index[d] = "added" => owner'[d] = owner[d]
      BY <1>5, <1>6
    <3> QED
      BY <1>1, <3>1, <3>2 DEF Registered
  <2>3. \A k \in Loops : pc'[k] = "erase" =>
          \E d \in Clients : Erasing(k, d)' /\ index'[d] = "added" /\ events'[d] = {}
    BY <1>1, <1>2, <1>10 DEF ChanInv, loopVars
  <2>4. died' = died
    BY <1>1
  <2> QED
    BY <1>2, <2>1, <2>2, <2>3, <2>4 DEF ChanInv
<1>13. WireInv'
  <2> SUFFICES ASSUME NEW d \in Clients PROVE WireAt(d)'
    BY DEF WireInv
  <2>1. WireAt(d)
    BY DEF Inv, WireInv
  <2>2. sock'[d].shut = sock[d].shut /\ sock'[d].rst = sock[d].rst
    BY <1>4
  <2>3. Completing(d)' <=> Completing(d)
    BY <1>1, CompletingKept DEF loopVars
  <2> QED
    BY <1>1, <2>1, <2>2, <2>3 DEF WireAt, isWriting
<1> QED
  BY <1>8, <1>9, <1>10, <1>11, <1>12, <1>13 DEF Inv

LEMMA EstablishInv ==
  ASSUME Inv, Establish, died = "no"
  PROVE  Inv'
<1>1. /\ main # NoClient /\ main' = NoClient
      /\ UNCHANGED <<poolVars, sock, revents, out, loopVars, destroyed, wire>>
  BY DEF Establish
<1>2. /\ TypeOK /\ RefInv /\ LoopInv /\ ChanInv /\ RegInv /\ main \in Clients
  BY <1>1 DEF Inv, TypeOK, ChanInv
<1>3. PICK c \in Clients : c = main
  BY <1>2
<1>4. /\ index[c] = "new" /\ destroyed[c] = 0 /\ owner[c] \in Loops /\ sock[c].stage = "accepted"
      /\ events[c] = {} /\ WireAt(c)
  BY <1>2, <1>3 DEF ChanInv, Life, Inv, WireInv
<1>5. LoopInv' /\ \A k \in Loops, d \in Clients : Erasing(k, d)' <=> Erasing(k, d)
  BY <1>1, <1>2, LoopKept
<1>6. \A d \in Clients : Completing(d)' <=> Completing(d)
  BY <1>1, CompletingKept DEF loopVars
<1>7. PoolInv' /\ BufferInv' /\ PoolTypeOK' /\ SocketTypeOK'
  BY <1>1 DEF Inv, PoolInv, BufferInv, Starting, TypeOK, PoolTypeOK, SocketTypeOK, poolVars
<1>8. NoClient \notin Clients
  BY ServerAssumption
<1>9. CASE main \in chmap[owner[main]]
  <2>1. died' = "map" /\ UNCHANGED <<chmap, chanVars, epoll>>
    BY <1>9 DEF Establish
  <2>2. TypeOK'
    BY <1>1, <1>2, <1>7, <2>1 DEF TypeOK, chanVars, loopVars
  <2>3. RefInv'
    BY <1>1, <1>2, <2>1 DEF RefInv, ActiveRef, WorkRef, FunctorRef, Erasing, Readable, chanVars, loopVars
  <2>4. ChanInv'
    <3>1. ASSUME NEW d \in Clients PROVE Life(d)'
      <4>1. Life(d)
        BY <1>2 DEF ChanInv
      <4>2. main' # d
        BY <1>1, <1>8
      <4> QED
        BY <1>1, <2>1, <4>1, <4>2 DEF Life, Erasing, chanVars, loopVars
    <3>2. \A k \in Loops : pc'[k] = "erase" =>
            \E d \in Clients : Erasing(k, d)' /\ index'[d] = "added" /\ events'[d] = {}
      BY <1>1, <1>2, <1>5, <2>1 DEF ChanInv, chanVars, loopVars
    <3> QED
      BY <1>2, <2>1, <3>1, <3>2, RegKept DEF ChanInv
  <2>5. WireInv'
    BY <1>1, <2>1 DEF Inv, WireInv, WireAt, Completing, isWriting, chanVars, loopVars
  <2> QED
    BY <1>5, <1>7, <2>2, <2>3, <2>4, <2>5 DEF Inv
<1>10. CASE main \notin chmap[owner[main]]
  <2>1. /\ chmap' = [chmap EXCEPT ![owner[c]] = @ \cup {c}] /\ UpdateChannel(c, {"in"})
    <3>1. events[c] \cup {"in"} = {"in"}
      BY <1>4
    <3> QED
      BY <1>3, <1>10, <3>1 DEF Establish, enableReading
  <2>2. {"in"} \in SUBSET {"in", "out"}
    OBVIOUS
  <2>3. /\ owner' = owner /\ died' = died /\ epoll' \in [Loops -> Registrations]
        /\ events' \in [Clients -> SUBSET {"in", "out"}]
        /\ index' \in [Clients -> {"new", "added", "deleted"}]
        /\ events'[c] = {"in"}
        /\ index'[c] = IF index[c] = "added" /\ {"in"} = {} THEN "deleted" ELSE "added"
        /\ \A d \in Clients : d # c => events'[d] = events[d] /\ index'[d] = index[d]
        /\ RegInv'
    BY <1>2, <1>4, <2>1, <2>2, UpdateEffect
  <2>4. index'[c] = "added"
    BY <1>4, <2>3
  <2>5. chmap' \in [Loops -> SUBSET Clients]
    BY <1>2, <1>4, <2>1 DEF TypeOK
  <2>6. TypeOK'
    BY <1>1, <1>2, <1>7, <2>3, <2>5 DEF TypeOK, loopVars
  <2>7. RefInv'
    <3>1. \A d \in Clients : Readable(d) => Readable(d)'
      BY <1>1 DEF Readable
    <3>2. active' = active /\ work' = work /\ functors' = functors /\ revents' = revents
      BY <1>1 DEF loopVars
    <3>3. \A d \in Clients : index[d] # "new" =>
            owner'[d] = owner[d] /\ index'[d] = index[d] /\ events'[d] = events[d]
      BY <1>4, <2>3
    <3> QED
      BY <1>2, <1>5, <3>1, <3>2, <3>3, RefKept
  <2>8. ChanInv'
    <3>1. ASSUME NEW d \in Clients PROVE Life(d)'
      <4>1. Life(d) /\ main' # d
        BY <1>1, <1>2, <1>8 DEF ChanInv
      <4>2. CASE d = c
        <5>1. /\ index'[c] \in {"added", "deleted"} /\ owner'[c] \in Loops
              /\ destroyed'[c] = 0 /\ sock'[c].stage = "accepted" /\ main' # c
              /\ index'[c] = "deleted" => events'[c] = {}
              /\ index'[c] = "added" => "in" \in events'[c]
          BY <1>1, <1>4, <2>3, <2>4, <4>1, <4>2
        <5> QED
          BY <4>2, <5>1, LifeInUse
      <4>3. CASE d # c
        <5>1. /\ owner'[d] = owner[d] /\ sock'[d] = sock[d] /\ destroyed' = destroyed
              /\ events'[d] = events[d] /\ index'[d] = index[d]
          BY <1>1, <2>3, <4>3
        <5> QED
          BY <1>1, <4>1, <5>1 DEF Life, Erasing, loopVars
      <4> QED
        BY <4>2, <4>3
    <3>2. ASSUME NEW k \in Loops, pc'[k] = "erase"
          PROVE  \E d \in Clients : Erasing(k, d)' /\ index'[d] = "added" /\ events'[d] = {}
      <4>1. pc[k] = "erase"
        BY <1>1, <3>2 DEF loopVars
      <4>2. PICK d \in Clients : Erasing(k, d) /\ index[d] = "added" /\ events[d] = {}
        BY <1>2, <4>1 DEF ChanInv
      <4>3. d # c
        BY <1>4, <4>2
      <4> QED
        BY <1>5, <2>3, <4>2, <4>3
    <3> QED
      BY <1>2, <2>3, <3>1, <3>2 DEF ChanInv
  <2>9. WireInv'
    <3> SUFFICES ASSUME NEW d \in Clients PROVE WireAt(d)'
      BY DEF WireInv
    <3>1. WireAt(d) /\ (Completing(d)' <=> Completing(d))
      BY <1>6 DEF Inv, WireInv
    <3>2. out' = out /\ wire' = wire /\ sock' = sock /\ destroyed' = destroyed
      BY <1>1
    <3>3. isWriting(d)' => isWriting(d)
      BY <2>3 DEF isWriting
    <3>4. index'[d] = "new" => index[d] = "new"
      BY <1>4, <2>3
    <3> QED
      BY <3>1, <3>2, <3>3, <3>4 DEF WireAt
  <2> QED
    BY <1>5, <1>7, <2>6, <2>7, <2>8, <2>9 DEF Inv
<1> QED
  BY <1>9, <1>10

(* Steps of a loop that leave sockets, channels and buffers alone. *)
LEMMA LifeFrame ==
  ASSUME ChanInv, UNCHANGED <<epoll, main, chanVars, destroyed, died, sock>>, NEW l \in Loops,
         pc[l] # "erase", pc'[l] # "erase",
         \A k \in Loops : k # l => pc'[k] = pc[k] /\ functors'[k] = functors[k]
  PROVE  ChanInv' /\ \A k \in Loops, d \in Clients : Erasing(k, d)' <=> Erasing(k, d)
<1>1. \A k \in Loops, d \in Clients : Erasing(k, d)' <=> Erasing(k, d)
  BY DEF Erasing
<1>2. \A k \in Loops : pc'[k] = "erase" => pc[k] = "erase"
  OBVIOUS
<1>3. died' \notin {"epoll_ctl", "again"}
  BY DEF ChanInv
<1> QED
  BY <1>1, <1>2, <1>3, ChanKept

LEMMA PollInv ==
  ASSUME Inv, NEW l \in Loops, Poll(l)
  PROVE  Inv'
<1> DEFINE ready == {c \in DOMAIN epoll[l] : Ready(l, c) # {}}
<1>1. /\ pc[l] = "poll" /\ pc' = [pc EXCEPT ![l] = "events"]
      /\ revents' = [c \in Clients |-> IF c \in ready THEN Ready(l, c) ELSE revents[c]]
      /\ \E order \in SetToSeqs(ready) : active' = [active EXCEPT ![l] = order]
      /\ UNCHANGED <<poolVars, main, sock, epoll, chanVars, out, chmap, work, functors,
                     destroyed, wire, died>>
  BY DEF Poll, LoopStays
<1>2. TypeOK /\ LoopInv /\ RefInv /\ ChanInv /\ RegInv
  BY DEF Inv, ChanInv
<1>3. /\ pc \in [Loops -> {"poll", "events", "rest", "erase"}] /\ active \in [Loops -> Seq(Clients)]
      /\ revents \in [Clients -> SUBSET {"in", "out"}] /\ epoll \in [Loops -> Registrations]
  BY <1>2 DEF TypeOK
<1>4. active[l] = << >> /\ work[l] = << >> /\ functors[l] = << >>
  BY <1>1, <1>2 DEF LoopInv
<1>5. ASSUME NEW c \in ready
      PROVE  /\ c \in Clients /\ Ready(l, c) \in SUBSET {"in", "out"}
             /\ index[c] = "added" /\ owner[c] = l
             /\ "in" \in Ready(l, c) => "in" \in events[c] /\ Readable(c)
  <2>1. c \in DOMAIN epoll[l]
    OBVIOUS
  <2>2. /\ c \in Clients /\ Ready(l, c) \in SUBSET {"in", "out"} /\ Ready(l, c) \subseteq epoll[l][c]
        /\ "in" \in Ready(l, c) => Readable(c)
    BY <1>3, <2>1, ReadyType
  <2>3. index[c] = "added" /\ owner[c] = l /\ epoll[l][c] = events[c]
    BY <1>2, <2>1, <2>2 DEF RegInv, Registered
  <2> QED
    BY <2>2, <2>3
<1> HIDE DEF ready
<1>6. PICK order \in SetToSeqs(ready) : active' = [active EXCEPT ![l] = order]
  BY <1>1
<1>7. order \in Seq(Clients) /\ \A c : In(c, order) => c \in ready
  <2>1. ready \in SUBSET Clients
    BY <1>5
  <2>2. Cardinality(ready) \in Nat
    BY <2>1, ServerAssumption, FS_Subset, FS_CardinalityType
  <2>3. order \in [1 .. Cardinality(ready) -> ready]
    BY DEF SetToSeqs
  <2>4. order \in Seq(ready)
    BY <2>2, <2>3, SeqDef
  <2>5. order \in Seq(Clients)
    BY <2>1, <2>4
  <2>6. \A i \in 1 .. Len(order) : order[i] \in ready
    BY <2>4, ElementOfSeq
  <2> QED
    BY <2>5, <2>6 DEF In
<1>8. /\ active'[l] = order /\ \A k \in Loops : k # l => active'[k] = active[k]
      /\ active' \in [Loops -> Seq(Clients)]
  BY <1>3, <1>6, <1>7
<1>9. /\ revents' \in [Clients -> SUBSET {"in", "out"}]
      /\ \A c \in Clients : revents'[c] = IF c \in ready THEN Ready(l, c) ELSE revents[c]
  BY <1>1, <1>3, <1>5
<1>10. /\ pc' \in [Loops -> {"poll", "events", "rest", "erase"}] /\ pc'[l] = "events"
       /\ \A k \in Loops : k # l => pc'[k] = pc[k]
  BY <1>1, <1>3
<1>11. TypeOK'
  BY <1>1, <1>2, <1>8, <1>9, <1>10 DEF TypeOK, PoolTypeOK, SocketTypeOK, poolVars, chanVars
<1>12. PoolInv' /\ BufferInv' /\ WireInv'
  <2>1. PoolInv' /\ BufferInv'
    BY <1>1 DEF Inv, PoolInv, BufferInv, Starting, poolVars
  <2>2. WireInv'
    BY <1>1 DEF Inv, WireInv, WireAt, Completing, isWriting, chanVars
  <2> QED
    BY <2>1, <2>2
<1>13. LoopInv'
  <2> SUFFICES ASSUME NEW k \in Loops
               PROVE  /\ pc'[k] = "poll" => active'[k] = << >> /\ work[k] = << >> /\ functors[k] = << >>
                      /\ pc'[k] = "events" => functors[k] = << >>
                      /\ pc'[k] \in {"rest", "erase"} => active'[k] = << >> /\ work[k] = << >>
                      /\ Distinct(work[k]) /\ Distinct(functors[k])
    BY <1>1 DEF LoopInv
  <2>1. Distinct(work[k]) /\ Distinct(functors[k])
    BY <1>2 DEF LoopInv
  <2>2. CASE k = l
    BY <1>4, <1>10, <2>1, <2>2
  <2>3. CASE k # l
    BY <1>2, <1>8, <1>10, <2>1, <2>3 DEF LoopInv
  <2> QED
    BY <2>2, <2>3
<1>14. ChanInv' /\ \A k \in Loops, d \in Clients : Erasing(k, d)' <=> Erasing(k, d)
  <2>1. pc[l] # "erase" /\ pc'[l] # "erase"
    BY <1>1, <1>10
  <2> QED
    BY <1>1, <1>2, <1>10, <2>1, LifeFrame
<1>15. RefInv'
  <2> SUFFICES ASSUME NEW k \in Loops, NEW d \in Clients
               PROVE  ActiveRef(k, d)' /\ WorkRef(k, d)' /\ FunctorRef(k, d)'
    BY DEF RefInv
  <2>0. ActiveRef(k, d) /\ WorkRef(k, d) /\ FunctorRef(k, d)
    BY <1>2 DEF RefInv
  <2>1. /\ owner' = owner /\ index' = index /\ events' = events /\ work' = work /\ functors' = functors
        /\ (Readable(d)' <=> Readable(d))
    BY <1>1 DEF chanVars, Readable
  <2>2. CASE k = l
    <3>1. ActiveRef(k, d)'
      <4> SUFFICES ASSUME In(d, active'[l])
                   PROVE  /\ owner[d] = l /\ index[d] # "new"
                          /\ "in" \in revents'[d] => "in" \in events[d] /\ Readable(d)
        BY <2>1, <2>2 DEF ActiveRef
      <4>1. d \in ready
        BY <1>7, <1>8
      <4> QED
        BY <1>5, <1>9, <4>1
    <3>2. WorkRef(k, d)' /\ FunctorRef(k, d)'
      BY <1>4, <2>1, <2>2, InEmpty DEF WorkRef, FunctorRef
    <3> QED
      BY <3>1, <3>2
  <2>3. CASE k # l
    <3>1. owner[d] = k => revents'[d] = revents[d]
      BY <1>5, <1>9, <2>3
    <3>2. active'[k] = active[k]
      BY <1>8, <2>3
    <3>3. ActiveRef(k, d)'
      BY <2>0, <2>1, <3>1, <3>2 DEF ActiveRef
    <3>4. WorkRef(k, d)'
      BY <2>0, <2>1, <3>1, <3>2 DEF WorkRef
    <3>5. FunctorRef(k, d)'
      BY <1>14, <2>0, <2>1, FunctorRefKept
    <3> QED
      BY <3>3, <3>4, <3>5
  <2> QED
    BY <2>2, <2>3
<1> QED
  BY <1>11, <1>12, <1>13, <1>14, <1>15 DEF Inv

LEMMA StartRestInv ==
  ASSUME Inv, NEW l \in Loops, StartRest(l)
  PROVE  Inv'
<1>1. /\ pc[l] = "events" /\ active[l] = << >>
      /\ functors' = [functors EXCEPT ![l] = work[l]]
      /\ work' = [work EXCEPT ![l] = << >>] /\ pc' = [pc EXCEPT ![l] = "rest"]
      /\ UNCHANGED <<poolVars, main, sock, epoll, chanVars, revents, out, chmap, active,
                     destroyed, wire, died>>
  BY DEF StartRest, LoopStays
<1>2. TypeOK /\ LoopInv /\ RefInv /\ ChanInv
  BY DEF Inv
<1>3. /\ pc \in [Loops -> {"poll", "events", "rest", "erase"}]
      /\ work \in [Loops -> Seq(Functors)] /\ functors \in [Loops -> Seq(Functors)]
  BY <1>2 DEF TypeOK
<1>4. functors[l] = << >> /\ Distinct(work[l])
  BY <1>1, <1>2 DEF LoopInv
<1>5. /\ functors'[l] = work[l] /\ work'[l] = << >> /\ pc'[l] = "rest"
      /\ \A k \in Loops : k # l => functors'[k] = functors[k] /\ work'[k] = work[k] /\ pc'[k] = pc[k]
      /\ pc' \in [Loops -> {"poll", "events", "rest", "erase"}]
      /\ work' \in [Loops -> Seq(Functors)] /\ functors' \in [Loops -> Seq(Functors)]
  BY <1>1, <1>3, EmptySeq
<1>6. TypeOK'
  BY <1>1, <1>2, <1>5 DEF TypeOK, PoolTypeOK, SocketTypeOK, poolVars, chanVars
<1>7. PoolInv' /\ BufferInv'
  BY <1>1 DEF Inv, PoolInv, BufferInv, Starting, poolVars
<1>8. \A d \in Clients : Completing(d)' <=> Completing(d)
  <2> TAKE d \in Clients
  <2> DEFINE g == [run |-> "writeComplete", conn |-> d]
  <2>1. \A k \in Loops : In(g, work'[k]) \/ In(g, functors'[k]) <=> In(g, work[k]) \/ In(g, functors[k])
    <3> TAKE k \in Loops
    <3>1. CASE k = l
      BY <1>4, <1>5, <3>1, InEmpty
    <3>2. CASE k # l
      BY <1>5, <3>2
    <3> QED
      BY <3>1, <3>2
  <2> QED
    BY <2>1 DEF Completing
<1>9. WireInv'
  BY <1>1, <1>8 DEF Inv, WireInv, WireAt, isWriting, chanVars
<1>10. Distinct(<< >>)
  BY EmptySeq DEF Distinct
<1>11. LoopInv'
  <2> SUFFICES ASSUME NEW k \in Loops
               PROVE  /\ pc'[k] = "poll" => active[k] = << >> /\ work'[k] = << >> /\ functors'[k] = << >>
                      /\ pc'[k] = "events" => functors'[k] = << >>
                      /\ pc'[k] \in {"rest", "erase"} => active[k] = << >> /\ work'[k] = << >>
                      /\ Distinct(work'[k]) /\ Distinct(functors'[k])
    BY <1>1 DEF LoopInv
  <2>1. CASE k = l
    BY <1>1, <1>4, <1>5, <1>10, <2>1
  <2>2. CASE k # l
    BY <1>2, <1>5, <2>2 DEF LoopInv
  <2> QED
    BY <2>1, <2>2
<1>12. ChanInv' /\ \A k \in Loops, d \in Clients : Erasing(k, d)' <=> Erasing(k, d)
  <2>1. pc[l] # "erase" /\ pc'[l] # "erase"
    BY <1>1, <1>5
  <2> QED
    BY <1>1, <1>2, <1>5, <2>1, LifeFrame
<1>13. RefInv'
  <2> SUFFICES ASSUME NEW k \in Loops, NEW d \in Clients
               PROVE  ActiveRef(k, d)' /\ WorkRef(k, d)' /\ FunctorRef(k, d)'
    BY DEF RefInv
  <2>0. ActiveRef(k, d) /\ WorkRef(k, d) /\ FunctorRef(k, d)
    BY <1>2 DEF RefInv
  <2>1. /\ owner' = owner /\ index' = index /\ events' = events /\ active' = active /\ revents' = revents
        /\ (Readable(d)' <=> Readable(d))
    BY <1>1 DEF chanVars, Readable
  <2>2. ActiveRef(k, d)'
    BY <2>0, <2>1 DEF ActiveRef
  <2>3. CASE k = l
    <3>1. WorkRef(k, d)'
      BY <1>5, <2>3, InEmpty DEF WorkRef
    <3>2. FunctorRef(k, d)'
      <4> SUFFICES ASSUME NEW f \in Functors, f.conn = d, In(f, work[l])
                   PROVE  /\ owner[d] = l /\ index[d] # "new"
                          /\ f.run = "connectDestroyed" => index[d] = "deleted"
        BY <1>5, <2>1, <2>3 DEF FunctorRef
      <4> QED
        BY <2>0, <2>3 DEF WorkRef
    <3> QED
      BY <2>2, <3>1, <3>2
  <2>4. CASE k # l
    <3>1. WorkRef(k, d)'
      BY <1>5, <2>0, <2>1, <2>4 DEF WorkRef
    <3>2. FunctorRef(k, d)'
      BY <1>5, <1>12, <2>0, <2>1, <2>4, FunctorRefKept
    <3> QED
      BY <2>2, <3>1, <3>2
  <2> QED
    BY <2>3, <2>4
<1> QED
  BY <1>6, <1>7, <1>9, <1>11, <1>12, <1>13 DEF Inv

LEMMA EndRestInv ==
  ASSUME Inv, NEW l \in Loops, EndRest(l)
  PROVE  Inv'
<1>1. /\ pc[l] = "rest" /\ functors[l] = << >> /\ pc' = [pc EXCEPT ![l] = "poll"]
      /\ UNCHANGED <<poolVars, main, sock, epoll, chanVars, revents, out, chmap, active,
                     work, functors, destroyed, wire, died>>
  BY DEF EndRest, RestDone, LoopStays
<1>2. TypeOK /\ LoopInv /\ RefInv /\ ChanInv
  BY DEF Inv
<1>3. /\ pc'[l] = "poll" /\ \A k \in Loops : k # l => pc'[k] = pc[k]
      /\ pc' \in [Loops -> {"poll", "events", "rest", "erase"}]
  BY <1>1, <1>2 DEF TypeOK
<1>4. TypeOK'
  BY <1>1, <1>2, <1>3 DEF TypeOK, PoolTypeOK, SocketTypeOK, poolVars, chanVars
<1>5. PoolInv' /\ BufferInv'
  BY <1>1 DEF Inv, PoolInv, BufferInv, Starting, poolVars
<1>6. WireInv'
  BY <1>1 DEF Inv, WireInv, WireAt, Completing, isWriting, chanVars
<1>7. LoopInv'
  <2> SUFFICES ASSUME NEW k \in Loops
               PROVE  /\ pc'[k] = "poll" => active[k] = << >> /\ work[k] = << >> /\ functors[k] = << >>
                      /\ pc'[k] = "events" => functors[k] = << >>
                      /\ pc'[k] \in {"rest", "erase"} => active[k] = << >> /\ work[k] = << >>
                      /\ Distinct(work[k]) /\ Distinct(functors[k])
    BY <1>1 DEF LoopInv
  <2>1. CASE k = l
    BY <1>1, <1>2, <1>3, <2>1 DEF LoopInv
  <2>2. CASE k # l
    BY <1>2, <1>3, <2>2 DEF LoopInv
  <2> QED
    BY <2>1, <2>2
<1>8. ChanInv' /\ \A k \in Loops, d \in Clients : Erasing(k, d)' <=> Erasing(k, d)
  <2>1. pc[l] # "erase" /\ pc'[l] # "erase"
    BY <1>1, <1>3
  <2> QED
    BY <1>1, <1>2, <1>3, <2>1, LifeFrame
<1>9. RefInv'
  <2>1. \A d \in Clients : Readable(d) => Readable(d)'
    BY <1>1 DEF Readable
  <2>2. /\ active' = active /\ work' = work /\ functors' = functors /\ revents' = revents
        /\ owner' = owner /\ index' = index /\ events' = events
    BY <1>1 DEF chanVars
  <2> QED
    BY <1>2, <1>8, <2>1, <2>2, RefKept
<1> QED
  BY <1>4, <1>5, <1>6, <1>7, <1>8, <1>9 DEF Inv

(* The functor that a loop runs, and those that are left after it. *)
LEMMA HeadOfFunctors ==
  ASSUME TypeOK, LoopInv, NEW l \in Loops, functors[l] # << >>
  PROVE  \E q \in Functors :
           /\ q = Head(functors[l]) /\ In(q, functors[l])
           /\ Tail(functors[l]) \in Seq(Functors) /\ Distinct(Tail(functors[l]))
           /\ \A f : In(f, functors[l]) <=> f = q \/ In(f, Tail(functors[l]))
           /\ \A f \in Functors : In(f, Tail(functors[l])) => f.conn # q.conn
<1>1. functors[l] \in Seq(Functors) /\ Distinct(functors[l])
  BY DEF TypeOK, LoopInv
<1>2. /\ In(Head(functors[l]), functors[l]) /\ Head(functors[l]) \in Functors
      /\ Tail(functors[l]) \in Seq(Functors)
      /\ \A f : In(f, functors[l]) <=> f = Head(functors[l]) \/ In(f, Tail(functors[l]))
  BY <1>1, InTail
<1>3. /\ Distinct(Tail(functors[l]))
      /\ \A f \in Functors : In(f, Tail(functors[l])) => f.conn # Head(functors[l]).conn
  BY <1>1, DistinctTail
<1> QED
  BY <1>2, <1>3

LEMMA SocketShut ==
  ASSUME SocketTypeOK, NEW c \in Clients, NEW b \in BOOLEAN, sock' = [sock EXCEPT ![c].shut = @ \/ b]
  PROVE  /\ SocketTypeOK' /\ \A d \in Clients : d # c => sock'[d] = sock[d]
         /\ sock'[c].stage = sock[c].stage /\ sock'[c].rst = sock[c].rst
         /\ sock'[c].unread = sock[c].unread /\ sock'[c].fin = sock[c].fin
         /\ sock'[c].shut <=> sock[c].shut \/ b
<1>1. sock[c].shut \in BOOLEAN
  BY SocketOf DEF Sockets
<1>2. PICK v \in BOOLEAN : v = (sock[c].shut \/ b)
  BY <1>1
<1> DEFINE r == [sock[c] EXCEPT !.shut = v]
<1>3. sock' = [sock EXCEPT ![c] = r]
  BY <1>2
<1>4. /\ r \in Sockets /\ r.unread <= r.sent /\ r.sent <= Segments[c] /\ r.queued <= Capacity[c]
      /\ r.stage = sock[c].stage /\ r.shut = v /\ r.rst = sock[c].rst
      /\ r.unread = sock[c].unread /\ r.fin = sock[c].fin
  BY SocketOf DEF Sockets
<1> HIDE DEF r
<1>5. SocketTypeOK' /\ sock'[c] = r /\ \A d \in Clients : d # c => sock'[d] = sock[d]
  BY <1>3, <1>4, SocketChange
<1> QED
  BY <1>2, <1>4, <1>5

(* The connection is shut when its one reply has been written whole. *)
LEMMA WriteCompleteInv ==
  ASSUME Inv, NEW l \in Loops, WriteComplete(l)
  PROVE  Inv'
<1>1. /\ pc[l] = "rest" /\ functors[l] # << >> /\ Head(functors[l]).run = "writeComplete"
      /\ functors' = [functors EXCEPT ![l] = Tail(@)]
      /\ UNCHANGED <<poolVars, main, epoll, chanVars, revents, out, chmap, pc, active, work,
                     destroyed, wire, died>>
  BY DEF WriteComplete, Running, LoopStays
<1>2. TypeOK /\ LoopInv /\ RefInv /\ ChanInv /\ SocketTypeOK
  BY DEF Inv, TypeOK
<1>3. PICK q \in Functors :
        /\ q = Head(functors[l]) /\ In(q, functors[l])
        /\ Tail(functors[l]) \in Seq(Functors) /\ Distinct(Tail(functors[l]))
        /\ \A f : In(f, functors[l]) <=> f = q \/ In(f, Tail(functors[l]))
        /\ \A f \in Functors : In(f, Tail(functors[l])) => f.conn # q.conn
  BY <1>1, <1>2, HeadOfFunctors
<1>4. PICK c \in Clients : c = q.conn
  BY DEF Functors
<1>5. q = [run |-> "writeComplete", conn |-> c]
  BY <1>1, <1>3, <1>4 DEF Functors
<1>6. PICK b \in BOOLEAN : b = (~isWriting(c) /\ ~sock[c].rst)
  <2>1. (~isWriting(c) /\ ~sock[c].rst) \in BOOLEAN
    OBVIOUS
  <2> QED
    BY <2>1
<1>7. sock' = [sock EXCEPT ![c].shut = @ \/ b]
  BY <1>3, <1>4, <1>6 DEF WriteComplete
<1>8. /\ SocketTypeOK' /\ \A d \in Clients : d # c => sock'[d] = sock[d]
      /\ sock'[c].stage = sock[c].stage /\ sock'[c].rst = sock[c].rst
      /\ sock'[c].unread = sock[c].unread /\ sock'[c].fin = sock[c].fin
      /\ sock'[c].shut <=> sock[c].shut \/ b
  BY <1>2, <1>7, SocketShut
<1>9. /\ functors'[l] = Tail(functors[l]) /\ \A k \in Loops : k # l => functors'[k] = functors[k]
      /\ functors' \in [Loops -> Seq(Functors)]
  BY <1>1, <1>2, <1>3 DEF TypeOK
<1>10. \A k \in Loops : \A f : In(f, functors'[k]) => In(f, functors[k])
  BY <1>3, <1>9
<1>11. TypeOK'
  BY <1>1, <1>2, <1>8, <1>9 DEF TypeOK, PoolTypeOK, poolVars, chanVars
<1>12. PoolInv' /\ BufferInv'
  BY <1>1 DEF Inv, PoolInv, BufferInv, Starting, poolVars
<1>13. LoopInv'
  <2> SUFFICES ASSUME NEW k \in Loops
               PROVE  /\ pc[k] = "poll" => active[k] = << >> /\ work[k] = << >> /\ functors'[k] = << >>
                      /\ pc[k] = "events" => functors'[k] = << >>
                      /\ pc[k] \in {"rest", "erase"} => active[k] = << >> /\ work[k] = << >>
                      /\ Distinct(work[k]) /\ Distinct(functors'[k])
    BY <1>1 DEF LoopInv
  <2>1. CASE k = l
    BY <1>1, <1>2, <1>3, <1>9, <2>1 DEF LoopInv
  <2>2. CASE k # l
    BY <1>2, <1>9, <2>2 DEF LoopInv
  <2> QED
    BY <2>1, <2>2
<1>14. \A k \in Loops, d \in Clients : Erasing(k, d) => Erasing(k, d)'
  BY <1>1, <1>9 DEF Erasing
<1>15. ChanInv'
  <2>1. \A k \in Loops : pc'[k] = "erase" => pc[k] = "erase"
    BY <1>1
  <2>2. \A d \in Clients : sock[d].stage = "accepted" <=> sock'[d].stage = "accepted"
    BY <1>8
  <2>3. died' \notin {"epoll_ctl", "again"} /\ UNCHANGED <<epoll, main, chanVars, destroyed>>
    BY <1>1, <1>2 DEF ChanInv
  <2> QED
    BY <1>2, <1>14, <2>1, <2>2, <2>3, ChanKept
<1>16. RefInv'
  <2>1. \A d \in Clients : Readable(d) => Readable(d)'
    <3> TAKE d \in Clients
    <3>1. sock'[d].unread = sock[d].unread /\ sock'[d].fin = sock[d].fin /\ sock'[d].rst = sock[d].rst
      BY <1>8
    <3> QED
      BY <3>1 DEF Readable
  <2>2. /\ active' = active /\ work' = work /\ revents' = revents
        /\ owner' = owner /\ index' = index /\ events' = events
    BY <1>1 DEF chanVars
  <2> QED
    BY <1>2, <1>10, <1>14, <2>1, <2>2, RefKept
<1>17. WireInv'
  <2> SUFFICES ASSUME NEW d \in Clients PROVE WireAt(d)'
    BY DEF WireInv
  <2>1. WireAt(d)
    BY DEF Inv, WireInv
  <2>2. /\ out' = out /\ wire' = wire /\ index' = index /\ destroyed' = destroyed
        /\ (isWriting(d)' <=> isWriting(d))
    BY <1>1 DEF chanVars, isWriting
  <2>3. Completing(d)' => Completing(d)
    BY <1>1, <1>10 DEF Completing
  <2>4. CASE d = c
    <3>1. Completing(c)
      BY <1>3, <1>5 DEF Completing
    <3>2. readableSize(out[c]) = 0 /\ wire[c] = ReplyLen
      BY <2>1, <2>4, <3>1 DEF WireAt
    <3>3. ~isWriting(c)
      BY <2>1, <2>4, <3>2 DEF WireAt
    <3>4. sock'[c].shut \/ sock'[c].rst
      BY <1>6, <1>8, <3>3
    <3>5. index[c] # "new"
      <4>1. FunctorRef(l, c)
        BY <1>2 DEF RefInv
      <4> QED
        BY <1>3, <1>4, <4>1 DEF FunctorRef
    <3> QED
      BY <2>2, <2>4, <3>2, <3>3, <3>4, <3>5 DEF WireAt
  <2>5. CASE d # c
    <3>1. Completing(d) => Completing(d)'
      <4>1. PICK g \in Functors : g = [run |-> "writeComplete", conn |-> d]
        BY DEF Functors
      <4>2. g.conn = d
        BY <4>1
      <4>3. \A k \in Loops : In(g, functors[k]) => In(g, functors'[k])
        BY <1>3, <1>4, <1>9, <2>5, <4>2
      <4> QED
        BY <1>1, <4>1, <4>3 DEF Completing
    <3>2. sock'[d] = sock[d]
      BY <1>8, <2>5
    <3> QED
      BY <2>1, <2>2, <2>3, <3>1, <3>2 DEF WireAt
  <2> QED
    BY <2>4, <2>5
<1> QED
  BY <1>11, <1>12, <1>13, <1>15, <1>16, <1>17 DEF Inv

(* The channel that is destroyed is registered once more. *)
LEMMA DisableAgainInv ==
  ASSUME Inv, NEW l \in Loops, DisableAgain(l), died = "no"
  PROVE  Inv'
<1>1. /\ pc[l] = "rest" /\ functors[l] # << >> /\ Head(functors[l]).run = "connectDestroyed"
      /\ UpdateChannel(Head(functors[l]).conn, {}) /\ pc' = [pc EXCEPT ![l] = "erase"]
      /\ UNCHANGED <<poolVars, main, sock, revents, out, chmap, active, work, functors,
                     destroyed, wire>>
  BY DEF DisableAgain, Running, LoopStays, disableAll
<1>2. TypeOK /\ LoopInv /\ RefInv /\ ChanInv /\ RegInv
  BY DEF Inv, ChanInv
<1>3. PICK q \in Functors :
        /\ q = Head(functors[l]) /\ In(q, functors[l])
        /\ Tail(functors[l]) \in Seq(Functors) /\ Distinct(Tail(functors[l]))
        /\ \A f : In(f, functors[l]) <=> f = q \/ In(f, Tail(functors[l]))
        /\ \A f \in Functors : In(f, Tail(functors[l])) => f.conn # q.conn
  BY <1>1, <1>2, HeadOfFunctors
<1>4. PICK c \in Clients : c = q.conn
  BY DEF Functors
<1>5. q = [run |-> "connectDestroyed", conn |-> c]
  BY <1>1, <1>3, <1>4 DEF Functors
<1>6. active[l] = << >> /\ work[l] = << >> /\ \A d \in Clients : ~Erasing(l, d)
  BY <1>1, <1>2 DEF LoopInv, Erasing
<1>7. owner[c] = l /\ index[c] = "deleted"
  <2>1. FunctorRef(l, c)
    BY <1>2 DEF RefInv
  <2>2. q.run = "connectDestroyed"
    BY <1>1, <1>3
  <2> QED
    BY <1>3, <1>4, <1>6, <2>1, <2>2 DEF FunctorRef
<1>8. destroyed[c] = 0 /\ main # c /\ sock[c].stage = "accepted" /\ events[c] = {}
  BY <1>2, <1>7 DEF ChanInv, Life
<1>9. /\ owner' = owner /\ died' = died /\ epoll' \in [Loops -> Registrations]
      /\ events' \in [Clients -> SUBSET {"in", "out"}]
      /\ index' \in [Clients -> {"new", "added", "deleted"}]
      /\ events'[c] = {}
      /\ index'[c] = IF index[c] = "added" /\ {} = {} THEN "deleted" ELSE "added"
      /\ \A d \in Clients : d # c => events'[d] = events[d] /\ index'[d] = index[d]
      /\ RegInv'
  <2>1. UpdateChannel(c, {}) /\ owner[c] \in Loops /\ {} \in SUBSET {"in", "out"}
    BY <1>1, <1>3, <1>4, <1>7
  <2> QED
    BY <1>2, <2>1, UpdateEffect
<1>10. index'[c] = "added"
  BY <1>7, <1>9
<1>11. /\ pc'[l] = "erase" /\ \A k \in Loops : k # l => pc'[k] = pc[k]
       /\ pc' \in [Loops -> {"poll", "events", "rest", "erase"}]
  BY <1>1, <1>2 DEF TypeOK
<1>12. Erasing(l, c)' /\ \A k \in Loops, d \in Clients : Erasing(k, d) => Erasing(k, d)'
  <2>1. Erasing(l, c)'
    BY <1>1, <1>3, <1>5, <1>11 DEF Erasing
  <2>2. ASSUME NEW k \in Loops, NEW d \in Clients, Erasing(k, d) PROVE Erasing(k, d)'
    <3>1. k # l
      BY <1>6, <2>2
    <3> QED
      BY <1>1, <1>11, <2>2, <3>1 DEF Erasing
  <2> QED
    BY <2>1, <2>2
<1>13. TypeOK'
  BY <1>1, <1>2, <1>9, <1>11 DEF TypeOK, PoolTypeOK, SocketTypeOK, poolVars
<1>14. PoolInv' /\ BufferInv'
  BY <1>1 DEF Inv, PoolInv, BufferInv, Starting, poolVars
<1>15. LoopInv'
  <2> SUFFICES ASSUME NEW k \in Loops
               PROVE  /\ pc'[k] = "poll" => active[k] = << >> /\ work[k] = << >> /\ functors[k] = << >>
                      /\ pc'[k] = "events" => functors[k] = << >>
                      /\ pc'[k] \in {"rest", "erase"} => active[k] = << >> /\ work[k] = << >>
                      /\ Distinct(work[k]) /\ Distinct(functors[k])
    BY <1>1 DEF LoopInv
  <2>0. Distinct(work[k]) /\ Distinct(functors[k])
    BY <1>2 DEF LoopInv
  <2>1. CASE k = l
    BY <1>6, <1>11, <2>0, <2>1
  <2>2. CASE k # l
    BY <1>2, <1>11, <2>0, <2>2 DEF LoopInv
  <2> QED
    BY <2>1, <2>2
<1>16. ChanInv'
  <2>1. ASSUME NEW d \in Clients PROVE Life(d)'
    <3>1. Life(d)
      BY <1>2 DEF ChanInv
    <3>2. CASE d = c
      BY <1>1, <1>7, <1>8, <1>9, <1>10, <1>12, <3>2 DEF Life
    <3>3. CASE d # c
      <4>1. /\ owner' = owner /\ sock' = sock /\ destroyed' = destroyed /\ main' = main
            /\ events'[d] = events[d] /\ index'[d] = index[d]
        BY <1>1, <1>9, <3>3
      <4>2. owner[d] \in Loops => (Erasing(owner[d], d) => Erasing(owner[d], d)')
        BY <1>12, <4>1
      <4>3. index[d] # "new" => owner[d] \in Loops
        BY <3>1 DEF Life
      <4> QED
        BY <3>1, <4>1, <4>2, <4>3 DEF Life
    <3> QED
      BY <3>2, <3>3
  <2>2. ASSUME NEW k \in Loops, pc'[k] = "erase"
        PROVE  \E d \in Clients : Erasing(k, d)' /\ index'[d] = "added" /\ events'[d] = {}
    <3>1. CASE k = l
      BY <1>9, <1>10, <1>12, <3>1
    <3>2. CASE k # l
      <4>1. pc[k] = "erase"
        BY <1>11, <2>2, <3>2
      <4>2. PICK d \in Clients : Erasing(k, d) /\ index[d] = "added" /\ events[d] = {}
        BY <1>2, <4>1 DEF ChanInv
      <4>3. d # c
        BY <1>7, <4>2
      <4> QED
        BY <1>9, <1>12, <4>2, <4>3
    <3> QED
      BY <3>1, <3>2
  <2>3. died' \notin {"epoll_ctl", "again"}
    BY <1>2, <1>9 DEF ChanInv
  <2> QED
    BY <1>9, <2>1, <2>2, <2>3 DEF ChanInv
<1>17. RefInv'
  <2> SUFFICES ASSUME NEW k \in Loops, NEW d \in Clients
               PROVE  ActiveRef(k, d)' /\ WorkRef(k, d)' /\ FunctorRef(k, d)'
    BY DEF RefInv
  <2>0. ActiveRef(k, d) /\ WorkRef(k, d) /\ FunctorRef(k, d)
    BY <1>2 DEF RefInv
  <2>1. /\ owner' = owner /\ active' = active /\ work' = work /\ functors' = functors
        /\ revents' = revents /\ (Readable(d)' <=> Readable(d))
    BY <1>1, <1>9 DEF Readable
  <2>2. CASE d # c
    <3>1. index'[d] = index[d] /\ events'[d] = events[d] /\ (Erasing(k, d) => Erasing(k, d)')
      BY <1>9, <1>12, <2>2
    <3>2. ActiveRef(k, d)'
      BY <2>0, <2>1, <3>1 DEF ActiveRef
    <3>3. WorkRef(k, d)'
      BY <2>0, <2>1, <3>1 DEF WorkRef
    <3>4. FunctorRef(k, d)'
      BY <2>0, <2>1, <3>1, FunctorRefKept
    <3> QED
      BY <3>2, <3>3, <3>4
  <2>3. CASE d = c
    <3>1. CASE k = l
      <4>1. ActiveRef(l, c)' /\ WorkRef(l, c)'
        BY <1>6, <2>1, InEmpty DEF ActiveRef, WorkRef
      <4>2. FunctorRef(l, c)'
        BY <1>7, <1>10, <1>12, <2>1 DEF FunctorRef
      <4> QED
        BY <2>3, <3>1, <4>1, <4>2
    <3>2. CASE k # l
      <4>1. /\ ~In(c, active[k]) /\ \A f \in Functors : f.conn = c => ~In(f, work[k]) /\ ~In(f, functors[k])
        BY <1>7, <2>0, <2>3, <3>2 DEF ActiveRef, WorkRef, FunctorRef
      <4>2. ActiveRef(k, c)' /\ WorkRef(k, c)' /\ FunctorRef(k, c)'
        BY <2>1, <4>1 DEF ActiveRef, WorkRef, FunctorRef
      <4> QED
        BY <2>3, <4>2
    <3> QED
      BY <3>1, <3>2
  <2> QED
    BY <2>2, <2>3
<1>18. WireInv'
  <2> SUFFICES ASSUME NEW d \in Clients PROVE WireAt(d)'
    BY DEF WireInv
  <2>1. WireAt(d)
    BY DEF Inv, WireInv
  <2>2. /\ out' = out /\ wire' = wire /\ sock' = sock /\ destroyed' = destroyed
        /\ (Completing(d)' <=> Completing(d))
    BY <1>1, CompletingKept
  <2>3. (isWriting(d)' => isWriting(d)) /\ (index'[d] = "new" => index[d] = "new")
    BY <1>9, <1>10 DEF isWriting
  <2> QED
    BY <2>1, <2>2, <2>3 DEF WireAt
<1> QED
  BY <1>13, <1>14, <1>15, <1>16, <1>17, <1>18 DEF Inv

(* The connection is destroyed: nothing leads to it any more. *)
LEMMA RemoveChannelInv ==
  ASSUME Inv, NEW l \in Loops, RemoveChannel(l), died = "no"
  PROVE  Inv'
<1>1. TypeOK /\ LoopInv /\ RefInv /\ ChanInv /\ RegInv /\ pc[l] = "erase"
  BY DEF Inv, ChanInv, RemoveChannel
<1>2. PICK c \in Clients : Erasing(l, c) /\ index[c] = "added" /\ events[c] = {}
  BY <1>1 DEF ChanInv
<1>3. functors[l] # << >> /\ Head(functors[l]) = [run |-> "connectDestroyed", conn |-> c]
  BY <1>2 DEF Erasing
<1>4. PICK q \in Functors :
        /\ q = Head(functors[l]) /\ In(q, functors[l])
        /\ Tail(functors[l]) \in Seq(Functors) /\ Distinct(Tail(functors[l]))
        /\ \A f : In(f, functors[l]) <=> f = q \/ In(f, Tail(functors[l]))
        /\ \A f \in Functors : In(f, Tail(functors[l])) => f.conn # q.conn
  BY <1>1, <1>3, HeadOfFunctors
<1>5. q.conn = c /\ q.run = "connectDestroyed"
  BY <1>3, <1>4
<1>6. /\ \/ chmap' = [chmap EXCEPT ![l] = @ \ {c}]
         \/ \E content \in SUBSET Clients : chmap' = [chmap EXCEPT ![l] = content]
      /\ Deregister(l, c)
      /\ index' = [index EXCEPT ![c] = "new"]
      /\ destroyed' = [destroyed EXCEPT ![c] = @ + 1]
      /\ functors' = [functors EXCEPT ![l] = Tail(@)]
      /\ pc' = [pc EXCEPT ![l] = "rest"]
      /\ UNCHANGED <<poolVars, main, sock, owner, events, revents, out, active, work, wire>>
  <2>1. Head(functors[l]).conn = c
    BY <1>4, <1>5
  <2> QED
    BY <2>1 DEF RemoveChannel, LoopStays
<1>7. active[l] = << >> /\ work[l] = << >>
  BY <1>1 DEF LoopInv
<1>8. owner[c] = l /\ destroyed[c] = 0 /\ main # c /\ sock[c].stage = "accepted"
  <2>1. FunctorRef(l, c) /\ Life(c)
    BY <1>1 DEF RefInv, ChanInv
  <2>2. owner[c] = l
    BY <1>4, <1>5, <2>1 DEF FunctorRef
  <2> QED
    BY <1>2, <2>1, <2>2 DEF Life
<1>9. c \in DOMAIN epoll[l] /\ epoll \in [Loops -> Registrations]
  BY <1>1, <1>2, <1>8 DEF RegInv, Registered, TypeOK
<1>10. /\ died' = died /\ epoll' \in [Loops -> Registrations]
       /\ \A k \in Loops : k # l => epoll'[k] = epoll[k]
       /\ \A d \in Clients : d # c =>
            /\ d \in DOMAIN epoll'[l] <=> d \in DOMAIN epoll[l]
            /\ d \in DOMAIN epoll[l] => epoll'[l][d] = epoll[l][d]
       /\ c \in DOMAIN epoll'[l] <=> "del" # "del"
       /\ "del" # "del" => epoll'[l][c] = {}
  <2>1. EpollCtl(l, "del", c, {})
    BY <1>2, <1>6 DEF Deregister
  <2>2. /\ "del" \in {"add", "mod", "del"} /\ {} \in SUBSET {"in", "out"}
        /\ ("del" = "add") <=> c \notin DOMAIN epoll[l]
    BY <1>9
  <2> QED
    BY <1>9, <2>1, <2>2, CtlEffect
<1>11. /\ index' \in [Clients -> {"new", "added", "deleted"}] /\ index'[c] = "new"
       /\ \A d \in Clients : d # c => index'[d] = index[d]
       /\ destroyed' \in [Clients -> Nat] /\ destroyed'[c] = 1
       /\ \A d \in Clients : d # c => destroyed'[d] = destroyed[d]
       /\ pc' \in [Loops -> {"poll", "events", "rest", "erase"}] /\ pc'[l] = "rest"
       /\ \A k \in Loops : k # l => pc'[k] = pc[k]
       /\ functors' \in [Loops -> Seq(Functors)] /\ functors'[l] = Tail(functors[l])
       /\ \A k \in Loops : k # l => functors'[k] = functors[k]
       /\ chmap' \in [Loops -> SUBSET Clients]
  <2>1. /\ index \in [Clients -> {"new", "added", "deleted"}] /\ destroyed \in [Clients -> Nat]
        /\ pc \in [Loops -> {"poll", "events", "rest", "erase"}]
        /\ functors \in [Loops -> Seq(Functors)] /\ chmap \in [Loops -> SUBSET Clients]
    BY <1>1 DEF TypeOK
  <2>2. /\ index' \in [Clients -> {"new", "added", "deleted"}] /\ index'[c] = "new"
        /\ \A d \in Clients : d # c => index'[d] = index[d]
    BY <1>6, <2>1
  <2>3. /\ destroyed' \in [Clients -> Nat] /\ destroyed'[c] = 1
        /\ \A d \in Clients : d # c => destroyed'[d] = destroyed[d]
    BY <1>6, <1>8, <2>1
  <2>4. /\ pc' \in [Loops -> {"poll", "events", "rest", "erase"}] /\ pc'[l] = "rest"
        /\ \A k \in Loops : k # l => pc'[k] = pc[k]
    BY <1>6, <2>1
  <2>5. /\ functors' \in [Loops -> Seq(Functors)] /\ functors'[l] = Tail(functors[l])
        /\ \A k \in Loops : k # l => functors'[k] = functors[k]
    BY <1>4, <1>6, <2>1
  <2>6. chmap' \in [Loops -> SUBSET Clients]
    BY <1>6, <2>1
  <2> QED
    BY <2>2, <2>3, <2>4, <2>5, <2>6
<1>12. \A k \in Loops, d \in Clients : d # c /\ Erasing(k, d) => Erasing(k, d)'
  <2> TAKE k \in Loops, d \in Clients
  <2>1. CASE k = l
    <3>1. d # c => ~Erasing(l, d)
      <4>1. [run |-> "connectDestroyed", conn |-> d].conn = d
        OBVIOUS
      <4> QED
        BY <1>4, <1>5, <4>1 DEF Erasing
    <3> QED
      BY <2>1, <3>1
  <2>2. CASE k # l
    BY <1>11, <2>2 DEF Erasing
  <2> QED
    BY <2>1, <2>2
<1>13. TypeOK'
  BY <1>1, <1>6, <1>10, <1>11 DEF TypeOK, PoolTypeOK, SocketTypeOK, poolVars
<1>14. PoolInv' /\ BufferInv'
  BY <1>6 DEF Inv, PoolInv, BufferInv, Starting, poolVars
<1>15. LoopInv'
  <2> SUFFICES ASSUME NEW k \in Loops
               PROVE  /\ pc'[k] = "poll" => active[k] = << >> /\ work[k] = << >> /\ functors'[k] = << >>
                      /\ pc'[k] = "events" => functors'[k] = << >>
                      /\ pc'[k] \in {"rest", "erase"} => active[k] = << >> /\ work[k] = << >>
                      /\ Distinct(work[k]) /\ Distinct(functors'[k])
    BY <1>6 DEF LoopInv
  <2>1. CASE k = l
    <3>1. Distinct(work[l])
      BY <1>1 DEF LoopInv
    <3> QED
      BY <1>4, <1>7, <1>11, <2>1, <3>1
  <2>2. CASE k # l
    BY <1>1, <1>11, <2>2 DEF LoopInv
  <2> QED
    BY <2>1, <2>2
<1>16. ChanInv'
  <2>1. ASSUME NEW d \in Clients PROVE Life(d)'
    <3>1. Life(d)
      BY <1>1 DEF ChanInv
    <3>2. CASE d = c
      BY <1>2, <1>6, <1>8, <1>11, <3>2 DEF Life
    <3>3. CASE d # c
      <4>1. /\ owner' = owner /\ sock' = sock /\ destroyed'[d] = destroyed[d] /\ main' = main
            /\ events' = events /\ index'[d] = index[d]
        BY <1>6, <1>11, <3>3
      <4>2. owner[d] \in Loops => (Erasing(owner[d], d) => Erasing(owner[d], d)')
        BY <1>12, <3>3, <4>1
      <4>3. index[d] # "new" => owner[d] \in Loops
        BY <3>1 DEF Life
      <4> QED
        BY <3>1, <4>1, <4>2, <4>3 DEF Life
    <3> QED
      BY <3>2, <3>3
  <2>2. ASSUME NEW k \in Loops, pc'[k] = "erase"
        PROVE  \E d \in Clients : Erasing(k, d)' /\ index'[d] = "added" /\ events'[d] = {}
    <3>1. k # l /\ pc[k] = "erase"
      BY <1>11, <2>2
    <3>2. PICK d \in Clients : Erasing(k, d) /\ index[d] = "added" /\ events[d] = {}
      BY <1>1, <3>1 DEF ChanInv
    <3>3. d # c
      <4>1. FunctorRef(k, d) /\ functors[k] # << >> /\ Head(functors[k]) = [run |-> "connectDestroyed", conn |-> d]
        BY <1>1, <3>2 DEF RefInv, Erasing
      <4>2. functors[k] \in Seq(Functors)
        BY <1>1 DEF TypeOK
      <4>3. In(Head(functors[k]), functors[k]) /\ Head(functors[k]) \in Functors
        BY <4>1, <4>2, InTail
      <4>4. Head(functors[k]).conn = d
        BY <4>1
      <4>5. owner[d] = k
        BY <4>1, <4>3, <4>4 DEF FunctorRef
      <4> QED
        BY <1>8, <3>1, <4>5
    <3> QED
      BY <1>6, <1>11, <1>12, <3>2, <3>3
  <2>3. died' \notin {"epoll_ctl", "again"}
    BY <1>1, <1>10 DEF ChanInv
  <2>4. RegInv'
    <3> SUFFICES ASSUME NEW d \in Clients, NEW k \in Loops PROVE Registered(k, d)'
      BY DEF RegInv
    <3>1. Registered(k, d)
      BY <1>1 DEF RegInv
    <3>2. CASE d = c
      <4>1. CASE k = l
        BY <1>10, <1>11, <3>2, <4>1 DEF Registered
      <4>2. CASE k # l
        BY <1>6, <1>8, <1>10, <1>11, <3>1, <3>2, <4>2 DEF Registered
      <4> QED
        BY <4>1, <4>2
    <3>3. CASE d # c
      <4>1. owner' = owner /\ events' = events /\ index'[d] = index[d]
        BY <1>6, <1>11, <3>3
      <4>2. /\ d \in DOMAIN epoll'[k] <=> d \in DOMAIN epoll[k]
            /\ d \in DOMAIN epoll[k] => epoll'[k][d] = epoll[k][d]
        BY <1>10, <3>3
      <4> QED
        BY <3>1, <4>1, <4>2 DEF Registered
    <3> QED
      BY <3>2, <3>3
  <2> QED
    BY <2>1, <2>2, <2>3, <2>4 DEF ChanInv
<1>17. RefInv'
  <2> SUFFICES ASSUME NEW k \in Loops, NEW d \in Clients
               PROVE  ActiveRef(k, d)' /\ WorkRef(k, d)' /\ FunctorRef(k, d)'
    BY DEF RefInv
  <2>0. ActiveRef(k, d) /\ WorkRef(k, d) /\ FunctorRef(k, d)
    BY <1>1 DEF RefInv
  <2>1. /\ owner' = owner /\ active' = active /\ work' = work /\ events' = events
        /\ revents' = revents /\ (Readable(d)' <=> Readable(d))
    BY <1>6 DEF Readable
  <2>2. CASE d # c
    <3>1. index'[d] = index[d] /\ (Erasing(k, d) => Erasing(k, d)')
      BY <1>11, <1>12, <2>2
    <3>2. ActiveRef(k, d)'
      BY <2>0, <2>1, <3>1 DEF ActiveRef
    <3>3. WorkRef(k, d)'
      BY <2>0, <2>1, <3>1 DEF WorkRef
    <3>4. FunctorRef(k, d)'
      <4>1. \A f \in Functors : In(f, functors'[k]) => In(f, functors[k])
        <5>1. CASE k = l
          BY <1>4, <1>11, <5>1
        <5>2. CASE k # l
          BY <1>11, <5>2
        <5> QED
          BY <5>1, <5>2
      <4> QED
        BY <2>0, <2>1, <3>1, <4>1 DEF FunctorRef
    <3> QED
      BY <3>2, <3>3, <3>4
  <2>3. CASE d = c
    <3>1. /\ ~In(c, active[k]) /\ \A f \in Functors : f.conn = c => ~In(f, work[k]) /\ ~In(f, functors'[k])
      <4>1. CASE k = l
        BY <1>4, <1>5, <1>7, <1>11, <4>1, InEmpty
      <4>2. CASE k # l
        BY <1>8, <1>11, <2>0, <2>3, <4>2 DEF ActiveRef, WorkRef, FunctorRef
      <4> QED
        BY <4>1, <4>2
    <3>2. ActiveRef(k, c)' /\ WorkRef(k, c)' /\ FunctorRef(k, c)'
      BY <2>1, <3>1 DEF ActiveRef, WorkRef, FunctorRef
    <3> QED
      BY <2>3, <3>2
  <2> QED
    BY <2>2, <2>3
<1>18. WireInv'
  <2> SUFFICES ASSUME NEW d \in Clients PROVE WireAt(d)'
    BY DEF WireInv
  <2>1. WireAt(d)
    BY DEF Inv, WireInv
  <2>2. /\ out' = out /\ wire' = wire /\ sock' = sock /\ (isWriting(d)' <=> isWriting(d))
    BY <1>6 DEF isWriting
  <2>3. index'[d] = "new" /\ destroyed'[d] = 0 => index[d] = "new" /\ destroyed[d] = 0
    BY <1>11
  <2>4. Completing(d)' <=> Completing(d)
    <3>1. PICK g \in Functors : g = [run |-> "writeComplete", conn |-> d]
      BY DEF Functors
    <3>2. g # q
      <4>1. g.run = "writeComplete"
        BY <3>1
      <4> QED
        BY <1>5, <4>1
    <3>3. \A k \in Loops : In(g, functors'[k]) <=> In(g, functors[k])
      <4> TAKE k \in Loops
      <4>1. CASE k = l
        BY <1>4, <1>11, <3>2, <4>1
      <4>2. CASE k # l
        BY <1>11, <4>2
      <4> QED
        BY <4>1, <4>2
    <3>4. work' = work
      BY <1>6
    <3> QED
      BY <3>1, <3>3, <3>4 DEF Completing
  <2> QED
    BY <2>1, <2>2, <2>3, <2>4 DEF WireAt
<1> QED
  BY <1>13, <1>14, <1>15, <1>16, <1>17, <1>18 DEF Inv

-----------------------------------------------------------------------------
(* The invariant holds of the server. *)

LEMMA InitInv == Init => Inv
<1> SUFFICES ASSUME Init PROVE Inv
  OBVIOUS
<1>1. TypeOK
  BY InitType
<1>2. PoolInv
  <2>1. Len(loops) = 0 /\ starter = "spawn" /\ NumThreads \in Nat
    BY NumThreadsAssumption, EmptySeq DEF Init, PoolInit
  <2> QED
    BY <2>1 DEF Init, PoolInit, PoolInv, Starting
<1>3. LoopInv /\ BufferInv
  <2>1. Distinct(<< >>)
    BY EmptySeq DEF Distinct
  <2>2. \A l \in Loops : pc[l] = "poll" /\ active[l] = << >> /\ work[l] = << >> /\ functors[l] = << >>
    BY DEF Init
  <2>3. BufferInv
    BY DEF Init, BufferInv, EmptyBuffer
  <2> QED
    BY <2>1, <2>2, <2>3 DEF LoopInv
<1>4. RefInv
  BY InEmpty DEF Init, RefInv, ActiveRef, WorkRef, FunctorRef
<1>5. ChanInv
  <2>1. NoClient \notin Clients
    BY ServerAssumption
  <2>2. \A c \in Clients : Life(c)
    BY <2>1 DEF Init, Life
  <2>3. RegInv
    <3>1. DOMAIN << >> = {}
      OBVIOUS
    <3> QED
      BY <3>1 DEF Init, RegInv, Registered
  <2> QED
    BY <2>2, <2>3 DEF Init, ChanInv
<1>6. WireInv
  <2>1. \A c \in Clients : ~Completing(c)
    BY InEmpty DEF Init, Completing
  <2>2. \A c \in Clients : WireAt(c)
    BY <2>1 DEF Init, WireAt, isWriting
  <2> QED
    BY <2>2 DEF WireInv
<1> QED
  BY <1>1, <1>2, <1>3, <1>4, <1>5, <1>6 DEF Inv

LEMMA StutterInv ==
  ASSUME Inv, UNCHANGED vars
  PROVE  Inv'
<1>1. TypeOK'
  BY DEF Inv, TypeOK, PoolTypeOK, SocketTypeOK, vars, poolVars, chanVars, loopVars
<1>2. LoopInv' /\ BufferInv' /\ PoolInv'
  BY DEF Inv, LoopInv, BufferInv, PoolInv, Starting, vars, poolVars, loopVars
<1>3. RefInv'
  BY DEF Inv, RefInv, ActiveRef, WorkRef, FunctorRef, Erasing, Readable, vars, chanVars, loopVars
<1>4. ChanInv'
  <2>1. /\ UNCHANGED <<epoll, main, chanVars, destroyed, pc>> /\ sock' = sock
        /\ died' \notin {"epoll_ctl", "again"} /\ ChanInv
        /\ \A l \in Loops, d \in Clients : Erasing(l, d) => Erasing(l, d)'
    BY DEF Inv, ChanInv, Erasing, vars, loopVars
  <2> QED
    BY <2>1, ChanKept
<1>5. WireInv'
  BY DEF Inv, WireInv, WireAt, Completing, isWriting, vars, chanVars, loopVars
<1> QED
  BY <1>1, <1>2, <1>3, <1>4, <1>5 DEF Inv

LEMMA LoopStepInv ==
  ASSUME Inv, died = "no", NEW l \in Loops, LoopStep(l)
  PROVE  Inv'
<1>1. CASE Poll(l)
  BY <1>1, PollInv
<1>2. CASE StartRest(l)
  BY <1>2, StartRestInv
<1>3. CASE WriteComplete(l)
  BY <1>3, WriteCompleteInv
<1>4. CASE DisableAgain(l)
  BY <1>4, DisableAgainInv
<1>5. CASE RemoveChannel(l)
  BY <1>5, RemoveChannelInv
<1>6. CASE MapCrash(l)
  BY <1>6, EndInv DEF MapCrash, LoopStays
<1>7. CASE EndRest(l)
  BY <1>7, EndRestInv
<1>8. ASSUME NEW c \in Clients, HandleRead(l, c) PROVE Inv'
  BY <1>8, ReadAndAppendInv, ReadAndSendInv, ReadFailsInv, ReadEndInv DEF HandleRead
<1>9. ASSUME NEW c \in Clients, HandleWrite(l, c) \/ WriteFails(l, c) PROVE Inv'
  BY <1>9, HandleWriteInv, WriteFailsInv
<1> QED
  BY <1>1, <1>2, <1>3, <1>4, <1>5, <1>6, <1>7, <1>8, <1>9 DEF LoopStep

LEMMA NextInv ==
  ASSUME Inv, [Next]_vars
  PROVE  Inv'
<1>1. CASE Starts
  BY <1>1, StartsInv
<1>2. CASE died = "no" /\ MainStep
  BY <1>2, EstablishInv, AcceptInv DEF MainStep
<1>3. ASSUME died = "no", NEW l \in Loops, LoopStep(l) PROVE Inv'
  BY <1>3, LoopStepInv
<1>4. ASSUME NEW c \in Clients, ClientStep(c) PROVE Inv'
  BY <1>4, ClientInv
<1>5. ASSUME NEW c \in Clients, AcceptFails(c) PROVE Inv'
  BY <1>5, EndInv DEF AcceptFails
<1>6. CASE UNCHANGED vars
  BY <1>6, StutterInv
<1> QED
  BY <1>1, <1>2, <1>3, <1>4, <1>5, <1>6 DEF Next

(* The invariant that the properties below follow from: what a loop has in  *)
(* hand, whom it leads to, where a channel is in its life, and what was     *)
(* written to a connection (EventLoop::loop, EPoller::updateChannel,        *)
(* TcpConnection::sendInLoop and connectDestroyed).                         *)
THEOREM ServerInvariant == Spec => []Inv
<1>1. Init => Inv
  BY InitInv
<1>2. Inv /\ [Next]_vars => Inv'
  BY NextInv
<1> QED
  BY <1>1, <1>2, PTL DEF Spec

(* For any number of threads, each loop is handed over once, in the order   *)
(* of the threads, and only after its thread has built it.                  *)
THEOREM LoopsBuilt == Spec => []LoopsConstructed
<1>1. Inv => LoopsConstructed
  BY PoolConstructed DEF Inv
<1> QED
  BY <1>1, ServerInvariant, PTL

(* index_ and events_ of a channel always agree with the epoll set of its   *)
(* own loop, so no call of epoll_ctl fails and no read finds nothing.       *)
THEOREM RegistrationAgrees == Spec => []ChannelRegistration
<1>1. Inv => ChannelRegistration
  <2> SUFFICES ASSUME Inv PROVE ChannelRegistration
    OBVIOUS
  <2>1. TypeOK /\ ChanInv /\ RegInv
    BY DEF Inv, ChanInv
  <2>2. ASSUME NEW c \in Clients, NEW l \in Loops, c \in DOMAIN epoll[l], pc[l] = "poll"
        PROVE  "in" \in epoll[l][c]
    <3>1. index[c] = "added" /\ owner[c] = l /\ epoll[l][c] = events[c]
      BY <2>1, <2>2 DEF RegInv, Registered
    <3>2. ~Erasing(owner[c], c)
      BY <2>2, <3>1 DEF Erasing
    <3> QED
      BY <2>1, <3>1, <3>2 DEF ChanInv, Life
  <2> QED
    BY <2>1, <2>2 DEF ChannelRegistration, ChanInv, RegInv, Registered
<1> QED
  BY <1>1, ServerInvariant, PTL

(* connectDestroyed runs at most once for a connection, and when it has     *)
(* run, neither the poller nor a loop leads back to the connection.         *)
THEOREM DestroyedAtMostOnce == Spec => []DestroyedOnce
<1>1. Inv => DestroyedOnce
  <2> SUFFICES ASSUME Inv, NEW c \in Clients
               PROVE  destroyed[c] <= 1 /\ (destroyed[c] = 1 => ~Referenced(c))
    BY DEF DestroyedOnce
  <2>1. Life(c) /\ RegInv
    BY DEF Inv, ChanInv
  <2>2. ASSUME destroyed[c] = 1, NEW l \in Loops
        PROVE  /\ c \notin DOMAIN epoll[l] \cup ToSet(active[l])
               /\ \A f \in ToSet(work[l] \o functors[l]) : f.conn # c
    <3>1. index[c] = "new"
      BY <2>1, <2>2 DEF Life
    <3>2. c \notin DOMAIN epoll[l]
      BY <2>1, <3>1 DEF RegInv, Registered
    <3>3. ActiveRef(l, c) /\ WorkRef(l, c) /\ FunctorRef(l, c)
      BY DEF Inv, RefInv
    <3>4. /\ active[l] \in Seq(Clients) /\ work[l] \in Seq(Functors) /\ functors[l] \in Seq(Functors)
      BY DEF Inv, TypeOK
    <3>5. c \notin ToSet(active[l])
      <4>1. ~In(c, active[l])
        BY <3>1, <3>3 DEF ActiveRef
      <4>2. DOMAIN active[l] = 1 .. Len(active[l])
        BY <3>4, LenProperties
      <4> QED
        BY <4>1, <4>2 DEF In, ToSet
    <3>6. ASSUME NEW f \in ToSet(work[l] \o functors[l]) PROVE f.conn # c
      <4>1. /\ work[l] \o functors[l] \in Seq(Functors)
            /\ Len(work[l] \o functors[l]) = Len(work[l]) + Len(functors[l])
            /\ \A i \in 1 .. Len(work[l]) + Len(functors[l]) :
                 (work[l] \o functors[l])[i] =
                   IF i <= Len(work[l]) THEN work[l][i] ELSE functors[l][i - Len(work[l])]
            /\ Len(work[l]) \in Nat /\ Len(functors[l]) \in Nat
        BY <3>4, ConcatProperties, LenProperties
      <4>2. PICK i \in 1 .. Len(work[l]) + Len(functors[l]) : f = (work[l] \o functors[l])[i]
        BY <3>6, <4>1, LenProperties DEF ToSet
      <4>3. In(f, work[l]) \/ In(f, functors[l])
        <5>1. PICK m \in Nat : m = Len(work[l])
          BY <4>1
        <5>2. PICK n \in Nat : n = Len(functors[l])
          BY <4>1
        <5>3. f = IF i <= m THEN work[l][i] ELSE functors[l][i - m]
          BY <4>1, <4>2, <5>1
        <5>4. i \in 1 .. m + n
          BY <5>1, <5>2
        <5>5. i \in 1 .. m \/ (~(i <= m) /\ i - m \in 1 .. n)
          BY <5>4
        <5> QED
          BY <5>1, <5>2, <5>3, <5>5 DEF In
      <4>4. f \in Functors
        BY <4>1, <4>2, ElementOfSeq
      <4> QED
        BY <3>1, <3>3, <4>3, <4>4 DEF WorkRef, FunctorRef
    <3> QED
      BY <3>2, <3>5, <3>6
  <2>3. destroyed[c] <= 1
    BY <2>1 DEF Life
  <2> QED
    BY <2>2, <2>3 DEF Referenced
<1> QED
  BY <1>1, ServerInvariant, PTL

(* The sending side is shut only after one whole reply, and nothing else,   *)
(* was written, and with nothing waiting.                                   *)
THEOREM ShutOnlyAfterWhole == Spec => []ShutAfterWhole
<1>1. Inv => ShutAfterWhole
  BY DEF Inv, WireInv, WireAt, ShutAfterWhole
<1> QED
  BY <1>1, ServerInvariant, PTL

(* What waits to be written stays within the array of its buffer, whatever  *)
(* the sizes of the replies and of the first array.                         *)
THEOREM WaitingStaysInside == Spec => []OutputInBounds
<1>1. Inv => OutputInBounds
  <2> SUFFICES ASSUME Inv, NEW c \in Clients PROVE InBounds(out[c])
    BY DEF OutputInBounds
  <2>1. out[c].begin = 0 /\ out[c].end \in Nat /\ out[c].end <= out[c].capacity
    BY DEF Inv, BufferInv, TypeOK
  <2> QED
    BY <2>1 DEF InBounds
<1> QED
  BY <1>1, ServerInvariant, PTL

===============================================================================
