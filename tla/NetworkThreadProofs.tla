------------------------ MODULE NetworkThreadProofs ------------------------
(***************************************************************************)
(* Proofs about what the network thread does with its sockets and with the *)
(* lines it gets from them: for every set of clients and every stream of   *)
(* bytes, every size of the read buffer and of events[], every limit on    *)
(* descriptors; and for every set of lines and every width of the integers *)
(* in a command.                                                           *)
(*                                                                         *)
(* The inductive invariant of the sockets says which descriptors are open  *)
(* at which point of main, that a client's descriptor is known in three    *)
(* places at once (fds, watched, clientBuffers), that a batch of events    *)
(* names different open descriptors, and for each descriptor with          *)
(* something to report where the report is: in the kernel or in the batch. *)
(*                                                                         *)
(* On top of it, CutAtLF cuts the bytes read from a client at a LF: the    *)
(* lines before it have been handed over, what follows it is the buffer.   *)
(* TimeKept says that no LF in the buffer at hand was read before the read *)
(* whose time the lines will carry.                                        *)
(*                                                                         *)
(* The last part is about processLine (CommandParser.tla): the extractions *)
(* of a line are a fold, which is unfolded into its at most four steps.    *)
(***************************************************************************)
EXTENDS EventLoop, CommandParser, DataLemmas

\* Where the listener and the epoll descriptor are open.
Bare == {"socket", "exited"}
Looping == {"check", "wait", "events", "lines"}

\* Types, TypeOK's and those it leaves out.
Typed ==
  /\ TypeOK
  /\ fds \in [DOMAIN fds -> Clients \cup {Listener, Epoll}]
  /\ sent \in [Clients -> Nat] /\ got \in [Clients -> Nat]
  /\ clientBuffers \in [DOMAIN clientBuffers -> Seq(Bytes)]
  /\ handed \in [Clients -> Seq(Seq(Bytes))]

\* Set-up opens the listener, then epoll; both stay to the end.
OpenByPhase ==
  /\ pc \in Bare => DOMAIN fds = {}
  /\ pc \in {"configure", "epoll"} => Range(fds) = {Listener}
  /\ pc \notin Bare => Listener \in Range(fds)
  /\ pc \notin Bare \cup {"configure", "epoll"} => Epoll \in Range(fds)
  /\ pc = "watch" => Range(fds) = {Listener, Epoll}

\* A connection is waiting or has a descriptor, not both, and not twice.
ConnectedOnce ==
  \A c \in Clients :
    /\ c \in Range(backlog) => c \notin Range(fds)
    /\ c \in Range(backlog) \cup Range(fds) => link[c] # "away"

\* The three places that know a client's descriptor agree.
FdsAgree ==
  /\ DOMAIN clientBuffers = FdsOf(Clients)
  /\ pc \in Looping \cup {"shutdown"} =>
       watched = FdsOf(Clients \cup {Listener})
  /\ pc \notin Looping \cup {"shutdown"} => watched = {}

\* The batch: different open descriptors, of clients or of the listener.
BatchIsOpen ==
  /\ \A i, j \in DOMAIN events : events[i].fd = events[j].fd => i = j
  /\ EventsAreCurrent
  /\ pc \notin {"events", "lines"} => events = <<>>
  /\ pc = "lines" => events # <<>> /\ fds[events[1].fd] \in Clients

\* fd's event is in the batch, and its input is still to be read.
InBatch(fd) ==
  \E i \in DOMAIN events :
    events[i].fd = fd /\ (pc = "lines" /\ i = 1 => closed)

\* What there is to read or to accept has been or will be reported.
Reported ==
  pc \in Looping =>
    /\ \A fd \in FdsOf(Clients) :
         HasInput(fds[fd]) => fd \in ready \/ InBatch(fd)
    /\ \A fd \in FdsOf({Listener}) :
         backlog # <<>> => fd \in ready \/ InBatch(fd) \/ acceptFailed

\* Only the buffer of the event at hand has complete lines, freshly read.
Fresh ==
  \A fd \in DOMAIN clientBuffers :
    Contains(clientBuffers[fd], LF) =>
      /\ recvTimestamp # 0 /\ events # <<>> /\ fd = events[1].fd

IInv ==
  /\ Typed /\ OpenByPhase /\ ConnectedOnce /\ FdsAgree
  /\ BatchIsOpen /\ Reported /\ Fresh

-----------------------------------------------------------------------------
(* The smallest of a set of naturals is one of them. *)
LEMMA MinOf ==
  ASSUME NEW S \in SUBSET Nat, S # {}
  PROVE  Min(S) \in S /\ \A y \in S : Min(S) =< y
<1>1. PICK x \in S : \A y \in S : ~(<<y, x>> \in OpToRel(<, Nat))
  BY WFMin, NatLessThanWellFounded
<1>2. \A y \in S : <<y, x>> \in OpToRel(<, Nat) <=> (y < x)
  BY Zenon DEF OpToRel
<1>3. \A y \in S : ~(y < x)
  BY <1>1, <1>2, Zenon
<1>4. \A y \in S : x =< y
  BY <1>3
<1> QED
  BY <1>4 DEF Min

\* The descriptor the kernel gives out is a free one.
LEMMA MinFree ==
  ASSUME FreeFds # {}
  PROVE  /\ Min(FreeFds) \in 1 .. MaxFd
         /\ Min(FreeFds) \notin DOMAIN fds
<1>1. FreeFds \in SUBSET Nat
  BY EventLoopAssumption DEF FreeFds
<1> QED
  BY <1>1, MinOf DEF FreeFds

-----------------------------------------------------------------------------
(* Functions and sequences. *)

LEMMA AppendFacts ==
  ASSUME NEW S, NEW s \in Seq(S), NEW x \in S
  PROVE  /\ Append(s, x) \in Seq(S)
         /\ Range(Append(s, x)) = Range(s) \cup {x}
         /\ IsInjective(s) /\ x \notin Range(s) => IsInjective(Append(s, x))
<1>1. \A i \in 1 .. Len(s) : Append(s, x)[i] = s[i]
  OBVIOUS
<1>2. Append(s, x)[Len(s) + 1] = x
  OBVIOUS
<1>3. DOMAIN Append(s, x) = DOMAIN s \cup {Len(s) + 1}
  OBVIOUS
<1> QED
  BY <1>1, <1>2, <1>3 DEF Range, IsInjective

LEMMA TailFacts ==
  ASSUME NEW S, NEW s \in Seq(S), s # <<>>
  PROVE  /\ Head(s) \in Range(s) /\ Head(s) = s[1] /\ 1 \in DOMAIN s
         /\ Tail(s) \in Seq(S)
         /\ \A i \in DOMAIN Tail(s) :
              i + 1 \in DOMAIN s /\ Tail(s)[i] = s[i + 1] /\ i \in Nat \ {0}
         /\ \A i \in DOMAIN s :
              i # 1 => i - 1 \in DOMAIN Tail(s) /\ Tail(s)[i - 1] = s[i]
         /\ Range(Tail(s)) \subseteq Range(s)
         /\ IsInjective(s) =>
              IsInjective(Tail(s)) /\ Head(s) \notin Range(Tail(s))
<1>1. /\ Head(s) = s[1] /\ 1 \in DOMAIN s
      /\ Tail(s) \in Seq(S)
      /\ \A i \in DOMAIN Tail(s) :
           i + 1 \in DOMAIN s /\ Tail(s)[i] = s[i + 1] /\ i \in Nat \ {0}
      /\ \A i \in DOMAIN s :
           i # 1 => i - 1 \in DOMAIN Tail(s) /\ Tail(s)[i - 1] = s[i]
  OBVIOUS
<1>2. Head(s) \in Range(s) /\ Range(Tail(s)) \subseteq Range(s)
  BY <1>1 DEF Range
<1>3. ASSUME IsInjective(s)
      PROVE  IsInjective(Tail(s)) /\ Head(s) \notin Range(Tail(s))
  BY <1>1, <1>3 DEF IsInjective, Range
<1> QED
  BY <1>1, <1>2, <1>3

\* Whether a client has something to read depends on its own state only.
LEMMA SameInput ==
  ASSUME NEW c, got'[c] = got[c], sent'[c] = sent[c], link'[c] = link[c]
  PROVE  HasInput(c)' <=> HasInput(c)
  BY DEF HasInput, Unread

\* A descriptor is opened for someone who had none.
LEMMA Opened ==
  ASSUME Typed, FreeFds # {},
         NEW who \in Clients \cup {Listener, Epoll}, who \notin Range(fds),
         fds' = With(fds, Min(FreeFds), who)
  PROVE  /\ DOMAIN fds' = DOMAIN fds \cup {Min(FreeFds)}
         /\ fds'[Min(FreeFds)] = who
         /\ \A x \in DOMAIN fds : fds'[x] = fds[x]
         /\ fds' \in [DOMAIN fds' -> Clients \cup {Listener, Epoll}]
         /\ Range(fds') = Range(fds) \cup {who}
         /\ IsInjective(fds')
<1> DEFINE fd == Min(FreeFds)
<1>1. fd \in 1 .. MaxFd /\ fd \notin DOMAIN fds
  BY MinFree
<1>2. IsInjective(fds) /\ fds \in [DOMAIN fds -> Clients \cup {Listener, Epoll}]
  BY DEF Typed, TypeOK
<1>3. fds' = With(fds, fd, who)
  OBVIOUS
<1> HIDE DEF fd
<1>4. /\ DOMAIN fds' = DOMAIN fds \cup {fd} /\ fds'[fd] = who
      /\ \A x \in DOMAIN fds : fds'[x] = fds[x]
      /\ fds' \in [DOMAIN fds' -> Clients \cup {Listener, Epoll}]
  BY <1>1, <1>2, <1>3 DEF With
<1>5. Range(fds') = Range(fds) \cup {who}
  BY <1>1, <1>4 DEF Range
<1>6. IsInjective(fds')
  BY <1>1, <1>2, <1>4 DEF Range, IsInjective
<1> QED
  BY <1>4, <1>5, <1>6 DEF fd

\* The event at hand is about an open descriptor.
LEMMA HeadFacts ==
  ASSUME Typed, BatchIsOpen, events # <<>>
  PROVE  /\ 1 \in DOMAIN events /\ Fd = events[1].fd
         /\ Fd \in DOMAIN fds /\ Client \in Clients \cup {Listener}
<1> DEFINE E == [fd : 1 .. MaxFd, who : Clients \cup {Listener}]
<1>1. events \in Seq(E)
  BY DEF Typed, TypeOK
<1> HIDE DEF E
<1>2. 1 \in DOMAIN events /\ Head(events) = events[1] /\ events[1] \in E
  BY <1>1
<1>3. events[1].who \in Clients \cup {Listener}
  BY <1>2 DEF E
<1> QED
  BY <1>2, <1>3 DEF Fd, Client, BatchIsOpen, EventsAreCurrent

\* What is left of a batch when its first event is done.
LEMMA TailFactsOfBatch ==
  ASSUME Typed, BatchIsOpen, events # <<>>, events' = Tail(events)
  PROVE  /\ events' \in Seq([fd : 1 .. MaxFd, who : Clients \cup {Listener}])
         /\ \A i \in DOMAIN events' :
              \E j \in DOMAIN events : events'[i] = events[j]
         /\ \A i \in DOMAIN events' : events'[i].fd # Fd
         /\ \A i, j \in DOMAIN events' :
              events'[i].fd = events'[j].fd => i = j
         /\ \A x : InBatch(x) /\ x # Fd =>
              \E i \in DOMAIN events' : events'[i].fd = x
<1>1. events \in Seq([fd : 1 .. MaxFd, who : Clients \cup {Listener}])
  BY DEF Typed, TypeOK
<1>2. Fd = events[1].fd /\ 1 \in DOMAIN events
  BY HeadFacts
<1>3. /\ events' \in Seq([fd : 1 .. MaxFd, who : Clients \cup {Listener}])
      /\ \A i \in DOMAIN events' :
           /\ i \in Nat \ {0} /\ i + 1 \in DOMAIN events
           /\ events'[i] = events[i + 1]
      /\ \A i \in DOMAIN events :
           i # 1 => i - 1 \in DOMAIN events' /\ events'[i - 1] = events[i]
  BY <1>1
<1>4. \A i, j \in DOMAIN events : events[i].fd = events[j].fd => i = j
  BY DEF BatchIsOpen
<1>5. \A i \in DOMAIN events' : \E j \in DOMAIN events : events'[i] = events[j]
  BY <1>3
<1>6. \A i \in DOMAIN events' : events'[i].fd # Fd
  BY <1>2, <1>3, <1>4
<1>7. \A i, j \in DOMAIN events' : events'[i].fd = events'[j].fd => i = j
  BY <1>3, <1>4
<1>8. ASSUME NEW x, InBatch(x), x # Fd
      PROVE  \E i \in DOMAIN events' : events'[i].fd = x
  BY <1>2, <1>3, <1>8 DEF InBatch
<1> QED
  BY <1>3, <1>5, <1>6, <1>7, <1>8

\* What a client has sent and main has not read yet.
LEMMA UnreadFacts ==
  ASSUME Typed, NEW c \in Clients
  PROVE  /\ Unread(c) \in Seq(Bytes)
         /\ Len(Unread(c)) = sent[c] - got[c]
<1>1. /\ Stream[c] \in Seq(Bytes) /\ sent[c] \in Nat /\ got[c] \in Nat
      /\ got[c] <= sent[c] /\ sent[c] <= Len(Stream[c])
  BY EventLoopAssumption DEF Typed, TypeOK
<1>2. got[c] + 1 \in 1 .. Len(Stream[c]) + 1
      /\ sent[c] \in (got[c] + 1) - 1 .. Len(Stream[c])
  BY <1>1
<1> QED
  BY <1>1, <1>2, SubSeqProperties DEF Unread

\* The first LF is a place in the buffer.
LEMMA PosFacts ==
  ASSUME clientBuffers[Fd] \in Seq(Bytes), HasLine
  PROVE  Pos \in 1 .. Len(clientBuffers[Fd])
<1> DEFINE buffer == clientBuffers[Fd]
           I == {i \in 1 .. Len(buffer) : buffer[i] = LF}
<1>1. I \in SUBSET Nat /\ I # {}
  BY DEF HasLine, Contains
<1>2. Pos = Min(I)
  BY <1>1 DEF Pos, SelectInSeq
<1> HIDE DEF I
<1>3. Pos \in I
  BY <1>1, <1>2, MinOf
<1> QED
  BY <1>3 DEF I

\* A line without its CR is a line.
LEMMA TrimmedFacts ==
  ASSUME NEW s \in Seq(Bytes), NEW n \in 1 .. Len(s)
  PROVE  Trimmed(SubSeq(s, 1, n - 1)) \in Seq(Bytes)
<1> DEFINE ln == SubSeq(s, 1, n - 1)
<1>1. ln \in Seq(Bytes)
  BY SubSeqProperties
<1> HIDE DEF ln
<1>2. ln # <<>> => Front(ln) \in Seq(Bytes)
  BY <1>1, SubSeqProperties DEF Front
<1> QED
  BY <1>1, <1>2 DEF Trimmed, ln

-----------------------------------------------------------------------------
(* Every step keeps the invariant. *)

\* A connection comes: it is in the backlog, and the listener has an edge.
LEMMA ConnectStep ==
  ASSUME IInv, NEW c \in Clients, Connect(c)
  PROVE  IInv'
<1> USE EventLoopAssumption
    DEF IInv, kernel, peers, batch, bytes, reader,
        Connect, Edge
<1>a. c \notin Range(backlog) /\ c \notin Range(fds)
  BY DEF ConnectedOnce
<1>b. backlog' \in Seq(Clients) /\ Range(backlog') = Range(backlog) \cup {c}
      /\ IsInjective(backlog')
  BY <1>a, AppendFacts DEF Typed, TypeOK
<1>1. Typed'
  BY <1>b DEF Typed, TypeOK
<1>2. OpenByPhase'
  BY DEF OpenByPhase, Range
<1>3. ConnectedOnce'
  <2>1. Range(fds') = Range(fds) /\ c \notin Range(fds')
    BY <1>a DEF Range
  <2>2. \A x \in Clients : link'[x] = IF x = c THEN "open" ELSE link[x]
    BY DEF Typed, TypeOK
  <2> HIDE DEF Connect
  <2> QED
    BY <1>b, <2>1, <2>2 DEF ConnectedOnce
<1>4. FdsAgree'
  BY DEF FdsAgree, FdsOf, Looping
<1>5. BatchIsOpen'
  BY DEF BatchIsOpen, EventsAreCurrent
<1>6. Reported'
  <2>1. ASSUME pc' \in Looping, NEW fd \in FdsOf(Clients)', HasInput(fds[fd])'
        PROVE  (fd \in ready \/ InBatch(fd))'
    <3>1. fd \in FdsOf(Clients) /\ fds[fd] # c
      BY <1>a, <2>1 DEF FdsOf, Range
    <3>2. HasInput(fds[fd])
      BY <2>1, <3>1, SameInput DEF FdsOf, Typed, TypeOK
    <3> QED
      BY <2>1, <3>1, <3>2 DEF Reported, InBatch
  <2>2. ASSUME pc' \in Looping, NEW fd \in FdsOf({Listener})'
        PROVE  fd \in ready'
    BY <2>2 DEF FdsAgree, FdsOf
  <2> QED
    BY <2>1, <2>2 DEF Reported
<1>7. Fresh'
  BY DEF Fresh, Contains
<1> QED
  BY <1>1, <1>2, <1>3, <1>4, <1>5, <1>6, <1>7

\* Bytes come: a watched descriptor of the client has an edge.
LEMMA SendStep ==
  ASSUME IInv, NEW c \in Clients, Send(c)
  PROVE  IInv'
<1> USE EventLoopAssumption
    DEF IInv, kernel, peers, batch, bytes, reader,
        Send, Edge
<1>1. Typed'
  BY SMTT(30) DEF Typed, TypeOK
<1>2. OpenByPhase'
  BY DEF OpenByPhase, Range
<1>3. ConnectedOnce'
  BY DEF ConnectedOnce, Range
<1>4. FdsAgree'
  BY DEF FdsAgree, FdsOf, Looping
<1>5. BatchIsOpen'
  BY DEF BatchIsOpen, EventsAreCurrent
<1>6. Reported'
  <2>1. ASSUME pc' \in Looping, NEW fd \in FdsOf(Clients)', HasInput(fds[fd])'
        PROVE  (fd \in ready \/ InBatch(fd))'
    <3>1. fd \in FdsOf(Clients)
      BY <2>1 DEF FdsOf
    <3>2. CASE fds[fd] = c
      BY <2>1, <3>1, <3>2 DEF FdsAgree, FdsOf
    <3>3. CASE fds[fd] # c
      <4>1. HasInput(fds[fd])
        BY <2>1, <3>1, <3>3, SameInput DEF FdsOf, Typed, TypeOK
      <4> QED
        BY <2>1, <3>1, <4>1 DEF Reported, InBatch
    <3> QED
      BY <3>2, <3>3
  <2>2. ASSUME pc' \in Looping, NEW fd \in FdsOf({Listener})', backlog' # <<>>
        PROVE  (fd \in ready \/ InBatch(fd) \/ acceptFailed)'
    BY <2>2 DEF Reported, InBatch, FdsOf
  <2> QED
    BY <2>1, <2>2 DEF Reported
<1>7. Fresh'
  BY DEF Fresh, Contains
<1> QED
  BY <1>1, <1>2, <1>3, <1>4, <1>5, <1>6, <1>7

\* A connection ends: a watched descriptor of the client has an edge.
LEMMA HangUpStep ==
  ASSUME IInv, NEW c \in Clients, NEW how \in {"fin", "rst"}, HangUp(c, how)
  PROVE  IInv'
<1> USE EventLoopAssumption
    DEF IInv, kernel, peers, batch, bytes, reader,
        HangUp, Edge
<1>1. Typed'
  BY DEF Typed, TypeOK
<1>2. OpenByPhase'
  BY DEF OpenByPhase, Range
<1>3. ConnectedOnce'
  <2>1. Range(fds') = Range(fds) /\ Range(backlog') = Range(backlog)
    BY DEF Range
  <2>2. \A x \in Clients : link'[x] = IF x = c THEN how ELSE link[x]
    BY DEF Typed, TypeOK
  <2> HIDE DEF HangUp
  <2> QED
    BY <2>1, <2>2 DEF ConnectedOnce
<1>4. FdsAgree'
  BY DEF FdsAgree, FdsOf, Looping
<1>5. BatchIsOpen'
  BY DEF BatchIsOpen, EventsAreCurrent
<1>6. Reported'
  <2>1. ASSUME pc' \in Looping, NEW fd \in FdsOf(Clients)', HasInput(fds[fd])'
        PROVE  (fd \in ready \/ InBatch(fd))'
    <3>1. fd \in FdsOf(Clients)
      BY <2>1 DEF FdsOf
    <3>2. CASE fds[fd] = c
      BY <2>1, <3>1, <3>2 DEF FdsAgree, FdsOf
    <3>3. CASE fds[fd] # c
      <4>1. HasInput(fds[fd])
        BY <2>1, <3>1, <3>3, SameInput DEF FdsOf, Typed, TypeOK
      <4> QED
        BY <2>1, <3>1, <4>1 DEF Reported, InBatch
    <3> QED
      BY <3>2, <3>3
  <2>2. ASSUME pc' \in Looping, NEW fd \in FdsOf({Listener})', backlog' # <<>>
        PROVE  (fd \in ready \/ InBatch(fd) \/ acceptFailed)'
    BY <2>2 DEF Reported, InBatch, FdsOf
  <2> QED
    BY <2>1, <2>2 DEF Reported
<1>7. Fresh'
  BY DEF Fresh, Contains
<1> QED
  BY <1>1, <1>2, <1>3, <1>4, <1>5, <1>6, <1>7

\* socket.
LEMMA OpensListenerStep ==
  ASSUME IInv, Opens(Listener, "socket", "configure")
  PROVE  IInv'
<1> USE EventLoopAssumption
    DEF IInv, kernel, peers, batch, bytes, reader,
        Opens
<1> DEFINE fd == Min(FreeFds)
<1>a. fd \in 1 .. MaxFd /\ fd \notin DOMAIN fds
  BY MinFree
<1>b. DOMAIN fds = {} /\ Range(fds) = {}
  BY DEF OpenByPhase, Bare, Range
<1>c. /\ DOMAIN fds' = DOMAIN fds \cup {fd} /\ fds'[fd] = Listener
      /\ Range(fds') = {Listener} /\ IsInjective(fds')
      /\ fds' \in [DOMAIN fds' -> Clients \cup {Listener, Epoll}]
  <2>1. Listener \notin Range(fds) /\ fds' = With(fds, fd, Listener)
    BY <1>b
  <2> QED
    BY <1>b, <2>1, Opened
<1> HIDE DEF fd
<1>1. Typed'
  BY <1>a, <1>b, <1>c DEF Typed, TypeOK
<1>2. OpenByPhase'
  BY <1>c DEF OpenByPhase, Bare
<1>3. ConnectedOnce'
  <2>1. \A x \in Clients : x \notin Range(fds')
    BY <1>c
  <2>2. UNCHANGED <<backlog, link>>
    OBVIOUS
  <2> HIDE DEF Opens
  <2> QED
    BY <2>1, <2>2 DEF ConnectedOnce
<1>4. FdsAgree'
  BY <1>b, <1>c DEF FdsAgree, FdsOf, Looping
<1>5. BatchIsOpen'
  BY DEF BatchIsOpen, EventsAreCurrent
<1>6. Reported'
  BY DEF Reported, InBatch, HasInput, Unread, FdsOf, Looping
<1>7. Fresh'
  BY DEF Fresh, Contains
<1> QED
  BY <1>1, <1>2, <1>3, <1>4, <1>5, <1>6, <1>7

\* setsockopt, bind and listen.
LEMMA ListensStep ==
  ASSUME IInv, Listens
  PROVE  IInv'
<1> USE EventLoopAssumption
    DEF IInv, kernel, peers, batch, bytes, reader,
        Listens, Goes
<1>1. Typed'
  BY DEF Typed, TypeOK
<1>2. OpenByPhase'
  BY DEF OpenByPhase, Bare
<1>3. ConnectedOnce'
  BY DEF ConnectedOnce, Range
<1>4. FdsAgree'
  BY DEF FdsAgree, FdsOf, Looping
<1>5. BatchIsOpen'
  BY DEF BatchIsOpen, EventsAreCurrent
<1>6. Reported'
  BY DEF Reported, InBatch, HasInput, Unread, FdsOf, Looping
<1>7. Fresh'
  BY DEF Fresh, Contains
<1> QED
  BY <1>1, <1>2, <1>3, <1>4, <1>5, <1>6, <1>7

\* epoll_create1.
LEMMA OpensEpollStep ==
  ASSUME IInv, Opens(Epoll, "epoll", "watch")
  PROVE  IInv'
<1> USE EventLoopAssumption
    DEF IInv, kernel, peers, batch, bytes, reader,
        Opens
<1> DEFINE fd == Min(FreeFds)
<1>a. fd \in 1 .. MaxFd /\ fd \notin DOMAIN fds
  BY MinFree
<1>b. Range(fds) = {Listener} /\ Epoll # Listener
  BY DEF OpenByPhase, Bare, Epoll, Listener
<1>c. /\ DOMAIN fds' = DOMAIN fds \cup {fd} /\ fds'[fd] = Epoll
      /\ \A x \in DOMAIN fds : fds'[x] = fds[x]
      /\ Range(fds') = {Listener, Epoll} /\ IsInjective(fds')
      /\ fds' \in [DOMAIN fds' -> Clients \cup {Listener, Epoll}]
  <2>1. Epoll \notin Range(fds) /\ fds' = With(fds, fd, Epoll)
    BY <1>b
  <2> QED
    BY <1>b, <2>1, Opened
<1> HIDE DEF fd
<1>1. Typed'
  BY <1>a, <1>b, <1>c DEF Typed, TypeOK
<1>2. OpenByPhase'
  BY <1>c DEF OpenByPhase, Bare
<1>3. ConnectedOnce'
  <2>1. Range(backlog') = Range(backlog)
    BY DEF Range
  <2> QED
    BY <1>b, <1>c, <2>1 DEF ConnectedOnce
<1>4. FdsAgree'
  BY <1>b, <1>c DEF FdsAgree, FdsOf, Looping
<1>5. BatchIsOpen'
  BY DEF BatchIsOpen, EventsAreCurrent
<1>6. Reported'
  BY DEF Reported, InBatch, HasInput, Unread, FdsOf, Looping
<1>7. Fresh'
  BY DEF Fresh, Contains
<1> QED
  BY <1>1, <1>2, <1>3, <1>4, <1>5, <1>6, <1>7

\* epoll_ctl: connections that came before are reported now.
LEMMA WatchesListenerStep ==
  ASSUME IInv, WatchesListener
  PROVE  IInv'
<1> USE EventLoopAssumption
    DEF IInv, kernel, peers, batch, bytes, reader,
        WatchesListener
<1>1. Typed'
  BY DEF Typed, TypeOK, FdsOf
<1>2. OpenByPhase'
  BY DEF OpenByPhase, Bare
<1>3. ConnectedOnce'
  BY DEF ConnectedOnce, Range
<1>4. FdsAgree'
  <2>1. FdsOf(Clients) = {} /\ FdsOf(Clients)' = {}
    BY DEF OpenByPhase, Range, FdsOf
  <2>2. FdsOf(Clients \cup {Listener})' = FdsOf({Listener})
    BY <2>1 DEF FdsOf
  <2> QED
    BY <2>1, <2>2 DEF FdsAgree, Looping
<1>5. BatchIsOpen'
  BY DEF BatchIsOpen, EventsAreCurrent
<1>6. Reported'
  <2>1. FdsOf(Clients)' = {} /\ FdsOf({Listener})' = FdsOf({Listener})
    BY DEF OpenByPhase, Range, FdsOf
  <2> QED
    BY <2>1 DEF Reported
<1>7. Fresh'
  BY DEF Fresh, Contains
<1> QED
  BY <1>1, <1>2, <1>3, <1>4, <1>5, <1>6, <1>7

\* An error return of the set-up closes what is open at that point.
LEMMA SetUpFailsStep ==
  ASSUME IInv, SetUpFails
  PROVE  IInv'
<1> USE EventLoopAssumption
    DEF IInv, kernel, peers, batch, bytes, reader,
        SetUpFails
<1>a. /\ DOMAIN fds' = {}
      /\ IsInjective(fds') /\ Range(fds') = {}
      /\ fds' \in [DOMAIN fds' -> Clients \cup {Listener, Epoll}]
  <2> DEFINE S == FdsOf({Listener} \cup (IF pc = "watch" THEN {Epoll} ELSE {}))
  <2>1. DOMAIN fds \subseteq S
    BY DEF OpenByPhase, Bare, FdsOf, Range
  <2>2. fds' = Without(fds, S)
    OBVIOUS
  <2> HIDE DEF S, SetUpFails, IInv
  <2>3. fds' = [x \in {} |-> fds[x]]
    BY <2>1, <2>2 DEF Without, Restrict
  <2> QED
    BY <2>3 DEF Range, IsInjective
<1>b. watched = {} /\ clientBuffers' = clientBuffers
      /\ DOMAIN clientBuffers = {}
  <2>1. pc \in {"socket", "configure", "epoll", "watch"}
        /\ clientBuffers' = clientBuffers
    OBVIOUS
  <2>2. Range(fds) \cap Clients = {}
    BY <2>1 DEF OpenByPhase, Bare, Range
  <2>3. FdsOf(Clients) = {}
    BY <2>2 DEF FdsOf, Range
  <2> QED
    BY <2>1, <2>3 DEF FdsAgree, Looping
<1>1. Typed'
  BY <1>a, <1>b DEF Typed, TypeOK
<1>2. OpenByPhase'
  BY <1>a DEF OpenByPhase, Bare
<1>3. ConnectedOnce'
  BY <1>a DEF ConnectedOnce, Range
<1>4. FdsAgree'
  BY <1>a, <1>b DEF FdsAgree, FdsOf, Looping
<1>5. BatchIsOpen'
  BY DEF BatchIsOpen, EventsAreCurrent
<1>6. Reported'
  BY DEF Reported, InBatch, HasInput, Unread, FdsOf, Looping
<1>7. Fresh'
  BY DEF Fresh, Contains
<1> QED
  BY <1>1, <1>2, <1>3, <1>4, <1>5, <1>6, <1>7

\* running is still set.
LEMMA CheckStep ==
  ASSUME IInv, Check
  PROVE  IInv'
<1> USE EventLoopAssumption
    DEF IInv, kernel, peers, batch, bytes, reader,
        Check, Goes
<1>1. Typed'
  BY DEF Typed, TypeOK
<1>2. OpenByPhase'
  BY DEF OpenByPhase, Bare
<1>3. ConnectedOnce'
  BY DEF ConnectedOnce, Range
<1>4. FdsAgree'
  BY DEF FdsAgree, FdsOf, Looping
<1>5. BatchIsOpen'
  BY DEF BatchIsOpen, EventsAreCurrent
<1>6. Reported'
  BY DEF Reported, InBatch, HasInput, Unread, FdsOf, Looping
<1>7. Fresh'
  BY DEF Fresh, Contains
<1> QED
  BY <1>1, <1>2, <1>3, <1>4, <1>5, <1>6, <1>7

\* The batch takes over what it reports; the rest stays with the kernel.
LEMMA EpollWaitStep ==
  ASSUME IInv, EpollWait
  PROVE  IInv'
<1> USE EventLoopAssumption
    DEF IInv, kernel, peers, batch, bytes, reader,
        EpollWait
<1> DEFINE live == {fd \in ready : Readable(fd)}
<1>n. PICK n \in 1 .. MaxEvents : \E reported \in [1 .. n -> live] :
        /\ IsInjective(reported)
        /\ n = MaxEvents \/ Range(reported) = live
        /\ events' = [i \in 1 .. n |->
                        [fd |-> reported[i], who |-> fds[reported[i]]]]
        /\ ready' = live \ Range(reported)
  OBVIOUS
<1>a. PICK reported \in [1 .. n -> live] :
        /\ IsInjective(reported)
        /\ n = MaxEvents \/ Range(reported) = live
        /\ events' = [i \in 1 .. n |->
                        [fd |-> reported[i], who |-> fds[reported[i]]]]
        /\ ready' = live \ Range(reported)
  BY <1>n
<1>b. \A fd \in live : /\ fd \in ready /\ fd \in DOMAIN fds
                       /\ fd \in 1 .. MaxFd
                       /\ fds[fd] \in Clients \cup {Listener}
  BY DEF FdsAgree, FdsOf, Looping, Typed, TypeOK
<1>c. n \in Nat \ {0} /\ \A i \in 1 .. n : reported[i] \in live
  OBVIOUS
<1>d. /\ DOMAIN events' = 1 .. n
      /\ \A i \in 1 .. n : /\ events'[i].fd = reported[i]
                           /\ events'[i].who = fds[reported[i]]
      /\ events' \in Seq([fd : 1 .. MaxFd, who : Clients \cup {Listener}])
  BY <1>a, <1>b, <1>c
<1>e. /\ pc = "wait" /\ pc' = "events" /\ ready' \subseteq ready
      /\ UNCHANGED <<fds, watched, backlog, peers, reader, bytes, acceptFailed>>
  BY <1>a
<1> HIDE DEF EpollWait, live
<1>1. Typed'
  BY <1>d, <1>e DEF Typed, TypeOK
<1>2. OpenByPhase'
  BY <1>e DEF OpenByPhase, Bare, Range
<1>3. ConnectedOnce'
  BY <1>e DEF ConnectedOnce, Range
<1>4. FdsAgree'
  BY <1>e DEF FdsAgree, FdsOf, Looping
<1>5. BatchIsOpen'
  <2>1. \A i, j \in DOMAIN events' : events'[i].fd = events'[j].fd => i = j
    BY <1>a, <1>d DEF IsInjective
  <2>2. EventsAreCurrent'
    BY <1>b, <1>c, <1>d, <1>e DEF EventsAreCurrent
  <2> QED
    BY <2>1, <2>2, <1>e DEF BatchIsOpen
<1>6. Reported'
  <2>1. \A fd \in live : fd \in ready' \/ InBatch(fd)'
    BY <1>a, <1>c, <1>d, <1>e DEF InBatch, Range
  <2>2. \A fd : ~InBatch(fd)
    BY <1>e DEF InBatch, BatchIsOpen
  <2>3. ASSUME NEW fd \in FdsOf(Clients)', HasInput(fds[fd])'
        PROVE  fd \in live
    <3>1. fd \in FdsOf(Clients)
      BY <1>e, <2>3 DEF FdsOf
    <3>2. HasInput(fds[fd])
      BY <1>e, <2>3, SameInput
    <3> QED
      BY <1>e, <2>2, <3>1, <3>2 DEF Reported, Looping, live, Readable, FdsOf
  <2>4. ASSUME NEW fd \in FdsOf({Listener})', backlog' # <<>>
        PROVE  fd \in live \/ acceptFailed'
    BY <1>e, <2>2, <2>4 DEF Reported, Looping, live, Readable, FdsOf
  <2> QED
    BY <2>1, <2>3, <2>4 DEF Reported
<1>7. Fresh'
  BY <1>e DEF Fresh, BatchIsOpen
<1> QED
  BY <1>1, <1>2, <1>3, <1>4, <1>5, <1>6, <1>7

\* The batch is empty.
LEMMA EventsDoneStep ==
  ASSUME IInv, EventsDone
  PROVE  IInv'
<1> USE EventLoopAssumption
    DEF IInv, kernel, peers, batch, bytes, reader,
        EventsDone, Goes
<1>1. Typed'
  BY DEF Typed, TypeOK
<1>2. OpenByPhase'
  BY DEF OpenByPhase, Bare
<1>3. ConnectedOnce'
  BY DEF ConnectedOnce, Range
<1>4. FdsAgree'
  BY DEF FdsAgree, FdsOf, Looping
<1>5. BatchIsOpen'
  BY DEF BatchIsOpen, EventsAreCurrent
<1>6. Reported'
  BY DEF Reported, InBatch, HasInput, Unread, FdsOf, Looping
<1>7. Fresh'
  BY DEF Fresh, Contains
<1> QED
  BY <1>1, <1>2, <1>3, <1>4, <1>5, <1>6, <1>7

\* The loop is left between two batches only.
LEMMA LeaveLoopStep ==
  ASSUME IInv, LeaveLoop
  PROVE  IInv'
<1> USE EventLoopAssumption
    DEF IInv, kernel, peers, batch, bytes, reader,
        LeaveLoop, Goes
<1>1. Typed'
  BY DEF Typed, TypeOK
<1>2. OpenByPhase'
  BY DEF OpenByPhase, Bare
<1>3. ConnectedOnce'
  BY DEF ConnectedOnce, Range
<1>4. FdsAgree'
  BY DEF FdsAgree, FdsOf, Looping
<1>5. BatchIsOpen'
  BY DEF BatchIsOpen, EventsAreCurrent
<1>6. Reported'
  BY DEF Reported, InBatch, HasInput, Unread, FdsOf, Looping
<1>7. Fresh'
  BY DEF Fresh, Contains
<1> QED
  BY <1>1, <1>2, <1>3, <1>4, <1>5, <1>6, <1>7

\* The new descriptor is free, so it is not in the batch.
LEMMA AcceptStep ==
  ASSUME IInv, Accept
  PROVE  IInv'
<1> USE EventLoopAssumption
    DEF IInv, kernel, peers, batch, bytes, reader,
        Accept, Accepting
<1> DEFINE c == Head(backlog)
           fd == Min(FreeFds)
<1>a. fd \in 1 .. MaxFd /\ fd \notin DOMAIN fds
  BY MinFree
<1>b. /\ c \in Clients /\ c \in Range(backlog) /\ c \notin Range(backlog')
      /\ backlog' \in Seq(Clients) /\ IsInjective(backlog')
      /\ Range(backlog') \subseteq Range(backlog)
  <2>1. backlog \in Seq(Clients) /\ backlog # <<>> /\ IsInjective(backlog)
        /\ backlog' = Tail(backlog)
    BY DEF Typed, TypeOK
  <2>2. Range(backlog) \subseteq Clients
    BY <2>1 DEF Range
  <2> HIDE DEF IInv, Accept
  <2> QED
    BY <2>1, <2>2, TailFacts
<1>c. c \notin Range(fds) /\ link[c] # "away"
  BY <1>b DEF ConnectedOnce
<1>d. /\ fds' = With(fds, fd, c)
      /\ watched' = watched \cup {fd}
      /\ ready' = IF HasInput(c) THEN ready \cup {fd} ELSE ready
      /\ clientBuffers' = With(clientBuffers, fd, <<>>)
  OBVIOUS
<1>e. /\ pc = "events" /\ pc' = pc /\ UNCHANGED <<link, sent, events, closed>>
      /\ UNCHANGED <<recvTimestamp, got, handed, acceptFailed>>
      /\ events # <<>> /\ fds[events[1].fd] = Listener /\ backlog # <<>>
  BY SMTT(30) DEF Typed, TypeOK
<1> HIDE DEF Accept, c, fd
<1>f. /\ DOMAIN fds' = DOMAIN fds \cup {fd} /\ fds'[fd] = c
      /\ \A x \in DOMAIN fds : fds'[x] = fds[x]
      /\ Range(fds') = Range(fds) \cup {c} /\ IsInjective(fds')
      /\ fds' \in [DOMAIN fds' -> Clients \cup {Listener, Epoll}]
  BY <1>b, <1>c, <1>d, Opened DEF fd, Accept
<1>g. fd \notin DOMAIN clientBuffers
  BY <1>a DEF FdsAgree, FdsOf
<1>h. /\ DOMAIN clientBuffers' = DOMAIN clientBuffers \cup {fd}
      /\ clientBuffers'[fd] = <<>>
      /\ \A x \in DOMAIN clientBuffers : clientBuffers'[x] = clientBuffers[x]
      /\ clientBuffers' \in [DOMAIN clientBuffers' -> Seq(Bytes)]
  <2>1. clientBuffers \in [DOMAIN clientBuffers -> Seq(Bytes)]
        /\ <<>> \in Seq(Bytes)
    BY DEF Typed
  <2> HIDE DEF IInv
  <2> QED
    BY <1>g, <1>d, <2>1 DEF With
<1>1. Typed'
  <2>1. watched' \subseteq DOMAIN fds' /\ ready' \subseteq watched'
        /\ DOMAIN fds' \subseteq 1 .. MaxFd
        /\ Range(fds') \subseteq Clients \cup {Listener, Epoll}
    BY <1>a, <1>b, <1>d, <1>f DEF Typed, TypeOK
  <2> QED
    BY <1>b, <1>e, <1>f, <1>h, <2>1 DEF Typed, TypeOK
<1>2. OpenByPhase'
  BY <1>e, <1>f DEF OpenByPhase, Bare
<1>3. ConnectedOnce'
  BY <1>b, <1>c, <1>e, <1>f DEF ConnectedOnce
<1>4. FdsAgree'
  BY <1>a, <1>b, <1>d, <1>e, <1>f, <1>h DEF FdsAgree, FdsOf, Looping
<1>5. BatchIsOpen'
  BY <1>e, <1>f DEF BatchIsOpen, EventsAreCurrent
<1>6. Reported'
  <2>1. ASSUME NEW x \in FdsOf(Clients)', HasInput(fds[x])'
        PROVE  (x \in ready \/ InBatch(x))'
    <3>1. CASE x = fd
      <4>1. HasInput(c)
        BY <1>e, <1>f, <2>1, <3>1, SameInput
      <4> QED
        BY <1>d, <3>1, <4>1
    <3>2. CASE x # fd
      <4>1. x \in FdsOf(Clients) /\ fds'[x] = fds[x]
        BY <1>f, <2>1, <3>2 DEF FdsOf
      <4>2. HasInput(fds[x])
        BY <1>e, <2>1, <4>1, SameInput
      <4> QED
        BY <1>d, <1>e, <4>1, <4>2 DEF Reported, InBatch, Looping
    <3> QED
      BY <3>1, <3>2
  <2>2. ASSUME NEW x \in FdsOf({Listener})'
        PROVE  InBatch(x)'
    <3>1. x \in DOMAIN fds' /\ fds'[x] = Listener
      BY <2>2 DEF FdsOf
    <3>2. events[1].fd \in DOMAIN fds /\ 1 \in DOMAIN events
      BY SMTT(30), <1>e DEF BatchIsOpen, EventsAreCurrent, Typed, TypeOK
    <3>3. x = events[1].fd
      BY <1>e, <1>f, <3>1, <3>2 DEF IsInjective
    <3> QED
      BY <1>e, <3>2, <3>3 DEF InBatch
  <2> QED
    BY <2>1, <2>2 DEF Reported
<1>7. Fresh'
  BY <1>e, <1>h DEF Fresh, Contains
<1> QED
  BY <1>1, <1>2, <1>3, <1>4, <1>5, <1>6, <1>7

\* The connection given up never had a descriptor in fds.
LEMMA AcceptDropsStep ==
  ASSUME IInv, AcceptDrops
  PROVE  IInv'
<1> USE EventLoopAssumption
    DEF IInv, kernel, peers, batch, bytes, reader,
        AcceptDrops, Accepting
<1> DEFINE c == Head(backlog)
<1>b. /\ c \in Clients /\ c \in Range(backlog) /\ c \notin Range(backlog')
      /\ backlog' \in Seq(Clients) /\ IsInjective(backlog')
      /\ Range(backlog') \subseteq Range(backlog)
  <2>1. backlog \in Seq(Clients) /\ backlog # <<>> /\ IsInjective(backlog)
        /\ backlog' = Tail(backlog)
    BY DEF Typed, TypeOK
  <2>2. Range(backlog) \subseteq Clients
    BY <2>1 DEF Range
  <2> HIDE DEF IInv, AcceptDrops
  <2> QED
    BY <2>1, <2>2, TailFacts
<1>c. c \notin Range(fds)
  BY <1>b DEF ConnectedOnce
<1>d. /\ link' \in [Clients -> {"away", "open", "fin", "rst", "closed"}]
      /\ \A x \in Clients : link'[x] = IF x = c THEN "closed" ELSE link[x]
  BY DEF Typed, TypeOK
<1>e. /\ UNCHANGED <<pc, fds, watched, ready, sent, events, closed>>
      /\ UNCHANGED <<recvTimestamp, got, clientBuffers, handed, acceptFailed>>
      /\ backlog # <<>>
  OBVIOUS
<1> HIDE DEF AcceptDrops, c
<1>1. Typed'
  BY <1>b, <1>d, <1>e DEF Typed, TypeOK
<1>2. OpenByPhase'
  BY <1>e DEF OpenByPhase, Range
<1>3. ConnectedOnce'
  <2>1. Range(fds') = Range(fds)
    BY <1>e
  <2> QED
    BY <1>b, <1>d, <2>1 DEF ConnectedOnce
<1>4. FdsAgree'
  BY <1>e DEF FdsAgree, FdsOf
<1>5. BatchIsOpen'
  BY <1>e DEF BatchIsOpen, EventsAreCurrent
<1>6. Reported'
  <2>1. ASSUME pc' \in Looping, NEW x \in FdsOf(Clients)', HasInput(fds[x])'
        PROVE  (x \in ready \/ InBatch(x))'
    <3>1. x \in FdsOf(Clients) /\ fds[x] # c /\ fds[x] \in Clients
      BY <1>c, <1>e, <2>1 DEF FdsOf, Range
    <3>2. HasInput(fds[x])
      BY <1>d, <1>e, <2>1, <3>1, SameInput
    <3> QED
      BY <1>e, <2>1, <3>1, <3>2 DEF Reported, InBatch
  <2>2. ASSUME pc' \in Looping, NEW x \in FdsOf({Listener})'
        PROVE  (x \in ready \/ InBatch(x) \/ acceptFailed)'
    BY <1>e, <2>2 DEF Reported, InBatch, FdsOf
  <2> QED
    BY <2>1, <2>2 DEF Reported
<1>7. Fresh'
  BY <1>e DEF Fresh, Contains
<1> QED
  BY <1>1, <1>2, <1>3, <1>4, <1>5, <1>6, <1>7

\* The listener's event is done when no connection is left.
LEMMA AcceptDoneStep ==
  ASSUME IInv, AcceptDone
  PROVE  IInv'
<1> USE EventLoopAssumption
    DEF IInv, kernel, peers, batch, bytes, reader,
        AcceptDone, Accepting
<1>a. /\ UNCHANGED <<pc, fds, watched, ready, backlog, link, sent, closed>>
      /\ UNCHANGED <<recvTimestamp, got, clientBuffers, handed, acceptFailed>>
      /\ events # <<>> /\ pc = "events" /\ events' = Tail(events)
      /\ events \in Seq([fd : 1 .. MaxFd, who : Clients \cup {Listener}])
      /\ backlog = <<>>
  BY DEF Typed, TypeOK
<1>b. /\ fds[events[1].fd] = Listener /\ events[1].fd \in DOMAIN fds
      /\ Fd = events[1].fd
  BY <1>a, HeadFacts DEF Fd
<1> HIDE DEF AcceptDone
<1>1. Typed'
  BY <1>a DEF Typed, TypeOK
<1>2. OpenByPhase'
  BY <1>a DEF OpenByPhase
<1>3. ConnectedOnce'
  BY <1>a DEF ConnectedOnce
<1>4. FdsAgree'
  BY <1>a DEF FdsAgree, FdsOf
<1>5. BatchIsOpen'
  BY <1>a, TailFactsOfBatch DEF BatchIsOpen, EventsAreCurrent
<1>6. Reported'
  <2>1. ASSUME NEW x \in FdsOf(Clients)', HasInput(fds[x])'
        PROVE  (x \in ready \/ InBatch(x))'
    <3>1. x \in FdsOf(Clients) /\ HasInput(fds[x])
      BY <1>a, <2>1, SameInput DEF FdsOf
    <3>2. x # events[1].fd
      BY <1>b, <3>1, EventLoopAssumption DEF FdsOf
    <3>3. x \in ready \/ InBatch(x)
      BY <1>a, <3>1 DEF Reported, Looping
    <3>4. x \in ready \/ \E i \in DOMAIN events' : events'[i].fd = x
      BY <1>a, <1>b, <3>2, <3>3, TailFactsOfBatch
    <3> QED
      BY <1>a, <3>4 DEF InBatch
  <2> QED
    BY <1>a, <2>1 DEF Reported
<1>7. Fresh'
  <2>1. events[1].fd \notin DOMAIN clientBuffers
    BY <1>b, EventLoopAssumption DEF FdsAgree, FdsOf
  <2> QED
    BY <1>a, <2>1 DEF Fresh, Contains
<1> QED
  BY <1>1, <1>2, <1>3, <1>4, <1>5, <1>6, <1>7

\* The listener's event is done, and acceptFailed says why.
LEMMA AcceptFailsStep ==
  ASSUME IInv, AcceptFails
  PROVE  IInv'
<1> USE EventLoopAssumption
    DEF IInv, kernel, peers, batch, bytes, reader,
        AcceptFails, Accepting
<1>a. /\ UNCHANGED <<pc, fds, watched, ready, backlog, link, sent, closed>>
      /\ UNCHANGED <<recvTimestamp, got, clientBuffers, handed>>
      /\ events # <<>> /\ pc = "events" /\ events' = Tail(events)
      /\ events \in Seq([fd : 1 .. MaxFd, who : Clients \cup {Listener}])
      /\ acceptFailed' = TRUE
  BY DEF Typed, TypeOK
<1>b. /\ fds[events[1].fd] = Listener /\ events[1].fd \in DOMAIN fds
      /\ Fd = events[1].fd
  BY <1>a, HeadFacts DEF Fd
<1> HIDE DEF AcceptFails
<1>1. Typed'
  BY <1>a DEF Typed, TypeOK
<1>2. OpenByPhase'
  BY <1>a DEF OpenByPhase
<1>3. ConnectedOnce'
  BY <1>a DEF ConnectedOnce
<1>4. FdsAgree'
  BY <1>a DEF FdsAgree, FdsOf
<1>5. BatchIsOpen'
  BY <1>a, TailFactsOfBatch DEF BatchIsOpen, EventsAreCurrent
<1>6. Reported'
  <2>1. ASSUME NEW x \in FdsOf(Clients)', HasInput(fds[x])'
        PROVE  (x \in ready \/ InBatch(x))'
    <3>1. x \in FdsOf(Clients) /\ HasInput(fds[x])
      BY <1>a, <2>1, SameInput DEF FdsOf
    <3>2. x # events[1].fd
      BY <1>b, <3>1, EventLoopAssumption DEF FdsOf
    <3>3. x \in ready \/ InBatch(x)
      BY <1>a, <3>1 DEF Reported, Looping
    <3>4. x \in ready \/ \E i \in DOMAIN events' : events'[i].fd = x
      BY <1>a, <1>b, <3>2, <3>3, TailFactsOfBatch
    <3> QED
      BY <1>a, <3>4 DEF InBatch
  <2> QED
    BY <1>a, <2>1 DEF Reported
<1>7. Fresh'
  <2>1. events[1].fd \notin DOMAIN clientBuffers
    BY <1>b, EventLoopAssumption DEF FdsAgree, FdsOf
  <2> QED
    BY <1>a, <2>1 DEF Fresh, Contains
<1> QED
  BY <1>1, <1>2, <1>3, <1>4, <1>5, <1>6, <1>7

\* The event of the descriptor that is read stays in the batch.
LEMMA ReadStep ==
  ASSUME IInv, Read
  PROVE  IInv'
<1> USE EventLoopAssumption
    DEF IInv, kernel, peers, batch, bytes, reader,
        Read, Reading, Accepting, Fd, Client
<1>a. /\ UNCHANGED <<pc, fds, watched, ready, backlog, link, sent, closed>>
      /\ UNCHANGED <<events, handed, acceptFailed>>
      /\ events # <<>> /\ pc = "events" /\ recvTimestamp' = ReadTime
  OBVIOUS
<1>b. /\ 1 \in DOMAIN events /\ Fd = events[1].fd
      /\ Fd \in DOMAIN fds /\ Fd \in DOMAIN clientBuffers /\ Client \in Clients
  BY <1>a, HeadFacts DEF FdsAgree, FdsOf
<1>c. PICK n \in Nat :
        /\ n <= Len(Unread(Client))
        /\ clientBuffers' = [clientBuffers EXCEPT
                               ![Fd] = @ \o SubSeq(Unread(Client), 1, n)]
        /\ got' = [got EXCEPT ![Client] = @ + n]
  <2> DEFINE n == Min({ReadSize, Len(Unread(Client))})
  <2>1. Unread(Client) \in Seq(Bytes)
    BY <1>b, UnreadFacts
  <2>2. {ReadSize, Len(Unread(Client))} \in SUBSET Nat
    BY <2>1
  <2>3. n \in Nat /\ n <= Len(Unread(Client))
    BY <2>2, MinOf
  <2> QED
    BY <2>3
<1>d. /\ Unread(Client) \in Seq(Bytes)
      /\ Len(Unread(Client)) = sent[Client] - got[Client]
  BY <1>b, UnreadFacts
<1>e. recvTimestamp' \in Nat \ {0}
  <2>1. recvTimestamp \in Nat /\ got[Client] \in Nat
    BY <1>b DEF Typed, TypeOK
  <2> QED
    BY <1>a, <2>1 DEF ReadTime
<1> HIDE DEF Read, Fd, Client
<1>1. Typed'
  <2>1. \A c \in Clients : got'[c] = IF c = Client THEN got[c] + n ELSE got[c]
    BY <1>b, <1>c DEF Typed
  <2>2. got' \in [Clients -> Nat]
    BY <1>b, <1>c DEF Typed
  <2>3. \A c \in Clients : got'[c] <= sent[c]
    BY <1>b, <1>c, <1>d, <2>1 DEF Typed, TypeOK
  <2>4. SubSeq(Unread(Client), 1, n) \in Seq(Bytes)
    BY <1>c, <1>d
  <2>5. /\ clientBuffers' \in [DOMAIN clientBuffers -> Seq(Bytes)]
        /\ DOMAIN clientBuffers' = DOMAIN clientBuffers
    BY <1>b, <1>c, <2>4 DEF Typed
  <2> QED
    BY <1>a, <1>e, <2>2, <2>3, <2>5 DEF Typed, TypeOK
<1>2. OpenByPhase'
  BY <1>a DEF OpenByPhase
<1>3. ConnectedOnce'
  BY <1>a DEF ConnectedOnce
<1>4. FdsAgree'
  BY <1>a, <1>c DEF FdsAgree, FdsOf
<1>5. BatchIsOpen'
  BY <1>a DEF BatchIsOpen, EventsAreCurrent
<1>6. Reported'
  <2>1. ASSUME NEW x \in FdsOf(Clients)', HasInput(fds[x])'
        PROVE  (x \in ready \/ InBatch(x))'
    <3>1. x \in FdsOf(Clients)
      BY <1>a, <2>1 DEF FdsOf
    <3>2. CASE x = Fd
      BY <1>a, <1>b, <3>2 DEF InBatch
    <3>3. CASE x # Fd
      <4>1. fds[x] # Client /\ fds[x] \in Clients
        BY <1>b, <3>1, <3>3 DEF Client, FdsOf, IsInjective, Typed, TypeOK
      <4>2. got'[fds[x]] = got[fds[x]]
        BY <1>c, <4>1 DEF Typed
      <4>3. HasInput(fds[x])
        BY <1>a, <2>1, <4>2, SameInput
      <4> QED
        BY <1>a, <3>1, <4>3 DEF Reported, InBatch, Looping
    <3> QED
      BY <3>2, <3>3
  <2>2. ASSUME NEW x \in FdsOf({Listener})', backlog' # <<>>
        PROVE  (x \in ready \/ InBatch(x) \/ acceptFailed)'
    BY <1>a, <2>2 DEF Reported, InBatch, FdsOf, Looping
  <2> QED
    BY <2>1, <2>2 DEF Reported
<1>7. Fresh'
  <2>1. \A x \in DOMAIN clientBuffers' :
          /\ x \in DOMAIN clientBuffers
          /\ x # Fd => clientBuffers'[x] = clientBuffers[x]
    BY <1>c DEF Typed
  <2> QED
    BY <1>a, <1>b, <1>e, <2>1 DEF Fresh, Contains
<1> QED
  BY <1>1, <1>2, <1>3, <1>4, <1>5, <1>6, <1>7

\* EAGAIN says there is nothing to read; otherwise the connection ends.
LEMMA ReadDoneStep ==
  ASSUME IInv, ReadDone
  PROVE  IInv'
<1> USE EventLoopAssumption
    DEF IInv, kernel, peers, batch, bytes, reader,
        ReadDone, Reading, Accepting, Fd, Client
<1>a. /\ UNCHANGED <<fds, watched, ready, backlog, link, sent, events>>
      /\ UNCHANGED <<recvTimestamp, got, clientBuffers, handed, acceptFailed>>
      /\ events # <<>> /\ pc = "events" /\ pc' = "lines"
  OBVIOUS
<1>b. /\ 1 \in DOMAIN events /\ Fd = events[1].fd
      /\ Fd \in DOMAIN fds /\ Client \in Clients
  BY <1>a, HeadFacts
<1>c. (closed' = TRUE) \/ (closed' = FALSE /\ ~HasInput(Client))
  BY DEF WouldBlock, HasInput
<1> HIDE DEF ReadDone, Fd, Client
<1>1. Typed'
  BY <1>a, <1>c DEF Typed, TypeOK
<1>2. OpenByPhase'
  BY <1>a DEF OpenByPhase, Bare
<1>3. ConnectedOnce'
  BY <1>a DEF ConnectedOnce
<1>4. FdsAgree'
  BY <1>a DEF FdsAgree, FdsOf, Looping
<1>5. BatchIsOpen'
  BY <1>a, <1>b DEF BatchIsOpen, EventsAreCurrent, Client
<1>6. Reported'
  <2>1. ASSUME NEW x \in FdsOf(Clients)', HasInput(fds[x])'
        PROVE  (x \in ready \/ InBatch(x))'
    <3>1. x \in FdsOf(Clients) /\ HasInput(fds[x])
      BY <1>a, <2>1, SameInput DEF FdsOf
    <3>2. x \in ready \/ InBatch(x)
      BY <1>a, <3>1 DEF Reported, Looping
    <3>3. x = Fd => closed'
      BY <1>c, <3>1 DEF Client
    <3> QED
      BY <1>a, <1>b, <3>2, <3>3 DEF InBatch
  <2>2. ASSUME NEW x \in FdsOf({Listener})', backlog' # <<>>
        PROVE  (x \in ready \/ InBatch(x) \/ acceptFailed)'
    <3>1. x # Fd
      BY <1>a, <1>b, <2>2, EventLoopAssumption DEF Client, FdsOf
    <3>2. x \in ready \/ InBatch(x) \/ acceptFailed
      BY <1>a, <2>2 DEF Reported, FdsOf, Looping
    <3> QED
      BY <1>a, <1>b, <3>1, <3>2 DEF InBatch
  <2> QED
    BY <2>1, <2>2 DEF Reported
<1>7. Fresh'
  BY <1>a DEF Fresh
<1> QED
  BY <1>1, <1>2, <1>3, <1>4, <1>5, <1>6, <1>7

\* The buffer of the event at hand had a line, so it was just read.
LEMMA HandLineStep ==
  ASSUME IInv, HandLine
  PROVE  IInv'
<1> USE EventLoopAssumption
    DEF IInv, kernel, peers, batch, bytes, reader,
        HandLine, Fd, Client
<1> DEFINE buffer == clientBuffers[Fd]
           ln == Trimmed(SubSeq(buffer, 1, Pos - 1))
<1>a. /\ UNCHANGED <<pc, fds, watched, ready, backlog, link, sent, closed>>
      /\ UNCHANGED <<events, recvTimestamp, got, acceptFailed>>
      /\ pc = "lines" /\ HasLine
      /\ clientBuffers' = [clientBuffers EXCEPT ![Fd] = Rest]
      /\ handed' = IF ln = <<>> THEN handed
                   ELSE [handed EXCEPT ![Client] = Append(@, ln)]
  OBVIOUS
<1>b. /\ events # <<>> /\ Fd = events[1].fd
      /\ Fd \in DOMAIN fds /\ Client \in Clients
  BY <1>a, HeadFacts DEF BatchIsOpen, Client
<1>c. Fd \in DOMAIN clientBuffers
  BY <1>b DEF FdsAgree, FdsOf, Client
<1>d. buffer \in Seq(Bytes)
  BY <1>c DEF Typed
<1>e. Pos \in 1 .. Len(buffer)
  BY <1>a, <1>d, PosFacts
<1> HIDE DEF HandLine, Fd, Client, buffer, ln
<1>1. Typed'
  <2>1. Rest \in Seq(Bytes)
    BY <1>d, <1>e, SubSeqProperties DEF Rest, buffer
  <2>2. /\ clientBuffers' \in [DOMAIN clientBuffers -> Seq(Bytes)]
        /\ DOMAIN clientBuffers' = DOMAIN clientBuffers
    BY <1>a, <1>c, <2>1 DEF Typed
  <2>3. ln \in Seq(Bytes)
    BY <1>d, <1>e, TrimmedFacts DEF ln
  <2>4. handed' \in [Clients -> Seq(Seq(Bytes))]
    BY <1>a, <1>b, <2>3 DEF Typed
  <2> QED
    BY <1>a, <2>2, <2>4 DEF Typed, TypeOK
<1>2. OpenByPhase'
  BY <1>a DEF OpenByPhase
<1>3. ConnectedOnce'
  BY <1>a DEF ConnectedOnce
<1>4. FdsAgree'
  BY <1>a DEF FdsAgree, FdsOf
<1>5. BatchIsOpen'
  BY <1>a DEF BatchIsOpen, EventsAreCurrent
<1>6. Reported'
  <2>1. ASSUME NEW x \in FdsOf(Clients)', HasInput(fds[x])'
        PROVE  (x \in ready \/ InBatch(x))'
    <3>1. x \in FdsOf(Clients) /\ HasInput(fds[x])
      BY <1>a, <2>1, SameInput DEF FdsOf
    <3> QED
      BY <1>a, <3>1 DEF Reported, InBatch, Looping
  <2>2. ASSUME NEW x \in FdsOf({Listener})', backlog' # <<>>
        PROVE  (x \in ready \/ InBatch(x) \/ acceptFailed)'
    BY <1>a, <2>2 DEF Reported, InBatch, FdsOf, Looping
  <2> QED
    BY <2>1, <2>2 DEF Reported
<1>7. Fresh'
  <2>1. recvTimestamp # 0
    BY <1>a, <1>c DEF Fresh, HasLine
  <2>2. \A x \in DOMAIN clientBuffers' :
          /\ x \in DOMAIN clientBuffers
          /\ x # Fd => clientBuffers'[x] = clientBuffers[x]
    BY <1>a DEF Typed
  <2> QED
    BY <1>a, <1>b, <2>1, <2>2 DEF Fresh, Contains
<1> QED
  BY <1>1, <1>2, <1>3, <1>4, <1>5, <1>6, <1>7

\* The descriptor that is closed has no other event in the batch.
LEMMA LinesDoneStep ==
  ASSUME IInv, LinesDone
  PROVE  IInv'
<1> USE EventLoopAssumption
    DEF IInv, kernel, peers, batch, bytes, reader,
        LinesDone, Fd, Client
<1> DEFINE gone == IF closed THEN {Fd} ELSE {}
<1>a. /\ UNCHANGED <<backlog, sent, got, handed, acceptFailed>>
      /\ pc = "lines" /\ pc' = "events" /\ ~HasLine
      /\ fds' = Without(fds, gone) /\ watched' = watched \ gone
      /\ ready' = ready \ gone
      /\ clientBuffers' = Without(clientBuffers, gone)
      /\ link' = IF closed THEN [link EXCEPT ![Client] = "closed"] ELSE link
      /\ closed' = FALSE /\ recvTimestamp' = 0 /\ events' = Tail(events)
  BY DEF NoMoreLines
<1>b. /\ events # <<>> /\ Fd = events[1].fd
      /\ Fd \in DOMAIN fds /\ Client \in Clients /\ 1 \in DOMAIN events
  BY <1>a, HeadFacts DEF BatchIsOpen, Client
<1>c. gone = {} \/ gone = {Fd}
  OBVIOUS
<1> HIDE DEF LinesDone, gone
<1>d. /\ DOMAIN fds' = DOMAIN fds \ gone
      /\ \A x \in DOMAIN fds' : fds'[x] = fds[x]
      /\ fds' \in [DOMAIN fds' -> Clients \cup {Listener, Epoll}]
      /\ Range(fds') \subseteq Range(fds) /\ IsInjective(fds')
  <2>1. IsInjective(fds) /\ fds \in [DOMAIN fds -> Clients \cup {Listener, Epoll}]
    BY DEF Typed, TypeOK
  <2> HIDE DEF IInv
  <2>2. /\ DOMAIN fds' = DOMAIN fds \ gone
        /\ \A x \in DOMAIN fds' : fds'[x] = fds[x]
        /\ fds' \in [DOMAIN fds' -> Clients \cup {Listener, Epoll}]
    BY <1>a, <2>1 DEF Without, Restrict
  <2> QED
    BY <2>1, <2>2 DEF Range, IsInjective
<1>e. /\ DOMAIN clientBuffers' = DOMAIN clientBuffers \ gone
      /\ \A x \in DOMAIN clientBuffers' : clientBuffers'[x] = clientBuffers[x]
      /\ clientBuffers' \in [DOMAIN clientBuffers' -> Seq(Bytes)]
  <2>1. clientBuffers \in [DOMAIN clientBuffers -> Seq(Bytes)]
    BY DEF Typed
  <2> HIDE DEF IInv
  <2> QED
    BY <1>a, <2>1 DEF Without, Restrict
<1>f. \A x \in DOMAIN events' : events'[x].fd # Fd
  BY <1>a, <1>b, TailFactsOfBatch
<1>g. /\ link' \in [Clients -> {"away", "open", "fin", "rst", "closed"}]
      /\ \A x \in Clients :
           link'[x] = link[x] \/ (x = Client /\ link'[x] = "closed")
  BY <1>a, <1>b DEF Typed, TypeOK
<1>1. Typed'
  <2>1. events' \in Seq([fd : 1 .. MaxFd, who : Clients \cup {Listener}])
    BY <1>a, <1>b, TailFactsOfBatch
  <2> QED
    BY <1>a, <1>d, <1>e, <1>g, <2>1 DEF Typed, TypeOK
<1>2. OpenByPhase'
  <2>1. ASSUME NEW w \in {Listener, Epoll}, w \in Range(fds)
        PROVE  w \in Range(fds')
    <3>1. PICK x \in DOMAIN fds : fds[x] = w
      BY <2>1 DEF Range
    <3>2. x # Fd
      BY <1>b, <3>1, EventLoopAssumption DEF Client
    <3> QED
      BY <1>c, <1>d, <3>1, <3>2 DEF Range
  <2> QED
    BY <1>a, <2>1 DEF OpenByPhase, Bare
<1>3. ConnectedOnce'
  BY <1>a, <1>d, <1>g DEF ConnectedOnce
<1>4. FdsAgree'
  BY <1>a, <1>d, <1>e DEF FdsAgree, FdsOf, Looping
<1>5. BatchIsOpen'
  <2>1. \A i \in DOMAIN events' : \E j \in DOMAIN events : events'[i] = events[j]
    BY <1>a, <1>b, TailFactsOfBatch
  <2>2. EventsAreCurrent'
    BY <1>c, <1>d, <1>f, <2>1 DEF BatchIsOpen, EventsAreCurrent
  <2>3. \A i, j \in DOMAIN events' : events'[i].fd = events'[j].fd => i = j
    BY <1>a, <1>b, TailFactsOfBatch
  <2> QED
    BY <1>a, <2>2, <2>3 DEF BatchIsOpen
<1>6. Reported'
  <2>1. ASSUME NEW x, x # Fd, InBatch(x)
        PROVE  InBatch(x)'
    <3>1. \E i \in DOMAIN events' : events'[i].fd = x
      BY <1>a, <1>b, <2>1, TailFactsOfBatch
    <3> QED
      BY <1>a, <3>1 DEF InBatch
  <2>2. ASSUME NEW x \in FdsOf(Clients)', HasInput(fds[x])'
        PROVE  (x \in ready \/ InBatch(x))'
    <3>1. x \in FdsOf(Clients) /\ x \notin gone /\ fds'[x] = fds[x]
      BY <1>d, <2>2 DEF FdsOf
    <3>2. CASE x = Fd
      <4>1. closed = FALSE
        BY <3>1, <3>2 DEF gone, Typed, TypeOK
      <4>2. HasInput(fds[x])
        BY <1>a, <2>2, <3>1, <4>1, SameInput
      <4>3. ~InBatch(x)
        BY <1>a, <1>b, <3>2, <4>1 DEF InBatch, BatchIsOpen
      <4> QED
        BY <1>a, <3>1, <4>2, <4>3 DEF Reported, Looping
    <3>3. CASE x # Fd
      <4>1. fds[x] \in Clients /\ fds[x] # Client
        BY <1>b, <3>1, <3>3 DEF Client, FdsOf, IsInjective, Typed, TypeOK
      <4>2. HasInput(fds[x])
        BY <1>a, <2>2, <3>1, <4>1, SameInput DEF Typed, TypeOK
      <4>3. x \in ready \/ InBatch(x)
        BY <1>a, <3>1, <4>2 DEF Reported, Looping
      <4> QED
        BY <1>a, <2>1, <3>1, <3>3, <4>3
    <3> QED
      BY <3>2, <3>3
  <2>3. ASSUME NEW x \in FdsOf({Listener})', backlog' # <<>>
        PROVE  (x \in ready \/ InBatch(x) \/ acceptFailed)'
    <3>1. x \in FdsOf({Listener}) /\ x \notin gone
      BY <1>d, <2>3 DEF FdsOf
    <3>2. x # Fd
      BY <1>b, <3>1, EventLoopAssumption DEF Client, FdsOf
    <3>3. x \in ready \/ InBatch(x) \/ acceptFailed
      BY <1>a, <2>3, <3>1 DEF Reported, Looping
    <3> QED
      BY <1>a, <2>1, <3>1, <3>2, <3>3
  <2> QED
    BY <2>2, <2>3 DEF Reported
<1>7. Fresh'
  <2>1. ASSUME NEW x \in DOMAIN clientBuffers'
        PROVE  ~Contains(clientBuffers'[x], LF)
    <3>1. x \in DOMAIN clientBuffers /\ clientBuffers'[x] = clientBuffers[x]
      BY <1>e
    <3>2. CASE x = Fd
      BY <1>a, <3>1, <3>2 DEF HasLine
    <3>3. CASE x # Fd
      BY <1>b, <3>1, <3>3 DEF Fresh
    <3> QED
      BY <3>2, <3>3
  <2> QED
    BY <2>1 DEF Fresh
<1> QED
  BY <1>1, <1>2, <1>3, <1>4, <1>5, <1>6, <1>7

\* Every descriptor is a client's, the listener or epoll_fd.
LEMMA ShutdownStep ==
  ASSUME IInv, Shutdown
  PROVE  IInv'
<1> USE EventLoopAssumption
    DEF IInv, kernel, peers, batch, bytes, reader,
        Shutdown
<1>a. /\ UNCHANGED <<backlog, link, sent, events, closed, recvTimestamp>>
      /\ UNCHANGED <<got, handed, acceptFailed>>
      /\ pc = "shutdown" /\ pc' = "exited" /\ watched' = {} /\ ready' = {}
      /\ clientBuffers' = <<>>
  OBVIOUS
<1>b. DOMAIN fds \subseteq DOMAIN clientBuffers \cup FdsOf({Listener, Epoll})
  BY DEF FdsAgree, FdsOf, Typed
<1>c. fds' = [x \in {} |-> fds[x]]
  <2> DEFINE S == DOMAIN clientBuffers \cup FdsOf({Listener, Epoll})
  <2>1. fds' = Without(fds, S)
    OBVIOUS
  <2> HIDE DEF S
  <2>2. DOMAIN fds \subseteq S
    BY <1>b DEF S
  <2> HIDE DEF Shutdown, IInv
  <2> QED
    BY <2>1, <2>2 DEF Without, Restrict
<1>d. DOMAIN fds' = {} /\ Range(fds') = {} /\ IsInjective(fds')
      /\ fds' \in [DOMAIN fds' -> Clients \cup {Listener, Epoll}]
  <2> HIDE DEF Shutdown, IInv
  <2> QED
    BY <1>c DEF Range, IsInjective
<1> HIDE DEF Shutdown
<1>1. Typed'
  BY <1>a, <1>d DEF Typed, TypeOK
<1>2. OpenByPhase'
  BY <1>a, <1>d DEF OpenByPhase, Bare
<1>3. ConnectedOnce'
  BY <1>a, <1>d DEF ConnectedOnce
<1>4. FdsAgree'
  BY <1>a, <1>d DEF FdsAgree, FdsOf, Looping
<1>5. BatchIsOpen'
  BY <1>a DEF BatchIsOpen, EventsAreCurrent
<1>6. Reported'
  BY <1>a DEF Reported, Looping
<1>7. Fresh'
  BY <1>a DEF Fresh
<1> QED
  BY <1>1, <1>2, <1>3, <1>4, <1>5, <1>6, <1>7

-----------------------------------------------------------------------------
(* The invariant holds from the start and for ever. *)

LEMMA StartsWell == Init => IInv
<1> SUFFICES ASSUME Init PROVE IInv
  OBVIOUS
<1> USE EventLoopAssumption DEF Init
<1>1. /\ DOMAIN fds = {} /\ Range(fds) = {} /\ IsInjective(fds)
      /\ fds \in [DOMAIN fds -> Clients \cup {Listener, Epoll}]
  BY DEF Range, IsInjective
<1>2. backlog \in Seq(Clients) /\ IsInjective(backlog) /\ Range(backlog) = {}
  BY DEF Range, IsInjective
<1>3. /\ DOMAIN clientBuffers = {}
      /\ clientBuffers \in [DOMAIN clientBuffers -> Seq(Bytes)]
  OBVIOUS
<1>4. \A c \in Clients : Len(Stream[c]) \in Nat
  OBVIOUS
<1>5. /\ link \in [Clients -> {"away", "open", "fin", "rst", "closed"}]
      /\ sent \in [Clients -> Nat] /\ got \in [Clients -> Nat]
      /\ \A c \in Clients : got[c] <= sent[c] /\ sent[c] <= Len(Stream[c])
  BY <1>4
<1>6. handed \in [Clients -> Seq(Seq(Bytes))]
  OBVIOUS
<1>7. events \in Seq([fd : 1 .. MaxFd, who : Clients \cup {Listener}])
  OBVIOUS
<1>8. Typed
  BY <1>1, <1>2, <1>3, <1>5, <1>6, <1>7 DEF Typed, TypeOK
<1>9. OpenByPhase /\ ConnectedOnce /\ FdsAgree
  BY <1>1, <1>2, <1>3 DEF OpenByPhase, Bare, ConnectedOnce, FdsAgree, FdsOf, Looping
<1>10. BatchIsOpen /\ Reported /\ Fresh
  BY <1>3 DEF BatchIsOpen, EventsAreCurrent, Reported, Looping, Fresh
<1> QED
  BY <1>8, <1>9, <1>10 DEF IInv

LEMMA Inductive == IInv /\ [Next]_vars => IInv'
<1> SUFFICES ASSUME IInv, [Next]_vars PROVE IInv'
  OBVIOUS
<1>1. ASSUME NEW c \in Clients, Connect(c) PROVE IInv'
  BY <1>1, ConnectStep
<1>2. ASSUME NEW c \in Clients, Send(c) PROVE IInv'
  BY <1>2, SendStep
<1>3. ASSUME NEW c \in Clients, NEW how \in {"fin", "rst"}, HangUp(c, how)
      PROVE  IInv'
  BY <1>3, HangUpStep
<1>4. ASSUME SetUp PROVE IInv'
  BY <1>4, OpensListenerStep, ListensStep, OpensEpollStep, WatchesListenerStep
  DEF SetUp
<1>5. ASSUME SetUpFails PROVE IInv'
  BY <1>5, SetUpFailsStep
<1>6. ASSUME Check \/ EpollWait \/ EventsDone \/ LeaveLoop PROVE IInv'
  BY <1>6, CheckStep, EpollWaitStep, EventsDoneStep, LeaveLoopStep
<1>7. ASSUME Accept \/ AcceptDrops \/ AcceptDone \/ AcceptFails PROVE IInv'
  BY <1>7, AcceptStep, AcceptDropsStep, AcceptDoneStep, AcceptFailsStep
<1>8. ASSUME Read \/ ReadDone \/ HandLine \/ LinesDone PROVE IInv'
  BY <1>8, ReadStep, ReadDoneStep, HandLineStep, LinesDoneStep
<1>9. ASSUME Shutdown PROVE IInv'
  BY <1>9, ShutdownStep
<1>10. ASSUME UNCHANGED vars PROVE IInv'
  <2>1. /\ UNCHANGED <<pc, fds, watched, ready, backlog, link, sent, events>>
        /\ UNCHANGED <<closed, recvTimestamp, got, clientBuffers, handed>>
        /\ UNCHANGED acceptFailed
    BY <1>10 DEF vars, kernel, peers, batch, bytes, reader
  <2>2. Typed'
    BY <2>1 DEF IInv, Typed, TypeOK
  <2>3. OpenByPhase' /\ ConnectedOnce' /\ FdsAgree'
    BY <2>1 DEF IInv, OpenByPhase, ConnectedOnce, FdsAgree, FdsOf
  <2>4. BatchIsOpen' /\ Fresh'
    BY <2>1 DEF IInv, BatchIsOpen, EventsAreCurrent, Fresh
  <2>5. Reported'
    BY <2>1 DEF IInv, Reported, InBatch, HasInput, Unread, FdsOf
  <2> QED
    BY <2>2, <2>3, <2>4, <2>5 DEF IInv
<1> QED
  BY <1>1, <1>2, <1>3, <1>4, <1>5, <1>6, <1>7, <1>8, <1>9, <1>10
  DEF Next, Main, Network

LEMMA AlwaysIInv == Spec => []IInv
  BY StartsWell, Inductive, PTL DEF Spec

-----------------------------------------------------------------------------
(***************************************************************************)
(* The state of the event loop always has its type; in particular no       *)
(* descriptor is held twice, and never more is read than was sent.         *)
(***************************************************************************)
THEOREM EventLoopTypeOK == Spec => []TypeOK
<1>1. IInv => TypeOK
  BY DEF IInv, Typed
<1> QED
  BY <1>1, AlwaysIInv, PTL

(***************************************************************************)
(* However many events epoll_wait returns at once, none is handled for a   *)
(* connection that an earlier one of the batch closed, nor for a new one   *)
(* that got its descriptor.                                                *)
(***************************************************************************)
THEOREM EventsStayCurrent == Spec => []EventsAreCurrent
<1>1. IInv => EventsAreCurrent
  BY DEF IInv, BatchIsOpen
<1> QED
  BY <1>1, AlwaysIInv, PTL

(***************************************************************************)
(* clientBuffers has exactly the open client descriptors, all of them are  *)
(* watched, and every return of main leaves nothing open.                  *)
(***************************************************************************)
THEOREM DescriptorsDoNotLeak == Spec => []NoDescriptorLeaks
<1>1. IInv => NoDescriptorLeaks
  <2> SUFFICES ASSUME IInv PROVE NoDescriptorLeaks
    OBVIOUS
  <2>1. FdsOf(Clients) \subseteq watched
    <3>1. CASE pc \in Looping \cup {"shutdown"}
      BY <3>1 DEF IInv, FdsAgree, FdsOf
    <3>2. CASE pc \notin Looping \cup {"shutdown"}
      <4>1. Range(fds) \cap Clients = {}
        BY <3>2, EventLoopAssumption
        DEF IInv, OpenByPhase, Bare, Looping, Typed, TypeOK, Range
      <4> QED
        BY <4>1 DEF FdsOf, Range
    <3> QED
      BY <3>1, <3>2
  <2>2. pc = "exited" => fds = <<>>
    <3> SUFFICES ASSUME pc = "exited" PROVE fds = <<>>
      OBVIOUS
    <3>1. fds \in [{} -> Clients \cup {Listener, Epoll}]
      BY DEF IInv, OpenByPhase, Bare, Typed
    <3> QED
      BY <3>1
  <2> QED
    BY <2>1, <2>2 DEF IInv, FdsAgree, NoDescriptorLeaks
<1> QED
  BY <1>1, AlwaysIInv, PTL

(***************************************************************************)
(* The edge-triggered loops read and accept enough: when main blocks with  *)
(* no edge to come, no client it serves has input that was not read, and   *)
(* no connection waits unless accept failed for the last ones.             *)
(***************************************************************************)
THEOREM WakeupsAreNotLost == Spec => []NoLostWakeup
<1>1. IInv => NoLostWakeup
  <2> SUFFICES ASSUME IInv, pc = "wait", ready = {}
               PROVE  /\ \A c \in Served : ~HasInput(c)
                      /\ backlog # <<>> => acceptFailed
    BY DEF NoLostWakeup
  <2>1. \A fd : ~InBatch(fd)
    BY DEF IInv, BatchIsOpen, InBatch
  <2>2. ASSUME NEW c \in Served PROVE ~HasInput(c)
    <3>1. PICK fd \in DOMAIN fds : fds[fd] = c
      BY <2>2 DEF Served, Range
    <3> QED
      BY <2>1, <2>2, <3>1 DEF IInv, Reported, Looping, FdsOf, Served
  <2>3. ASSUME backlog # <<>> PROVE acceptFailed
    <3>1. PICK fd \in DOMAIN fds : fds[fd] = Listener
      BY DEF IInv, OpenByPhase, Bare, Range
    <3> QED
      BY <2>1, <2>3, <3>1 DEF IInv, Reported, Looping, FdsOf
  <2> QED
    BY <2>2, <2>3
<1> QED
  BY <1>1, AlwaysIInv, PTL

-----------------------------------------------------------------------------
(* The lines of a sequence of bytes, counted up byte by byte. *)

\* The end of the line before the byte at e: a LF, or the beginning.
LineStart(s, e) == Max({0} \cup {i \in 1 .. (e - 1) : s[i] = LF})

LEMMA LineStartFacts ==
  ASSUME NEW s, NEW e \in Nat \ {0}
  PROVE  /\ LineStart(s, e) \in 0 .. (e - 1)
         /\ LineStart(s, e) = 0 \/ s[LineStart(s, e)] = LF
         /\ \A i \in 1 .. (e - 1) : s[i] = LF => i <= LineStart(s, e)
<1> DEFINE S == {0} \cup {i \in 1 .. (e - 1) : s[i] = LF}
<1>1. S \in SUBSET Nat /\ S # {} /\ e - 1 \in Nat /\ \A x \in S : x =< e - 1
  OBVIOUS
<1>2. LineStart(s, e) = Max(S)
  BY DEF LineStart
<1>3. \A i \in 1 .. (e - 1) : s[i] = LF => i \in S
  OBVIOUS
<1>4. \A x \in S : x = 0 \/ (x \in 1 .. (e - 1) /\ s[x] = LF)
  OBVIOUS
<1> HIDE DEF S
<1>5. Max(S) \in S /\ \A y \in S : y =< Max(S)
  BY <1>1, MaxOf
<1> DEFINE m == LineStart(s, e)
<1>6. m \in S /\ \A y \in S : y =< m
  BY <1>2, <1>5
<1> HIDE DEF m
<1>7. m = 0 \/ (m \in 1 .. (e - 1) /\ s[m] = LF)
  BY <1>4, <1>6
<1>8. m \in 0 .. (e - 1)
  BY <1>7
<1>9. \A i \in 1 .. (e - 1) : s[i] = LF => i <= m
  BY <1>3, <1>6
<1> QED
  BY <1>7, <1>8, <1>9 DEF m

LEMMA TrimmedType ==
  ASSUME NEW ln \in Seq(Bytes)
  PROVE  Trimmed(ln) \in Seq(Bytes)
<1>1. ln # <<>> => Front(ln) \in Seq(Bytes)
  BY SubSeqProperties DEF Front
<1> QED
  BY <1>1 DEF Trimmed

\* A part of a sequence of bytes.
LEMMA PartFacts ==
  ASSUME NEW s \in Seq(Bytes), NEW m \in Nat, NEW n \in 0 .. Len(s)
  PROVE  /\ SubSeq(s, m + 1, n) \in Seq(Bytes)
         /\ Len(SubSeq(s, m + 1, n)) = IF m <= n THEN n - m ELSE 0
         /\ \A i \in 1 .. (n - m) : SubSeq(s, m + 1, n)[i] = s[m + i]
<1>1. \A i \in (m + 1) .. n : s[i] \in Bytes
  OBVIOUS
<1>2. m + 1 \in Int /\ n \in Int
  OBVIOUS
<1>3. /\ SubSeq(s, m + 1, n) \in Seq(Bytes)
      /\ Len(SubSeq(s, m + 1, n)) = IF m + 1 <= n THEN n - (m + 1) + 1 ELSE 0
      /\ \A i \in 1 .. (n - (m + 1) + 1) : SubSeq(s, m + 1, n)[i] = s[(m + 1) + i - 1]
  BY <1>1, <1>2, SubSeqProperties
<1>4. \A i \in 1 .. (n - m) : i \in 1 .. (n - (m + 1) + 1) /\ (m + 1) + i - 1 = m + i
  OBVIOUS
<1> QED
  BY <1>3, <1>4

LEMMA LineToType ==
  ASSUME NEW s \in Seq(Bytes), NEW n \in 1 .. Len(s)
  PROVE  LineTo(s, n) \in Seq(Bytes)
<1> DEFINE m == LineStart(s, n)
<1>1. m \in Nat /\ n - 1 \in 0 .. Len(s)
  BY LineStartFacts
<1>2. LineTo(s, n) = Trimmed(SubSeq(s, 1 + m, n - 1))
  BY DEF LineTo, LineStart
<1> HIDE DEF m
<1>3. 1 + m = m + 1
  BY <1>1
<1> QED
  BY <1>1, <1>2, <1>3, PartFacts, TrimmedType

\* A line depends on no byte after its end.
LEMMA LineToPrefix ==
  ASSUME NEW s \in Seq(Bytes), NEW t \in Seq(Bytes),
         NEW n \in 1 .. Len(s), n <= Len(t), \A i \in 1 .. n : s[i] = t[i]
  PROVE  LineTo(s, n) = LineTo(t, n) /\ (EndsLine(s, n) <=> EndsLine(t, n))
<1> DEFINE m == LineStart(s, n)
<1>1. {i \in 1 .. (n - 1) : s[i] = LF} = {i \in 1 .. (n - 1) : t[i] = LF}
  OBVIOUS
<1>2. LineStart(t, n) = m
  BY <1>1 DEF LineStart
<1>3. m \in 0 .. (n - 1) /\ n - 1 \in 0 .. Len(s) /\ n - 1 \in 0 .. Len(t)
      /\ m \in Nat /\ 1 + m = m + 1
  BY LineStartFacts
<1>4. /\ LineTo(s, n) = Trimmed(SubSeq(s, 1 + m, n - 1))
      /\ LineTo(t, n) = Trimmed(SubSeq(t, 1 + m, n - 1))
  BY <1>2, Zenon DEF LineTo, LineStart
<1> HIDE DEF m
<1> DEFINE x == SubSeq(s, m + 1, n - 1)
           y == SubSeq(t, m + 1, n - 1)
<1>5. /\ x \in Seq(Bytes) /\ Len(x) = IF m <= n - 1 THEN (n - 1) - m ELSE 0
      /\ \A i \in 1 .. ((n - 1) - m) : x[i] = s[m + i]
  BY <1>3, PartFacts
<1>6. /\ y \in Seq(Bytes) /\ Len(y) = IF m <= n - 1 THEN (n - 1) - m ELSE 0
      /\ \A i \in 1 .. ((n - 1) - m) : y[i] = t[m + i]
  BY <1>3, PartFacts
<1> HIDE DEF x, y
<1>7. Len(x) = Len(y) /\ \A i \in 1 .. Len(x) : x[i] = y[i]
  BY <1>3, <1>5, <1>6
<1>8. x = y
  BY <1>5, <1>6, <1>7, SeqEqual
<1>9. LineTo(s, n) = LineTo(t, n)
  BY <1>3, <1>4, <1>8 DEF x, y
<1> QED
  BY <1>9 DEF EndsLine

Solves(f, s) ==
  /\ f[0] = <<>>
  /\ \A n \in 1 .. Len(s) :
       f[n] = IF EndsLine(s, n) THEN Append(f[n - 1], LineTo(s, n)) ELSE f[n - 1]

LEMMA SolutionsAgree ==
  ASSUME NEW s \in Seq(Bytes), NEW t \in Seq(Bytes),
         NEW k \in 0 .. Len(s), k <= Len(t), \A i \in 1 .. k : s[i] = t[i],
         NEW f, Solves(f, s), NEW g, Solves(g, t)
  PROVE  \A n \in 0 .. k : f[n] = g[n]
<1> DEFINE Bad == {n \in 0 .. k : f[n] # g[n]}
<1>1. ASSUME Bad # {}
      PROVE  FALSE
  <2>1. PICK n \in Bad : \A i \in Bad : n =< i
    <3>1. Bad \in SUBSET Nat
      OBVIOUS
    <3> QED
      BY <1>1, <3>1, Least
  <2>2. n \in 0 .. k /\ f[n] # g[n]
    OBVIOUS
  <2>3. n # 0
    BY <2>2 DEF Solves
  <2>4. /\ n \in 1 .. Len(s) /\ n \in 1 .. Len(t) /\ n <= Len(t)
        /\ \A i \in 1 .. n : s[i] = t[i]
    BY <2>2, <2>3
  <2>5. f[n - 1] = g[n - 1]
    <3>1. n - 1 \in 0 .. k /\ ~ (n =< n - 1)
      BY <2>2, <2>3
    <3> QED
      BY <2>1, <3>1
  <2>6. LineTo(s, n) = LineTo(t, n) /\ (EndsLine(s, n) <=> EndsLine(t, n))
    BY <2>4, LineToPrefix
  <2> HIDE DEF Bad
  <2>7. f[n] = IF EndsLine(s, n) THEN Append(f[n - 1], LineTo(s, n)) ELSE f[n - 1]
    BY <2>4 DEF Solves
  <2>8. g[n] = IF EndsLine(t, n) THEN Append(g[n - 1], LineTo(t, n)) ELSE g[n - 1]
    BY <2>4 DEF Solves
  <2> QED
    BY <2>2, <2>5, <2>6, <2>7, <2>8, Zenon
<1> QED
  BY <1>1

\* What has been counted up to byte m, for every m.
SolvesTo(f, s, m) ==
  /\ f \in [0 .. m -> Seq(Seq(Bytes))]
  /\ f[0] = <<>>
  /\ \A n \in 1 .. m :
       f[n] = IF EndsLine(s, n) THEN Append(f[n - 1], LineTo(s, n)) ELSE f[n - 1]

LEMMA SolutionExists ==
  ASSUME NEW s \in Seq(Bytes)
  PROVE  \E f \in [0 .. Len(s) -> Seq(Seq(Bytes))] : Solves(f, s)
<1> DEFINE N == Len(s)
           X == Seq(Seq(Bytes))
           Bad == {m \in 0 .. N : ~ \E f : SolvesTo(f, s, m)}
<1>0. N \in Nat
  OBVIOUS
<1>1. ASSUME Bad # {}
      PROVE  FALSE
  <2>1. PICK m \in Bad : \A i \in Bad : m =< i
    <3>1. Bad \in SUBSET Nat
      BY <1>0
    <3> QED
      BY <1>1, <3>1, Least
  <2>2. m \in 0 .. N /\ m \in Nat /\ ~ \E f : SolvesTo(f, s, m)
    BY <1>0
  <2>3. CASE m = 0
    <3> DEFINE f == [i \in 0 .. 0 |-> <<>>]
    <3>1. <<>> \in Seq(Seq(Bytes)) /\ 1 .. 0 = {} /\ 0 \in 0 .. 0
      OBVIOUS
    <3>2. SolvesTo(f, s, 0)
      BY <3>1 DEF SolvesTo
    <3> QED
      BY <2>2, <2>3, <3>2
  <2>4. CASE m # 0
    <3>1. m \in 1 .. N /\ m - 1 \in 0 .. N /\ ~ (m =< m - 1)
      BY <1>0, <2>2, <2>4
    <3>2. PICK f : SolvesTo(f, s, m - 1)
      BY <2>1, <3>1
    <3> HIDE DEF Bad
    <3> DEFINE ln == LineTo(s, m)
               last == IF EndsLine(s, m) THEN Append(f[m - 1], ln) ELSE f[m - 1]
               g == [i \in 0 .. m |-> IF i = m THEN last ELSE f[i]]
    <3>3. f \in [0 .. (m - 1) -> X] /\ m - 1 \in 0 .. (m - 1)
      BY <2>2, <3>1, <3>2 DEF SolvesTo
    <3>4. ln \in Seq(Bytes)
      BY <3>1, LineToType
    <3>5. last \in X
      <4>1. f[m - 1] \in X
        BY <3>3
      <4> HIDE DEF ln
      <4> QED
        BY <3>4, <4>1
    <3> HIDE DEF last, X
    <3>6. \A i \in 0 .. m : i # m => i \in 0 .. (m - 1)
      BY <2>2
    <3>7. g \in [0 .. m -> X]
      BY <3>3, <3>5, <3>6
    <3>8. g[0] = <<>>
      BY <2>2, <2>4, <3>2 DEF SolvesTo
    <3>9. ASSUME NEW n \in 1 .. m
          PROVE  g[n] = IF EndsLine(s, n) THEN Append(g[n - 1], LineTo(s, n))
                        ELSE g[n - 1]
      <4>1. n - 1 \in 0 .. m /\ n - 1 # m /\ n \in 0 .. m
        BY <2>2
      <4>2. g[n - 1] = f[n - 1]
        BY <4>1
      <4>3. CASE n = m
        <5>1. g[n] = last
          BY <4>1, <4>3
        <5> QED
          BY <4>2, <4>3, <5>1 DEF last
      <4>4. CASE n # m
        <5>1. n \in 1 .. (m - 1) /\ g[n] = f[n]
          BY <2>2, <4>1, <4>4
        <5> HIDE DEF g
        <5> QED
          BY <3>2, <4>2, <5>1 DEF SolvesTo
      <4> QED
        BY <4>3, <4>4
    <3> HIDE DEF g
    <3>10. SolvesTo(g, s, m)
      BY <3>7, <3>8, <3>9 DEF SolvesTo, X
    <3> QED
      BY <2>2, <3>10
  <2> QED
    BY <2>3, <2>4
<1>2. N \in 0 .. N
  BY <1>0
<1>3. PICK f : SolvesTo(f, s, N)
  BY <1>1, <1>2
<1> QED
  BY <1>3 DEF SolvesTo, Solves

LEMMA LinesOfSolves ==
  ASSUME NEW s \in Seq(Bytes)
  PROVE  \E f : Solves(f, s) /\ LinesOf(s) = f[Len(s)]
<1> DEFINE body(g) == [n \in 0 .. Len(s) |->
                         IF n = 0 THEN <<>>
                         ELSE IF EndsLine(s, n) THEN Append(g[n - 1], LineTo(s, n))
                         ELSE g[n - 1]]
           ended == CHOOSE g : g = body(g)
<1>1. LinesOf(s) = ended[Len(s)]
  BY Zenon DEF LinesOf
<1>2. PICK f \in [0 .. Len(s) -> Seq(Seq(Bytes))] : Solves(f, s)
  BY SolutionExists
<1>3. f = body(f)
  <2>1. \A n \in 0 .. Len(s) : n # 0 => n \in 1 .. Len(s)
    OBVIOUS
  <2>2. \A n \in 0 .. Len(s) : f[n] = body(f)[n]
    BY <1>2, <2>1 DEF Solves
  <2> QED
    BY <2>2
<1>4. ended = body(ended)
  BY <1>3, Zenon
<1> HIDE DEF ended
<1>5. Solves(ended, s)
  <2>1. 0 \in 0 .. Len(s) /\ \A n \in 1 .. Len(s) : n \in 0 .. Len(s) /\ n # 0
    OBVIOUS
  <2>2. ended[0] = <<>>
    BY <1>4, <2>1
  <2>3. ASSUME NEW n \in 1 .. Len(s)
        PROVE  ended[n] = IF EndsLine(s, n) THEN Append(ended[n - 1], LineTo(s, n))
                          ELSE ended[n - 1]
    BY <1>4, <2>1, <2>3
  <2> QED
    BY <2>2, <2>3 DEF Solves
<1> QED
  BY <1>1, <1>5

-----------------------------------------------------------------------------
(* The lines of a beginning of the stream, as more and more is read. *)

LinesIn(s, k) == LinesOf(SubSeq(s, 1, k))

LEMMA BeginningFacts ==
  ASSUME NEW s \in Seq(Bytes), NEW k \in 0 .. Len(s)
  PROVE  /\ SubSeq(s, 1, k) \in Seq(Bytes) /\ Len(SubSeq(s, 1, k)) = k
         /\ \A i \in 1 .. k : SubSeq(s, 1, k)[i] = s[i]
<1>1. 0 + 1 = 1 /\ 0 \in Nat /\ k - 0 = k /\ 0 <= k /\ \A i \in 1 .. k : 0 + i = i
  OBVIOUS
<1>2. /\ SubSeq(s, 0 + 1, k) \in Seq(Bytes)
      /\ Len(SubSeq(s, 0 + 1, k)) = IF 0 <= k THEN k - 0 ELSE 0
      /\ \A i \in 1 .. (k - 0) : SubSeq(s, 0 + 1, k)[i] = s[0 + i]
  BY <1>1, PartFacts
<1> QED
  BY <1>1, <1>2

\* LinesIn(s, k) is one solution at k.
LEMMA LinesCounted ==
  ASSUME NEW s \in Seq(Bytes)
  PROVE  \E f \in [0 .. Len(s) -> Seq(Seq(Bytes))] :
           Solves(f, s) /\ \A k \in 0 .. Len(s) : LinesIn(s, k) = f[k]
<1>1. PICK f \in [0 .. Len(s) -> Seq(Seq(Bytes))] : Solves(f, s)
  BY SolutionExists
<1>2. ASSUME NEW k \in 0 .. Len(s)
      PROVE  LinesIn(s, k) = f[k]
  <2> DEFINE t == SubSeq(s, 1, k)
  <2>1. t \in Seq(Bytes) /\ Len(t) = k /\ \A i \in 1 .. k : t[i] = s[i]
    BY BeginningFacts
  <2> HIDE DEF t
  <2>2. PICK g : Solves(g, t) /\ LinesOf(t) = g[Len(t)]
    BY <2>1, LinesOfSolves
  <2>3. k \in 0 .. Len(t) /\ k <= Len(s) /\ k \in 0 .. k
    BY <2>1
  <2>4. \A n \in 0 .. k : g[n] = f[n]
    BY <1>1, <2>1, <2>2, <2>3, SolutionsAgree
  <2> QED
    BY <2>1, <2>2, <2>3, <2>4 DEF LinesIn, t
<1> QED
  BY <1>1, <1>2

LEMMA LinesStep ==
  ASSUME NEW s \in Seq(Bytes)
  PROVE  /\ LinesIn(s, 0) = <<>>
         /\ \A k \in 0 .. Len(s) : LinesIn(s, k) \in Seq(Seq(Bytes))
         /\ \A n \in 1 .. Len(s) :
              LinesIn(s, n) = IF EndsLine(s, n)
                            THEN Append(LinesIn(s, n - 1), LineTo(s, n))
                            ELSE LinesIn(s, n - 1)
<1>1. PICK f \in [0 .. Len(s) -> Seq(Seq(Bytes))] :
        Solves(f, s) /\ \A k \in 0 .. Len(s) : LinesIn(s, k) = f[k]
  BY LinesCounted
<1>2. 0 \in 0 .. Len(s) /\ \A n \in 1 .. Len(s) : n \in 0 .. Len(s) /\ n - 1 \in 0 .. Len(s)
  OBVIOUS
<1>3. ASSUME NEW n \in 1 .. Len(s)
      PROVE  LinesIn(s, n) = IF EndsLine(s, n)
                           THEN Append(LinesIn(s, n - 1), LineTo(s, n))
                           ELSE LinesIn(s, n - 1)
  <2>1. f[n] = IF EndsLine(s, n) THEN Append(f[n - 1], LineTo(s, n)) ELSE f[n - 1]
    BY <1>1 DEF Solves
  <2>2. LinesIn(s, n) = f[n] /\ LinesIn(s, n - 1) = f[n - 1]
    BY <1>1, <1>2
  <2> QED
    BY <2>1, <2>2, Zenon
<1>4. LinesIn(s, 0) = <<>>
  BY <1>1, <1>2 DEF Solves
<1>5. \A k \in 0 .. Len(s) : LinesIn(s, k) \in Seq(Seq(Bytes))
  BY <1>1
<1> QED
  BY <1>3, <1>4, <1>5

\* No LF, no line.
LEMMA NoLineWithoutLF ==
  ASSUME NEW s \in Seq(Bytes), NEW k \in 0 .. Len(s), NEW n \in k .. Len(s),
         \A i \in (k + 1) .. n : s[i] # LF
  PROVE  LinesIn(s, n) = LinesIn(s, k)
<1> DEFINE Bad == {i \in k .. n : LinesIn(s, i) # LinesIn(s, k)}
<1>1. ASSUME Bad # {}
      PROVE  FALSE
  <2>1. PICK i \in Bad : \A j \in Bad : i =< j
    <3>1. Bad \in SUBSET Nat
      OBVIOUS
    <3> QED
      BY <1>1, <3>1, Least
  <2>2. i \in k .. n /\ LinesIn(s, i) # LinesIn(s, k) /\ i # k
    OBVIOUS
  <2>3. /\ i \in (k + 1) .. n /\ i \in 1 .. Len(s) /\ i - 1 \in k .. n
        /\ ~ (i =< i - 1)
    BY <2>2
  <2>4. LinesIn(s, i - 1) = LinesIn(s, k)
    BY <2>1, <2>3
  <2>5. ~ EndsLine(s, i)
    BY <2>3 DEF EndsLine
  <2> HIDE DEF Bad
  <2>6. LinesIn(s, i) = LinesIn(s, i - 1)
    BY <2>3, <2>5, LinesStep
  <2> QED
    BY <2>2, <2>4, <2>6
<1>2. n \in k .. n
  OBVIOUS
<1> QED
  BY <1>1, <1>2

\* From one LF to the next there is one line, or an empty one.
LEMMA OneLine ==
  ASSUME NEW s \in Seq(Bytes), NEW k \in 0 .. Len(s), NEW n \in (k + 1) .. Len(s),
         k = 0 \/ s[k] = LF, \A i \in (k + 1) .. (n - 1) : s[i] # LF, s[n] = LF
  PROVE  LET ln == Trimmed(SubSeq(s, k + 1, n - 1))
         IN  LinesIn(s, n) = IF ln = <<>> THEN LinesIn(s, k)
                           ELSE Append(LinesIn(s, k), ln)
<1>1. n \in 1 .. Len(s) /\ n - 1 \in k .. Len(s) /\ n \in Nat \ {0}
  OBVIOUS
<1>2. LineStart(s, n) = k
  <2> DEFINE m == LineStart(s, n)
  <2>1. /\ m \in 0 .. (n - 1) /\ (m = 0 \/ s[m] = LF)
        /\ \A i \in 1 .. (n - 1) : s[i] = LF => i <= m
    BY <1>1, LineStartFacts
  <2> HIDE DEF m
  <2>2. ~ (m < k)
    BY <1>1, <2>1
  <2>3. ~ (m > k)
    BY <1>1, <2>1
  <2> QED
    BY <2>1, <2>2, <2>3 DEF m
<1>3. LineTo(s, n) = Trimmed(SubSeq(s, k + 1, n - 1))
  <2>1. LineTo(s, n) = Trimmed(SubSeq(s, 1 + LineStart(s, n), n - 1))
    BY DEF LineTo, LineStart
  <2>2. 1 + k = k + 1
    OBVIOUS
  <2> QED
    BY <1>2, <2>1, <2>2
<1>4. LinesIn(s, n - 1) = LinesIn(s, k)
  BY <1>1, NoLineWithoutLF
<1>5. LinesIn(s, n) = IF EndsLine(s, n) THEN Append(LinesIn(s, n - 1), LineTo(s, n))
                    ELSE LinesIn(s, n - 1)
  BY <1>1, LinesStep
<1>6. EndsLine(s, n) <=> LineTo(s, n) # <<>>
  BY DEF EndsLine
<1> QED
  BY <1>3, <1>4, <1>5, <1>6, Zenon

\* Reading on only adds lines.
LEMMA LinesGrow ==
  ASSUME NEW s \in Seq(Bytes), NEW k \in 0 .. Len(s), NEW n \in k .. Len(s)
  PROVE  IsPrefix(LinesIn(s, k), LinesIn(s, n))
<1> DEFINE Begins(a, b) == Len(a) <= Len(b) /\ \A i \in 1 .. Len(a) : a[i] = b[i]
           Bad == {i \in k .. n : ~ Begins(LinesIn(s, k), LinesIn(s, i))}
<1>0. \A i \in 0 .. Len(s) : LinesIn(s, i) \in Seq(Seq(Bytes)) /\ Len(LinesIn(s, i)) \in Nat
  BY LinesStep
<1>1. ASSUME Bad # {}
      PROVE  FALSE
  <2>1. PICK i \in Bad : \A j \in Bad : i =< j
    <3>1. Bad \in SUBSET Nat
      OBVIOUS
    <3> QED
      BY <1>1, <3>1, Least
  <2>2. i \in k .. n /\ ~ Begins(LinesIn(s, k), LinesIn(s, i))
    OBVIOUS
  <2>3. i # k
    BY <1>0, <2>2
  <2>4. /\ i \in 1 .. Len(s) /\ i - 1 \in k .. n /\ i - 1 \in 0 .. Len(s)
        /\ ~ (i =< i - 1)
    BY <2>2, <2>3
  <2>5. Begins(LinesIn(s, k), LinesIn(s, i - 1))
    BY <2>1, <2>4
  <2> HIDE DEF Bad
  <2> DEFINE a == LinesIn(s, k)
             b == LinesIn(s, i - 1)
             ln == LineTo(s, i)
  <2>6. a \in Seq(Seq(Bytes)) /\ b \in Seq(Seq(Bytes)) /\ ln \in Seq(Bytes)
    BY <1>0, <2>4, LineToType
  <2>7. LinesIn(s, i) = b \/ LinesIn(s, i) = Append(b, ln)
    BY <2>4, LinesStep
  <2> HIDE DEF a, b, ln
  <2>8. Begins(a, Append(b, ln))
    <3>1. /\ Len(Append(b, ln)) = Len(b) + 1 /\ Len(a) \in Nat /\ Len(b) \in Nat
          /\ \A j \in 1 .. Len(b) : Append(b, ln)[j] = b[j]
      BY <2>6, AppendProperties
    <3> QED
      BY <2>5, <3>1 DEF a, b
  <2> QED
    BY <2>2, <2>5, <2>7, <2>8 DEF a, b
<1>2. n \in k .. n /\ n \in 0 .. Len(s)
  OBVIOUS
<1>3. Begins(LinesIn(s, k), LinesIn(s, n))
  BY <1>1, <1>2
<1> DEFINE a == LinesIn(s, k)
           b == LinesIn(s, n)
<1>4. a \in Seq(Seq(Bytes)) /\ b \in Seq(Seq(Bytes)) /\ Len(a) \in Nat /\ Len(b) \in Nat
  BY <1>0, <1>2
<1> HIDE DEF a, b
<1>5. Begins(a, b)
  BY <1>3 DEF a, b
<1>6. SubSeq(a, 1, Len(a)) = SubSeq(b, 1, Len(a))
  <2> DEFINE x == SubSeq(a, 1, Len(a))
             y == SubSeq(b, 1, Len(a))
  <2>1. /\ x \in Seq(Seq(Bytes)) /\ Len(x) = Len(a)
        /\ \A i \in 1 .. Len(a) : x[i] = a[i]
    BY <1>4, SubSeqFull
  <2>2. /\ y \in Seq(Seq(Bytes)) /\ Len(y) = Len(a)
        /\ \A i \in 1 .. Len(a) : y[i] = b[i]
    <3>1. \A i \in 1 .. Len(a) : b[i] \in Seq(Bytes)
      BY <1>4, <1>5
    <3>2. /\ y \in Seq(Seq(Bytes))
          /\ Len(y) = IF 1 <= Len(a) THEN Len(a) - 1 + 1 ELSE 0
          /\ \A i \in 1 .. (Len(a) - 1 + 1) : y[i] = b[1 + i - 1]
      BY <1>4, <3>1, SubSeqProperties
    <3> HIDE DEF y
    <3> QED
      BY <1>4, <3>2
  <2> HIDE DEF x, y
  <2>3. Len(x) = Len(y) /\ \A i \in 1 .. Len(x) : x[i] = y[i]
    BY <1>5, <2>1, <2>2
  <2>4. x = y
    BY <2>1, <2>2, <2>3, SeqEqual
  <2> QED
    BY <2>4 DEF x, y
<1> QED
  BY <1>5, <1>6 DEF IsPrefix, a, b

-----------------------------------------------------------------------------
(* What has been read of a stream is the lines handed over, up to some LF, *)
(* and the buffer.                                                         *)

CutAt(c, k) ==
  /\ k = 0 \/ Stream[c][k] = LF
  /\ handed[c] = LinesIn(Stream[c], k)
  /\ \A fd \in DOMAIN clientBuffers :
       fds[fd] = c => clientBuffers[fd] = SubSeq(Stream[c], k + 1, got[c])
  /\ c \notin Range(fds) => \A i \in (k + 1) .. got[c] : Stream[c][i] # LF

CutAtLF ==
  \A c \in Clients :
    /\ link[c] = "away" \/ c \in Range(backlog) => got[c] = 0
    /\ \E k \in 0 .. got[c] : CutAt(c, k)

LEMMA StreamFacts ==
  ASSUME Typed, NEW c \in Clients
  PROVE  /\ Stream[c] \in Seq(Bytes) /\ got[c] \in Nat /\ sent[c] \in Nat
         /\ got[c] \in 0 .. Len(Stream[c])
         /\ sent[c] \in got[c] .. Len(Stream[c])
  BY EventLoopAssumption DEF Typed, TypeOK

\* A step that reads nothing, hands over nothing, and loses no client.
LEMMA CutStays ==
  ASSUME CutAtLF, UNCHANGED <<got, clientBuffers, handed>>,
         \A c \in Clients : c \in Range(fds') <=> c \in Range(fds),
         \A fd \in DOMAIN clientBuffers : fds'[fd] = fds[fd],
         \A c \in Clients :
           link'[c] = "away" \/ c \in Range(backlog') =>
             link[c] = "away" \/ c \in Range(backlog)
  PROVE  CutAtLF'
<1> SUFFICES ASSUME NEW c \in Clients
             PROVE  /\ link'[c] = "away" \/ c \in Range(backlog') => got'[c] = 0
                    /\ \E k \in 0 .. got'[c] : CutAt(c, k)'
  BY DEF CutAtLF
<1>1. got'[c] = got[c] /\ handed'[c] = handed[c]
  OBVIOUS
<1>2. PICK k \in 0 .. got[c] : CutAt(c, k)
  BY DEF CutAtLF
<1>3. CutAt(c, k)'
  BY <1>1, <1>2 DEF CutAt
<1> QED
  BY <1>1, <1>2, <1>3 DEF CutAtLF

\* So are the steps that leave the descriptors alone, too.
LEMMA SameFds ==
  ASSUME CutAtLF, UNCHANGED <<fds, got, clientBuffers, handed>>,
         \A c \in Clients :
           link'[c] = "away" \/ c \in Range(backlog') =>
             link[c] = "away" \/ c \in Range(backlog)
  PROVE  CutAtLF'
<1>1. Range(fds') = Range(fds) /\ \A fd \in DOMAIN clientBuffers : fds'[fd] = fds[fd]
  OBVIOUS
<1> QED
  BY <1>1, CutStays

LEMMA NetworkCuts ==
  ASSUME IInv, CutAtLF, Network
  PROVE  CutAtLF'
<1> USE DEF kernel, peers, batch, bytes, reader
<1>1. ASSUME NEW c \in Clients, Connect(c)
      PROVE  CutAtLF'
  <2>1. /\ UNCHANGED <<fds, got, clientBuffers, handed>> /\ link[c] = "away"
        /\ link' = [link EXCEPT ![c] = "open"] /\ backlog' = Append(backlog, c)
    BY <1>1 DEF Connect
  <2>2. Range(backlog') = Range(backlog) \cup {c}
    BY <2>1, AppendFacts DEF IInv, Typed, TypeOK
  <2>3. \A x \in Clients : link'[x] = IF x = c THEN "open" ELSE link[x]
    BY <2>1 DEF IInv, Typed, TypeOK
  <2> QED
    BY <2>1, <2>2, <2>3, SameFds
<1>2. ASSUME NEW c \in Clients, Send(c)
      PROVE  CutAtLF'
  <2>1. UNCHANGED <<fds, got, clientBuffers, handed, link, backlog>>
    BY <1>2 DEF Send
  <2> QED
    BY <2>1, SameFds
<1>3. ASSUME NEW c \in Clients, NEW how \in {"fin", "rst"}, HangUp(c, how)
      PROVE  CutAtLF'
  <2>1. /\ UNCHANGED <<fds, got, clientBuffers, handed, backlog>>
        /\ link' = [link EXCEPT ![c] = how]
    BY <1>3 DEF HangUp
  <2>2. \A x \in Clients : link'[x] = IF x = c THEN how ELSE link[x]
    BY <2>1 DEF IInv, Typed, TypeOK
  <2>3. \A x \in Clients : link'[x] = "away" => link[x] = "away"
    BY <2>2
  <2> QED
    BY <2>1, <2>3, SameFds
<1> QED
  BY <1>1, <1>2, <1>3 DEF Network

\* Set-up, the waiting, and the accepts that give nobody a descriptor.
LEMMA QuietCuts ==
  ASSUME IInv, CutAtLF,
         \/ SetUp \/ SetUpFails \/ Check \/ EpollWait \/ EventsDone \/ LeaveLoop
         \/ AcceptDrops \/ AcceptDone \/ AcceptFails \/ ReadDone
  PROVE  CutAtLF'
<1> USE DEF kernel, peers, batch, bytes, reader
<1>a. Typed /\ FdsAgree /\ OpenByPhase
  BY DEF IInv
<1>b. {Listener, Epoll} \cap Clients = {}
  BY EventLoopAssumption
<1>1. ASSUME NEW who \in {Listener, Epoll}, NEW from, NEW to, Opens(who, from, to),
             who \notin Range(fds)
      PROVE  CutAtLF'
  <2>1. /\ UNCHANGED <<got, clientBuffers, handed, link, backlog>>
        /\ FreeFds # {} /\ fds' = With(fds, Min(FreeFds), who)
    BY <1>1 DEF Opens
  <2>2. /\ Range(fds') = Range(fds) \cup {who}
        /\ \A x \in DOMAIN fds : fds'[x] = fds[x]
    BY <1>1, <1>a, <2>1, Opened
  <2>3. DOMAIN clientBuffers \subseteq DOMAIN fds
    BY <1>a DEF FdsAgree, FdsOf
  <2>4. \A c \in Clients : c \in Range(fds') <=> c \in Range(fds)
    BY <1>b, <2>2
  <2> QED
    BY <2>1, <2>2, <2>3, <2>4, CutStays
<1>2. CASE SetUp
  <2>1. CASE Opens(Listener, "socket", "configure")
    <3>1. Listener \notin Range(fds)
      BY <1>a, <2>1 DEF Opens, OpenByPhase, Bare, Range
    <3> QED
      BY <1>1, <2>1, <3>1
  <2>2. CASE Listens
    <3>1. UNCHANGED <<fds, got, clientBuffers, handed, link, backlog>>
      BY <2>2 DEF Listens, Goes
    <3> QED
      BY <3>1, SameFds
  <2>3. CASE Opens(Epoll, "epoll", "watch")
    <3>1. Epoll \notin Range(fds)
      BY <1>a, <2>3 DEF Opens, OpenByPhase, Bare, Listener, Epoll
    <3> QED
      BY <1>1, <2>3, <3>1
  <2>4. CASE WatchesListener
    <3>1. UNCHANGED <<fds, got, clientBuffers, handed, link, backlog>>
      BY <2>4 DEF WatchesListener
    <3> QED
      BY <3>1, SameFds
  <2> QED
    BY <1>2, <2>1, <2>2, <2>3, <2>4 DEF SetUp
<1>3. CASE SetUpFails
  <2>1. /\ pc \in {"socket", "configure", "epoll", "watch"}
        /\ UNCHANGED <<got, clientBuffers, handed, link, backlog>>
    BY <1>3 DEF SetUpFails
  <2>2. \A c \in Clients : c \notin Range(fds)
    BY <1>a, <1>b, <2>1 DEF OpenByPhase, Bare, Range
  <2>3. DOMAIN fds' \subseteq DOMAIN fds /\ \A x \in DOMAIN fds' : fds'[x] = fds[x]
    BY <1>3 DEF SetUpFails, Without, Restrict
  <2>4. \A c \in Clients : c \notin Range(fds')
    BY <2>2, <2>3 DEF Range
  <2>5. DOMAIN clientBuffers = {}
    BY <1>a, <2>2 DEF FdsAgree, FdsOf, Range
  <2> QED
    BY <2>1, <2>2, <2>4, <2>5, CutStays
<1>4. CASE Check \/ EpollWait \/ EventsDone \/ LeaveLoop
  <2>1. UNCHANGED <<fds, got, clientBuffers, handed, link, backlog>>
    BY <1>4 DEF Check, EpollWait, EventsDone, LeaveLoop, Goes
  <2> QED
    BY <2>1, SameFds
<1>5. CASE AcceptDrops
  <2>1. /\ UNCHANGED <<fds, got, clientBuffers, handed>>
        /\ backlog # <<>> /\ backlog' = Tail(backlog)
        /\ link' = [link EXCEPT ![Head(backlog)] = "closed"]
    BY <1>5 DEF AcceptDrops
  <2>2. Range(backlog') \subseteq Range(backlog)
    BY <1>a, <2>1, TailFacts DEF Typed, TypeOK
  <2>3. \A x \in Clients : link'[x] = "away" => link[x] = "away"
    BY <1>a, <2>1 DEF Typed, TypeOK
  <2> QED
    BY <2>1, <2>2, <2>3, SameFds
<1>6. CASE AcceptDone \/ AcceptFails \/ ReadDone
  <2>1. UNCHANGED <<fds, got, clientBuffers, handed, link, backlog>>
    BY <1>6 DEF AcceptDone, AcceptFails, ReadDone
  <2> QED
    BY <2>1, SameFds
<1> QED
  BY <1>2, <1>3, <1>4, <1>5, <1>6

\* A new connection: nothing has been read, and the buffer is empty.
LEMMA AcceptCuts ==
  ASSUME IInv, CutAtLF, Accept
  PROVE  CutAtLF'
<1> DEFINE a == Head(backlog)
           fd == Min(FreeFds)
<1>a. /\ backlog \in Seq(Clients) /\ backlog # <<>> /\ backlog' = Tail(backlog)
      /\ FreeFds # {} /\ fds' = With(fds, fd, a)
      /\ clientBuffers' = With(clientBuffers, fd, <<>>)
      /\ UNCHANGED <<got, handed, link>>
  BY DEF IInv, Typed, TypeOK, Accept, peers
<1>b. a \in Range(backlog) /\ Range(backlog') \subseteq Range(backlog) /\ a \in Clients
  <2>1. a \in Range(backlog) /\ Range(backlog') \subseteq Range(backlog)
    BY <1>a, TailFacts
  <2> QED
    BY <1>a, <2>1 DEF Range
<1>c. a \notin Range(fds) /\ got[a] = 0
  BY <1>b DEF IInv, ConnectedOnce, CutAtLF
<1>d. fd \notin DOMAIN fds
  BY <1>a, MinFree
<1> HIDE DEF a, fd
<1>e. /\ fds'[fd] = a /\ Range(fds') = Range(fds) \cup {a}
      /\ \A x \in DOMAIN fds : fds'[x] = fds[x]
  BY <1>a, <1>b, <1>c, Opened DEF fd, IInv
<1>f. /\ DOMAIN clientBuffers' = DOMAIN clientBuffers \cup {fd}
      /\ clientBuffers'[fd] = <<>>
      /\ \A x \in DOMAIN clientBuffers :
           clientBuffers'[x] = clientBuffers[x] /\ x \in DOMAIN fds /\ x # fd
      /\ \A x \in DOMAIN clientBuffers : fds[x] # a
  <2>1. DOMAIN clientBuffers \subseteq DOMAIN fds
    BY DEF IInv, FdsAgree, FdsOf
  <2>2. \A x \in DOMAIN fds : fds[x] # a
    BY <1>c DEF Range
  <2> QED
    BY <1>a, <1>d, <2>1, <2>2 DEF With
<1> SUFFICES ASSUME NEW c \in Clients
             PROVE  /\ link'[c] = "away" \/ c \in Range(backlog') => got'[c] = 0
                    /\ \E k \in 0 .. got'[c] : CutAt(c, k)'
  BY DEF CutAtLF
<1>1. got'[c] = got[c] /\ handed'[c] = handed[c]
  BY <1>a
<1>2. PICK k \in 0 .. got[c] : CutAt(c, k)
  BY DEF CutAtLF
<1>3. /\ link'[c] = "away" \/ c \in Range(backlog') => got'[c] = 0
  BY <1>a, <1>b DEF CutAtLF
<1>4. CASE c # a
  <2>1. CutAt(c, k)'
    BY <1>1, <1>2, <1>4, <1>e, <1>f DEF CutAt
  <2> QED
    BY <1>1, <1>2, <1>3, <2>1
<1>5. CASE c = a
  <2>1. k = 0 /\ got[c] = 0
    BY <1>2, <1>5, <1>c
  <2>2. SubSeq(Stream[c], k + 1, got[c]) = <<>>
    BY <2>1, SubSeqEmpty
  <2>3. \A x \in DOMAIN clientBuffers' : fds'[x] = c => x = fd
    BY <1>5, <1>e, <1>f
  <2>4. CutAt(c, k)'
    BY <1>1, <1>2, <1>5, <1>e, <1>f, <2>1, <2>2, <2>3 DEF CutAt
  <2> QED
    BY <1>1, <1>2, <1>3, <2>4
<1> QED
  BY <1>4, <1>5

\* Two descriptors are not of the same client.
LEMMA OneDescriptor ==
  ASSUME Typed, NEW x \in DOMAIN fds, NEW y \in DOMAIN fds, fds[x] = fds[y]
  PROVE  x = y
  BY DEF Typed, TypeOK, IsInjective

\* What was read goes to the end of the buffer.
LEMMA ReadCuts ==
  ASSUME IInv, CutAtLF, Read
  PROVE  CutAtLF'
<1>a. /\ UNCHANGED <<fds, backlog, link, handed>>
      /\ events # <<>> /\ fds[Fd] # Listener /\ Unread(Client) # <<>>
  BY DEF Read, Reading, Accepting, Fd, kernel, peers
<1>b. /\ Fd \in DOMAIN fds /\ Client \in Clients /\ Fd \in DOMAIN clientBuffers
      /\ DOMAIN clientBuffers \subseteq DOMAIN fds /\ Typed
  <2>1. Fd \in DOMAIN fds /\ Client \in Clients
    BY <1>a, HeadFacts DEF IInv, Client, Read, Reading
  <2> QED
    BY <2>1 DEF IInv, FdsAgree, FdsOf, Client
<1> DEFINE o == Client
           s == Stream[o]
<1>c. PICK n \in Nat :
        /\ n <= Len(Unread(o))
        /\ clientBuffers' = [clientBuffers EXCEPT
                               ![Fd] = @ \o SubSeq(Unread(o), 1, n)]
        /\ got' = [got EXCEPT ![o] = @ + n]
  <2> DEFINE n == Min({ReadSize, Len(Unread(Client))})
  <2>1. Unread(Client) \in Seq(Bytes)
    BY <1>b, UnreadFacts
  <2>2. {ReadSize, Len(Unread(Client))} \in SUBSET Nat
    BY <2>1, EventLoopAssumption DEF EventLoopAssumption
  <2>3. n \in Nat /\ n <= Len(Unread(Client))
    BY <2>2, MinOf
  <2> QED
    BY <2>3 DEF Read
<1>d. /\ s \in Seq(Bytes) /\ got[o] \in 0 .. Len(s)
      /\ sent[o] \in got[o] .. Len(s) /\ Len(Unread(o)) = sent[o] - got[o]
      /\ Unread(o) = SubSeq(s, got[o] + 1, sent[o])
  BY <1>b, StreamFacts, UnreadFacts DEF Unread
<1>e. fds[Fd] = o
  BY DEF Client
<1> HIDE DEF o, s
<1>f. /\ \A c \in Clients : got'[c] = IF c = o THEN got[o] + n ELSE got[c]
      /\ DOMAIN clientBuffers' = DOMAIN clientBuffers
      /\ clientBuffers'[Fd] = clientBuffers[Fd] \o SubSeq(Unread(o), 1, n)
      /\ \A x \in DOMAIN clientBuffers : x # Fd => clientBuffers'[x] = clientBuffers[x]
  BY <1>b, <1>c DEF Typed
<1>g. SubSeq(Unread(o), 1, n) = SubSeq(s, got[o] + 1, got[o] + n)
  <2> DEFINE u == Unread(o)
             x == SubSeq(u, 1, n)
             y == SubSeq(s, got[o] + 1, got[o] + n)
  <2>1. u \in Seq(Bytes) /\ n \in 0 .. Len(u) /\ Len(u) = sent[o] - got[o]
        /\ \A i \in 1 .. (sent[o] - got[o]) : u[i] = s[got[o] + i]
    <3>1. got[o] \in Nat /\ sent[o] \in 0 .. Len(s) /\ got[o] <= sent[o]
          /\ u = SubSeq(s, got[o] + 1, sent[o])
      BY <1>d
    <3> HIDE DEF u
    <3>2. /\ SubSeq(s, got[o] + 1, sent[o]) \in Seq(Bytes)
          /\ \A i \in 1 .. (sent[o] - got[o]) :
               SubSeq(s, got[o] + 1, sent[o])[i] = s[got[o] + i]
      BY <1>d, <3>1, PartFacts
    <3>3. Len(u) = sent[o] - got[o] /\ n <= Len(u)
      BY <1>c, <1>d DEF u
    <3>4. u \in Seq(Bytes) /\ \A i \in 1 .. (sent[o] - got[o]) : u[i] = s[got[o] + i]
      BY <3>1, <3>2, Zenon
    <3>5. n \in 0 .. Len(u)
      BY <1>c, <3>3, <3>4
    <3> QED
      BY <3>3, <3>4, <3>5
  <2> HIDE DEF u
  <2>2. x \in Seq(Bytes) /\ Len(x) = n /\ \A i \in 1 .. n : x[i] = u[i]
    BY <2>1, BeginningFacts
  <2>3. got[o] + n \in 0 .. Len(s) /\ got[o] \in Nat /\ got[o] <= got[o] + n
        /\ (got[o] + n) - got[o] = n /\ n <= sent[o] - got[o]
    <3>1. /\ got[o] \in Nat /\ sent[o] \in Nat /\ Len(s) \in Nat /\ sent[o] <= Len(s)
          /\ n <= sent[o] - got[o]
      BY <1>d, <2>1
    <3> QED
      BY <3>1
  <2>4. /\ y \in Seq(Bytes)
        /\ Len(y) = IF got[o] <= got[o] + n THEN (got[o] + n) - got[o] ELSE 0
        /\ \A i \in 1 .. ((got[o] + n) - got[o]) : y[i] = s[got[o] + i]
    BY <1>d, <2>3, PartFacts
  <2> HIDE DEF x, y
  <2>5. Len(x) = Len(y)
    BY <2>2, <2>3, <2>4
  <2>6. ASSUME NEW i \in 1 .. Len(x)
        PROVE  x[i] = y[i]
    <3>1. /\ i \in 1 .. n /\ i \in 1 .. ((got[o] + n) - got[o])
          /\ i \in 1 .. (sent[o] - got[o])
      <4>1. i \in 1 .. n /\ sent[o] \in Nat /\ got[o] \in Nat
        BY <1>d, <2>2
      <4> QED
        BY <2>3, <4>1
    <3> QED
      BY <2>1, <2>2, <2>4, <3>1
  <2> QED
    BY <2>2, <2>4, <2>5, <2>6, SeqEqual DEF x, y, u
<1> SUFFICES ASSUME NEW c \in Clients
             PROVE  /\ link'[c] = "away" \/ c \in Range(backlog') => got'[c] = 0
                    /\ \E k \in 0 .. got'[c] : CutAt(c, k)'
  BY DEF CutAtLF
<1>1. PICK k \in 0 .. got[c] : CutAt(c, k)
  BY DEF CutAtLF
<1>2. CASE c # o
  <2>1. got'[c] = got[c]
    BY <1>2, <1>f
  <2>2. CutAt(c, k)'
    BY <1>1, <1>2, <1>a, <1>b, <1>e, <1>f, <2>1 DEF CutAt
  <2> QED
    BY <1>1, <1>a, <2>1, <2>2 DEF CutAtLF
<1>3. CASE c = o
  <2>1. /\ c \in Range(fds) /\ ~ (link[c] = "away") /\ c \notin Range(backlog)
    <3>1. c \in Range(fds)
      BY <1>3, <1>b, <1>e DEF Range
    <3> QED
      BY <3>1 DEF IInv, ConnectedOnce
  <2>2. got'[c] = got[c] + n /\ k \in 0 .. got'[c] /\ got[c] + n <= Len(s)
    BY <1>1, <1>3, <1>c, <1>d, <1>f
  <2>3. clientBuffers[Fd] = SubSeq(s, k + 1, got[o])
    BY <1>1, <1>3, <1>b, <1>e DEF CutAt, s
  <2>4. SubSeq(s, k + 1, got[o]) \o SubSeq(s, got[o] + 1, got[o] + n)
          = SubSeq(s, k + 1, got[o] + n)
    <3>1. /\ k + 1 \in 1 .. Len(s) + 1 /\ got[o] \in (k + 1) - 1 .. Len(s)
          /\ got[o] + n \in got[o] .. Len(s)
      <4>1. /\ k \in 0 .. got[o] /\ n \in Nat /\ got[o] \in Nat
            /\ got[o] + n <= Len(s) /\ Len(s) \in Nat
        BY <1>1, <1>3, <1>c, <1>d, <2>2
      <4> DEFINE m == Len(s)
                 g == got[o]
      <4> HIDE DEF m, g
      <4>2. k \in 0 .. g /\ n \in Nat /\ g \in Nat /\ g + n <= m /\ m \in Nat
        BY <4>1 DEF m, g
      <4>3. k + 1 \in 1 .. m + 1 /\ g \in (k + 1) - 1 .. m /\ g + n \in g .. m
        BY <4>2
      <4> QED
        BY <4>3 DEF m, g
    <3> QED
      BY <1>d, <3>1, ConcatAdjacentSubSeq
  <2>5. clientBuffers'[Fd] = SubSeq(Stream[c], k + 1, got'[c])
    BY <1>3, <1>f, <1>g, <2>2, <2>3, <2>4 DEF s
  <2>6. \A x \in DOMAIN clientBuffers' : fds'[x] = c => x = Fd
    BY <1>3, <1>a, <1>b, <1>e, <1>f, OneDescriptor
  <2>7. CutAt(c, k)'
    BY <1>1, <1>a, <2>1, <2>5, <2>6 DEF CutAt
  <2> QED
    BY <1>a, <2>1, <2>2, <2>7
<1> QED
  BY <1>2, <1>3

\* The first LF of the buffer.
LEMMA PosIsFirst ==
  ASSUME clientBuffers[Fd] \in Seq(Bytes), HasLine
  PROVE  /\ Pos \in 1 .. Len(clientBuffers[Fd]) /\ clientBuffers[Fd][Pos] = LF
         /\ \A i \in 1 .. (Pos - 1) : clientBuffers[Fd][i] # LF
<1> DEFINE buffer == clientBuffers[Fd]
           I == {i \in 1 .. Len(buffer) : buffer[i] = LF}
<1>1. I \in SUBSET Nat /\ I # {}
  BY DEF HasLine, Contains
<1>2. Pos = Min(I)
  BY <1>1 DEF Pos, SelectInSeq
<1>3. \A i \in I : i \in 1 .. Len(buffer) /\ buffer[i] = LF
  OBVIOUS
<1>4. \A i \in 1 .. Len(buffer) : buffer[i] = LF => i \in I
  OBVIOUS
<1> HIDE DEF I
<1>5. Pos \in I /\ \A y \in I : Pos =< y
  BY <1>1, <1>2, MinOf
<1>6. Pos \in 1 .. Len(buffer) /\ buffer[Pos] = LF
  BY <1>3, <1>5
<1>7. ASSUME NEW i \in 1 .. (Pos - 1) PROVE buffer[i] # LF
  <2>1. i \in 1 .. Len(buffer) /\ ~ (Pos =< i)
    BY <1>6
  <2> QED
    BY <1>4, <1>5, <2>1
<1> QED
  BY <1>6, <1>7

\* The cut moves to the LF of the line that is handed over.
LEMMA HandLineCuts ==
  ASSUME IInv, CutAtLF, HandLine
  PROVE  CutAtLF'
<1> DEFINE o == Client
           s == Stream[o]
           buffer == clientBuffers[Fd]
           p == Pos
           ln == Trimmed(SubSeq(buffer, 1, p - 1))
<1>a. /\ UNCHANGED <<fds, backlog, link, got>> /\ pc = "lines" /\ HasLine
      /\ clientBuffers' = [clientBuffers EXCEPT ![Fd] = Rest]
      /\ handed' = IF ln = <<>> THEN handed
                   ELSE [handed EXCEPT ![o] = Append(@, ln)]
  BY DEF HandLine, kernel, peers
<1>b. /\ Fd \in DOMAIN fds /\ o \in Clients /\ Fd \in DOMAIN clientBuffers
      /\ DOMAIN clientBuffers \subseteq DOMAIN fds /\ Typed
  <2>1. Fd \in DOMAIN fds /\ Client \in Clients
    BY <1>a, HeadFacts DEF IInv, BatchIsOpen, Client
  <2> QED
    BY <2>1 DEF IInv, FdsAgree, FdsOf, Client
<1>c. /\ buffer \in Seq(Bytes) /\ p \in 1 .. Len(buffer) /\ buffer[p] = LF
      /\ \A i \in 1 .. (p - 1) : buffer[i] # LF
  <2>1. buffer \in Seq(Bytes)
    BY <1>b DEF Typed
  <2> QED
    BY <1>a, <2>1, PosIsFirst
<1>d. s \in Seq(Bytes) /\ got[o] \in 0 .. Len(s) /\ got[o] \in Nat
  BY <1>b, StreamFacts
<1>e. fds[Fd] = o
  BY DEF Client
<1>f. Rest = SubSeq(buffer, p + 1, Len(buffer))
  BY DEF Rest
<1> HIDE DEF o, s, buffer, p, ln
<1>g. /\ DOMAIN clientBuffers' = DOMAIN clientBuffers /\ clientBuffers'[Fd] = Rest
      /\ \A x \in DOMAIN clientBuffers : x # Fd => clientBuffers'[x] = clientBuffers[x]
      /\ handed'[o] = IF ln = <<>> THEN handed[o] ELSE Append(handed[o], ln)
      /\ \A c \in Clients : c # o => handed'[c] = handed[c]
  BY <1>a, <1>b DEF Typed
<1> SUFFICES ASSUME NEW c \in Clients
             PROVE  /\ link'[c] = "away" \/ c \in Range(backlog') => got'[c] = 0
                    /\ \E k \in 0 .. got'[c] : CutAt(c, k)'
  BY DEF CutAtLF
<1>1. PICK k \in 0 .. got[c] : CutAt(c, k)
  BY DEF CutAtLF
<1>2. link'[c] = "away" \/ c \in Range(backlog') => got'[c] = 0
  BY <1>a DEF CutAtLF
<1>3. CASE c # o
  <2>1. CutAt(c, k)'
    BY <1>1, <1>3, <1>a, <1>b, <1>e, <1>g DEF CutAt
  <2> QED
    BY <1>1, <1>2, <1>a, <2>1
<1>4. CASE c = o
  <2>1. /\ buffer = SubSeq(s, k + 1, got[o]) /\ (k = 0 \/ s[k] = LF)
        /\ handed[o] = LinesIn(s, k) /\ k \in 0 .. got[o] /\ k \in Nat
    BY <1>1, <1>4, <1>b, <1>d, <1>e DEF CutAt, s, buffer
  <2>2. /\ Len(buffer) = got[o] - k
        /\ \A i \in 1 .. (got[o] - k) : buffer[i] = s[k + i]
    BY <1>d, <2>1, PartFacts
  <2>0. PICK n : n = k + p
    OBVIOUS
  <2>3. /\ n \in (k + 1) .. got[o] /\ n \in (k + 1) .. Len(s) /\ p \in 1 .. (got[o] - k)
        /\ k \in 0 .. Len(s) /\ n - 1 \in 0 .. Len(s) /\ n \in 0 .. got[o]
        /\ (n - 1) - k = p - 1 /\ got[o] - n = Len(buffer) - p /\ n \in Nat
    <3>1. /\ p \in Nat /\ 1 <= p /\ p <= got[o] - k /\ Len(buffer) = got[o] - k
          /\ k \in Nat /\ got[o] \in Nat /\ Len(s) \in Nat /\ got[o] <= Len(s)
      BY <1>c, <1>d, <2>1, <2>2
    <3> QED
      BY <2>0, <3>1
  <2>4. s[n] = LF
    BY <1>c, <2>0, <2>2, <2>3
  <2>5. \A i \in (k + 1) .. (n - 1) : s[i] # LF
    <3> SUFFICES ASSUME NEW i \in (k + 1) .. (n - 1) PROVE s[i] # LF
      OBVIOUS
    <3>1. i - k \in 1 .. (p - 1) /\ i - k \in 1 .. (got[o] - k) /\ k + (i - k) = i
      BY <1>c, <1>d, <2>0, <2>1, <2>3
    <3> QED
      BY <1>c, <2>2, <3>1
  <2>6. SubSeq(buffer, 1, p - 1) = SubSeq(s, k + 1, n - 1)
    <3> DEFINE x == SubSeq(buffer, 1, p - 1)
               y == SubSeq(s, k + 1, n - 1)
    <3>1. x \in Seq(Bytes) /\ Len(x) = p - 1 /\ \A i \in 1 .. (p - 1) : x[i] = buffer[i]
      <4>1. p - 1 \in 0 .. Len(buffer)
        BY <1>c
      <4> QED
        BY <1>c, <4>1, BeginningFacts
    <3>2. /\ y \in Seq(Bytes)
          /\ Len(y) = IF k <= n - 1 THEN (n - 1) - k ELSE 0
          /\ \A i \in 1 .. ((n - 1) - k) : y[i] = s[k + i]
      BY <1>d, <2>1, <2>3, PartFacts
    <3> HIDE DEF x, y
    <3>3. Len(x) = Len(y)
      BY <2>3, <3>1, <3>2
    <3>4. ASSUME NEW i \in 1 .. Len(x)
          PROVE  x[i] = y[i]
      <4>1. /\ p \in 1 .. (got[o] - k) /\ (n - 1) - k = p - 1
            /\ got[o] \in Nat /\ k \in Nat /\ i \in 1 .. (p - 1)
        BY <1>d, <2>1, <2>3, <3>1
      <4>2. i \in 1 .. (p - 1) /\ i \in 1 .. ((n - 1) - k) /\ i \in 1 .. (got[o] - k)
        BY <4>1
      <4> QED
        BY <2>2, <3>1, <3>2, <4>2
    <3> QED
      BY <3>1, <3>2, <3>3, <3>4, SeqEqual DEF x, y
  <2>7. Rest = SubSeq(s, n + 1, got[o])
    <3> DEFINE x == SubSeq(buffer, p + 1, Len(buffer))
               y == SubSeq(s, n + 1, got[o])
    <3>1. /\ x \in Seq(Bytes)
          /\ Len(x) = IF p <= Len(buffer) THEN Len(buffer) - p ELSE 0
          /\ \A i \in 1 .. (Len(buffer) - p) : x[i] = buffer[p + i]
      <4>1. p \in Nat /\ Len(buffer) \in 0 .. Len(buffer)
        BY <1>c
      <4> QED
        BY <1>c, <4>1, PartFacts
    <3>2. /\ y \in Seq(Bytes) /\ Len(y) = IF n <= got[o] THEN got[o] - n ELSE 0
          /\ \A i \in 1 .. (got[o] - n) : y[i] = s[n + i]
      BY <1>d, <2>3, PartFacts
    <3> HIDE DEF x, y
    <3>3. Len(x) = Len(y)
      BY <1>c, <2>3, <3>1, <3>2
    <3>4. ASSUME NEW i \in 1 .. Len(x) PROVE x[i] = y[i]
      <4>1. /\ i \in 1 .. (Len(buffer) - p) /\ i \in 1 .. (got[o] - n)
            /\ p + i \in 1 .. (got[o] - k) /\ k + (p + i) = n + i
        <5>1. p \in Nat /\ got[o] \in Nat /\ k \in Nat /\ n = k + p
              /\ Len(buffer) = got[o] - k /\ got[o] - n = Len(buffer) - p
          BY <1>c, <1>d, <2>0, <2>1, <2>2, <2>3
        <5>2. i \in 1 .. (Len(buffer) - p)
          BY <3>1, <5>1
        <5> QED
          BY <5>1, <5>2
      <4> QED
        BY <2>2, <3>1, <3>2, <4>1
    <3> QED
      BY <1>f, <3>1, <3>2, <3>3, <3>4, SeqEqual DEF x, y
  <2>8. LinesIn(s, n) = IF ln = <<>> THEN LinesIn(s, k) ELSE Append(LinesIn(s, k), ln)
    <3>1. LET l == Trimmed(SubSeq(s, k + 1, n - 1))
          IN  LinesIn(s, n) = IF l = <<>> THEN LinesIn(s, k) ELSE Append(LinesIn(s, k), l)
      BY <1>d, <2>1, <2>3, <2>4, <2>5, OneLine
    <3> QED
      BY <2>6, <3>1 DEF ln
  <2>9. handed'[c] = LinesIn(Stream[c], n)
    BY <1>4, <1>g, <2>1, <2>8 DEF s
  <2>10. \A x \in DOMAIN clientBuffers' : fds'[x] = c => x = Fd
    BY <1>4, <1>a, <1>b, <1>e, <1>g, OneDescriptor
  <2>11. c \in Range(fds')
    BY <1>4, <1>a, <1>b, <1>e DEF Range
  <2>12. got'[c] = got[c]
    BY <1>a
  <2>13. Stream[c][n] = LF
    BY <1>4, <2>4 DEF s
  <2>14. clientBuffers'[Fd] = SubSeq(Stream[c], n + 1, got'[c])
    BY <1>4, <1>g, <2>7, <2>12 DEF s
  <2>15. CutAt(c, n)'
    BY <2>9, <2>10, <2>11, <2>13, <2>14 DEF CutAt
  <2>16. n \in 0 .. got'[c]
    BY <1>4, <2>3, <2>12
  <2> QED
    BY <1>2, <2>15, <2>16
<1> QED
  BY <1>3, <1>4

\* A buffer without LF has none of the bytes of a line's end.
LEMMA NoLFInBuffer ==
  ASSUME IInv, NEW c \in Clients, NEW k \in 0 .. got[c], CutAt(c, k),
         NEW x \in DOMAIN clientBuffers, fds[x] = c,
         ~ Contains(clientBuffers[x], LF)
  PROVE  \A i \in (k + 1) .. got[c] : Stream[c][i] # LF
<1> DEFINE s == Stream[c]
           b == clientBuffers[x]
<1>1. s \in Seq(Bytes) /\ got[c] \in 0 .. Len(s) /\ got[c] \in Nat /\ k \in Nat
  BY StreamFacts DEF IInv
<1>2. b = SubSeq(s, k + 1, got[c])
  BY DEF CutAt
<1>3. Len(b) = got[c] - k /\ \A i \in 1 .. (got[c] - k) : b[i] = s[k + i]
  BY <1>1, <1>2, PartFacts
<1>4. \A i \in 1 .. Len(b) : b[i] # LF
  BY DEF Contains
<1> SUFFICES ASSUME NEW i \in (k + 1) .. got[c] PROVE s[i] # LF
  OBVIOUS
<1> HIDE DEF s, b
<1>5. i - k \in 1 .. Len(b) /\ i - k \in 1 .. (got[c] - k) /\ k + (i - k) = i
  BY <1>1, <1>3
<1> QED
  BY <1>3, <1>4, <1>5

\* Whoever loses a descriptor has no complete line left.
LEMMA ClosingCuts ==
  ASSUME IInv, CutAtLF, UNCHANGED <<got, handed, backlog>>,
         NEW gone, DOMAIN fds' = DOMAIN fds \ gone,
         \A x \in DOMAIN fds' : fds'[x] = fds[x],
         DOMAIN clientBuffers' = DOMAIN clientBuffers \ gone,
         \A x \in DOMAIN clientBuffers' : clientBuffers'[x] = clientBuffers[x],
         \A x \in DOMAIN clientBuffers \cap gone : ~ Contains(clientBuffers[x], LF),
         \A c \in Clients : link'[c] = "away" => link[c] = "away"
  PROVE  CutAtLF'
<1>1. DOMAIN clientBuffers = FdsOf(Clients)
  BY DEF IInv, FdsAgree
<1> SUFFICES ASSUME NEW c \in Clients
             PROVE  /\ link'[c] = "away" \/ c \in Range(backlog') => got'[c] = 0
                    /\ \E k \in 0 .. got'[c] : CutAt(c, k)'
  BY DEF CutAtLF
<1>2. got'[c] = got[c] /\ handed'[c] = handed[c]
  OBVIOUS
<1>3. PICK k \in 0 .. got[c] : CutAt(c, k)
  BY DEF CutAtLF
<1>4. link'[c] = "away" \/ c \in Range(backlog') => got'[c] = 0
  BY <1>2 DEF CutAtLF
<1>5. \A x \in DOMAIN clientBuffers' :
        fds'[x] = c => clientBuffers'[x] = SubSeq(Stream[c], k + 1, got[c])
  <2> SUFFICES ASSUME NEW x \in DOMAIN clientBuffers', fds'[x] = c
               PROVE  clientBuffers'[x] = SubSeq(Stream[c], k + 1, got[c])
    OBVIOUS
  <2>1. x \in DOMAIN clientBuffers /\ x \in DOMAIN fds' /\ fds[x] = c
    BY <1>1 DEF FdsOf
  <2> QED
    BY <1>3, <2>1 DEF CutAt
<1>6. ASSUME c \notin Range(fds')
      PROVE  \A i \in (k + 1) .. got[c] : Stream[c][i] # LF
  <2>1. CASE c \notin Range(fds)
    BY <1>3, <2>1 DEF CutAt
  <2>2. CASE c \in Range(fds)
    <3>1. PICK x \in DOMAIN fds : fds[x] = c
      BY <2>2 DEF Range
    <3>2. x \in gone
      BY <1>6, <3>1 DEF Range
    <3>3. x \in DOMAIN clientBuffers
      BY <1>1, <3>1 DEF FdsOf
    <3> QED
      BY <1>3, <3>1, <3>2, <3>3, NoLFInBuffer
  <2> QED
    BY <2>1, <2>2
<1>7. CutAt(c, k)'
  BY <1>2, <1>3, <1>5, <1>6 DEF CutAt
<1> QED
  BY <1>2, <1>3, <1>4, <1>7

LEMMA LinesDoneCuts ==
  ASSUME IInv, CutAtLF, LinesDone
  PROVE  CutAtLF'
<1> DEFINE gone == IF closed THEN {Fd} ELSE {}
<1>1. /\ UNCHANGED <<backlog, got, handed>> /\ ~HasLine
      /\ fds' = Without(fds, gone)
      /\ clientBuffers' = Without(clientBuffers, gone)
      /\ link' = IF closed THEN [link EXCEPT ![Client] = "closed"] ELSE link
  BY DEF LinesDone, NoMoreLines
<1>2. \A x \in gone : x = Fd
  OBVIOUS
<1> HIDE DEF gone
<1>3. /\ DOMAIN fds' = DOMAIN fds \ gone
      /\ \A x \in DOMAIN fds' : fds'[x] = fds[x]
      /\ DOMAIN clientBuffers' = DOMAIN clientBuffers \ gone
      /\ \A x \in DOMAIN clientBuffers' : clientBuffers'[x] = clientBuffers[x]
  BY <1>1 DEF Without, Restrict
<1>4. \A x \in DOMAIN clientBuffers \cap gone : ~ Contains(clientBuffers[x], LF)
  BY <1>1, <1>2 DEF HasLine
<1>5. \A c \in Clients : link'[c] = "away" => link[c] = "away"
  BY <1>1 DEF IInv, Typed, TypeOK
<1> QED
  BY <1>1, <1>3, <1>4, <1>5, ClosingCuts

\* After the loop no event is at hand, so no buffer has a complete line.
LEMMA ShutdownCuts ==
  ASSUME IInv, CutAtLF, Shutdown
  PROVE  CutAtLF'
<1> DEFINE gone == DOMAIN clientBuffers \cup FdsOf({Listener, Epoll})
<1>1. /\ UNCHANGED <<backlog, link, got, handed>> /\ pc = "shutdown"
      /\ fds' = Without(fds, gone) /\ clientBuffers' = <<>>
  BY DEF Shutdown, peers
<1>2. events = <<>>
  BY <1>1 DEF IInv, BatchIsOpen
<1>3. \A x \in DOMAIN clientBuffers : ~ Contains(clientBuffers[x], LF)
  BY <1>2 DEF IInv, Fresh
<1>4. DOMAIN clientBuffers \subseteq gone
  OBVIOUS
<1> HIDE DEF gone
<1>5. DOMAIN fds' = DOMAIN fds \ gone /\ \A x \in DOMAIN fds' : fds'[x] = fds[x]
  BY <1>1 DEF Without, Restrict
<1>6. DOMAIN clientBuffers' = {} /\ DOMAIN clientBuffers \ gone = {}
  BY <1>1, <1>4
<1> QED
  BY <1>1, <1>3, <1>5, <1>6, ClosingCuts

LEMMA CutInductive == IInv /\ CutAtLF /\ [Next]_vars => CutAtLF'
<1> SUFFICES ASSUME IInv, CutAtLF, [Next]_vars PROVE CutAtLF'
  OBVIOUS
<1>1. ASSUME UNCHANGED vars PROVE CutAtLF'
  <2>1. UNCHANGED <<fds, got, clientBuffers, handed, link, backlog>>
    BY <1>1 DEF vars, kernel, peers, batch, bytes
  <2> QED
    BY <2>1, SameFds
<1> QED
  BY <1>1, NetworkCuts, QuietCuts, AcceptCuts, ReadCuts, HandLineCuts,
     LinesDoneCuts, ShutdownCuts
  DEF Next, Main

LEMMA AlwaysCut == Spec => []CutAtLF
<1>1. Init => CutAtLF
  <2> SUFFICES ASSUME Init, NEW c \in Clients
               PROVE  got[c] = 0 /\ CutAt(c, 0)
    BY DEF CutAtLF
  <2>1. /\ got[c] = 0 /\ handed[c] = <<>> /\ DOMAIN clientBuffers = {}
    BY DEF Init
  <2>2. LinesIn(Stream[c], 0) = <<>>
    BY LinesStep, EventLoopAssumption DEF EventLoopAssumption
  <2> QED
    BY <2>1, <2>2 DEF CutAt
<1> QED
  BY <1>1, CutInductive, AlwaysIInv, PTL DEF Spec

(***************************************************************************)
(* However the stream of a client is cut into reads, and whoever had its   *)
(* descriptor before: processLine gets the lines of what was read, in      *)
(* order and once each, and all of them whenever main is not at work on a  *)
(* read of a client.                                                       *)
(***************************************************************************)
THEOREM LinesAlwaysHandedOnce == Spec => []LinesHandedOnce
<1>1. IInv /\ CutAtLF => LinesHandedOnce
  <2> SUFFICES ASSUME IInv, CutAtLF, NEW c \in Clients
               PROVE  /\ IsPrefix(handed[c], LinesOf(BytesRead(c)))
                      /\ ~(Reading \/ pc = "lines") =>
                           handed[c] = LinesOf(BytesRead(c))
    BY DEF LinesHandedOnce
  <2> DEFINE s == Stream[c]
  <2>1. s \in Seq(Bytes) /\ got[c] \in 0 .. Len(s) /\ got[c] \in Nat
    BY StreamFacts DEF IInv
  <2>2. PICK k \in 0 .. got[c] : CutAt(c, k)
    BY DEF CutAtLF
  <2>3. handed[c] = LinesIn(s, k) /\ LinesOf(BytesRead(c)) = LinesIn(s, got[c])
    BY <2>2 DEF CutAt, LinesIn, BytesRead
  <2>4. k \in 0 .. Len(s) /\ got[c] \in k .. Len(s)
    BY <2>1, <2>2
  <2>5. IsPrefix(LinesIn(s, k), LinesIn(s, got[c]))
    BY <2>1, <2>4, LinesGrow
  <2>6. ASSUME ~(Reading \/ pc = "lines")
        PROVE  LinesIn(s, got[c]) = LinesIn(s, k)
    <3>1. \A i \in (k + 1) .. got[c] : s[i] # LF
      <4>1. CASE c \notin Range(fds)
        BY <2>2, <4>1 DEF CutAt
      <4>2. CASE c \in Range(fds)
        <5>1. PICK x \in DOMAIN fds : fds[x] = c
          BY <4>2 DEF Range
        <5>2. x \in DOMAIN clientBuffers
          BY <5>1 DEF IInv, FdsAgree, FdsOf
        <5>3. ASSUME Contains(clientBuffers[x], LF) PROVE FALSE
          <6>1. events # <<>> /\ x = events[1].fd
            BY <5>2, <5>3 DEF IInv, Fresh
          <6>2. pc = "events"
            BY <2>6, <6>1 DEF IInv, BatchIsOpen
          <6>3. Fd = x
            BY <6>1, HeadFacts DEF IInv
          <6>4. c # Listener
            BY EventLoopAssumption
          <6> QED
            BY <2>6, <5>1, <6>1, <6>2, <6>3, <6>4 DEF Reading, Accepting, Fd
        <5> QED
          BY <2>2, <5>1, <5>2, <5>3, NoLFInBuffer
      <4> QED
        BY <4>1, <4>2
    <3> QED
      BY <2>1, <2>4, <3>1, NoLineWithoutLF
  <2> QED
    BY <2>3, <2>5, <2>6
<1> QED
  BY <1>1, AlwaysIInv, AlwaysCut, PTL

-----------------------------------------------------------------------------
(* The receive time of the lines an event completes. *)

\* A time is that of a read of the event at hand, and no LF in its buffer was
\* read before that read.
TimeKept ==
  recvTimestamp # 0 =>
    /\ pc \in {"events", "lines"} /\ events # <<>> /\ Client \in Clients
    /\ recvTimestamp <= got[Client]
    /\ \A i \in DOMAIN clientBuffers[Fd] :
         clientBuffers[Fd][i] = LF => recvTimestamp <= PlaceOf(Fd, i)

\* The client whose event is at hand.
LEMMA ClientAtHand ==
  ASSUME IInv, events # <<>>, Client \in Clients
  PROVE  /\ Fd = events[1].fd /\ Fd \in DOMAIN fds /\ Fd \in DOMAIN clientBuffers
         /\ clientBuffers[Fd] \in Seq(Bytes) /\ got[Client] \in Nat
<1>1. Fd = events[1].fd /\ Fd \in DOMAIN fds
  BY HeadFacts DEF IInv
<1>2. Fd \in DOMAIN clientBuffers
  BY <1>1 DEF IInv, FdsAgree, FdsOf, Client
<1> QED
  BY <1>1, <1>2 DEF IInv, Typed

LEMMA ReadKeepsTime ==
  ASSUME IInv, TimeKept, Read
  PROVE  TimeKept'
<1> DEFINE b == clientBuffers[Fd]
           u == Unread(Client)
           g == got[Client]
           t == recvTimestamp
           n == Min({ReadSize, Len(u)})
<1>1. /\ pc = "events" /\ events # <<>> /\ Client # Listener
      /\ Client \in Clients /\ u # <<>>
      /\ clientBuffers' = [clientBuffers EXCEPT ![Fd] = b \o SubSeq(u, 1, n)]
      /\ got' = [got EXCEPT ![Client] = g + n]
      /\ recvTimestamp' = IF t = 0 THEN g + 1 ELSE t
      /\ UNCHANGED <<pc, fds, events>>
  <2>1. Read /\ Reading /\ ~Accepting
    BY DEF Read, Reading
  <2>2. Client # Listener /\ events # <<>> /\ pc = "events"
    BY <2>1 DEF Reading, Accepting, Client, Fd
  <2>3. Client \in Clients
    BY <2>2, HeadFacts DEF IInv
  <2> QED
    BY <2>2, <2>3 DEF Read, ReadTime, kernel, peers
<1>2. /\ Fd \in DOMAIN fds /\ Fd \in DOMAIN clientBuffers
      /\ b \in Seq(Bytes) /\ g \in Nat /\ t \in Nat
  BY <1>1, ClientAtHand DEF IInv, Typed, TypeOK
<1>3. n \in Nat \ {0} /\ n <= Len(u) /\ u \in Seq(Bytes)
  <2>1. u \in Seq(Bytes) /\ Len(u) \in Nat \ {0}
    BY <1>1, UnreadFacts DEF IInv
  <2> HIDE DEF u
  <2>2. {ReadSize, Len(u)} \in SUBSET Nat /\ 0 \notin {ReadSize, Len(u)}
    BY <2>1, EventLoopAssumption
  <2> QED
    BY <2>1, <2>2, MinOf
<1> HIDE DEF n, u
<1>4. SubSeq(u, 1, n) \in Seq(Bytes) /\ Len(SubSeq(u, 1, n)) = n
  <2>1. n \in 0 .. Len(u)
    BY <1>3
  <2> QED
    BY <1>3, <2>1, BeginningFacts
<1>5. /\ Fd' = Fd /\ Client' = Client /\ got'[Client] = g + n
      /\ clientBuffers'[Fd] = b \o SubSeq(u, 1, n)
  BY <1>1, <1>2 DEF Fd, Client, IInv, Typed
<1>6. /\ DOMAIN (b \o SubSeq(u, 1, n)) = 1 .. (Len(b) + n)
      /\ Len(b \o SubSeq(u, 1, n)) = Len(b) + n
      /\ \A i \in 1 .. Len(b) : (b \o SubSeq(u, 1, n))[i] = b[i]
  BY <1>2, <1>3, <1>4
<1>7. t # 0 => t <= g
  BY DEF TimeKept
<1>8. recvTimestamp' <= g + n
  BY <1>1, <1>2, <1>3, <1>7
<1>9. ASSUME NEW i \in 1 .. (Len(b) + n), (b \o SubSeq(u, 1, n))[i] = LF
      PROVE  recvTimestamp' <= (g + n) - (Len(b) + n) + i
  <2>1. CASE i \in 1 .. Len(b)
    <3>1. b[i] = LF
      BY <1>6, <1>9, <2>1
    <3>2. t # 0
      BY <1>2, <2>1, <3>1 DEF IInv, Fresh, Contains
    <3>3. t <= g - Len(b) + i
      BY <1>2, <2>1, <3>1, <3>2 DEF TimeKept, PlaceOf, Client
    <3> QED
      BY <1>1, <1>2, <1>3, <2>1, <3>2, <3>3
  <2>2. CASE i \notin 1 .. Len(b)
    <3>1. i \in Nat /\ i >= Len(b) + 1 /\ Len(b) \in Nat
      BY <1>2, <1>3, <2>2
    <3>2. recvTimestamp' \in Nat /\ recvTimestamp' <= g + 1
      BY <1>1, <1>2, <1>7
    <3> QED
      BY <1>2, <1>3, <3>1, <3>2
  <2> QED
    BY <2>1, <2>2
<1>10. \A i : PlaceOf(Fd, i)' = (g + n) - (Len(b) + n) + i
  <2>1. fds'[Fd] = Client
    BY <1>1 DEF Client
  <2> QED
    BY <1>5, <1>6, <2>1 DEF PlaceOf
<1>11. /\ pc' = "events" /\ events' # <<>> /\ Client' \in Clients
       /\ got'[Client'] = g + n
  BY <1>1, <1>5
<1>12. ASSUME NEW i \in DOMAIN clientBuffers'[Fd'], clientBuffers'[Fd'][i] = LF
       PROVE  recvTimestamp' <= PlaceOf(Fd, i)'
  <2>1. i \in 1 .. (Len(b) + n) /\ (b \o SubSeq(u, 1, n))[i] = LF
    BY <1>5, <1>6, <1>12
  <2>2. recvTimestamp' <= (g + n) - (Len(b) + n) + i
    BY <1>9, <2>1
  <2> QED
    BY <1>10, <2>2
<1> QED
  BY <1>8, <1>11, <1>12 DEF TimeKept

\* What is left of the buffer stays where it was in the stream.
LEMMA HandLineKeepsTime ==
  ASSUME IInv, TimeKept, HandLine
  PROVE  TimeKept'
<1> DEFINE b == clientBuffers[Fd]
           p == Pos
<1>1. /\ pc = "lines" /\ HasLine
      /\ clientBuffers' = [clientBuffers EXCEPT ![Fd] = Rest]
      /\ UNCHANGED <<pc, fds, events, recvTimestamp, got>>
  BY DEF HandLine, kernel, peers, reader
<1>2. events # <<>> /\ Client \in Clients
  BY <1>1, HeadFacts DEF IInv, BatchIsOpen, Client
<1>3. Fd \in DOMAIN clientBuffers /\ b \in Seq(Bytes) /\ got[Client] \in Nat
  BY <1>2, ClientAtHand
<1>4. p \in 1 .. Len(b) /\ Rest = SubSeq(b, p + 1, Len(b))
  BY <1>1, <1>3, PosFacts DEF Rest
<1> HIDE DEF p
<1>5. /\ Rest \in Seq(Bytes) /\ Len(Rest) = Len(b) - p
      /\ \A i \in 1 .. (Len(b) - p) : Rest[i] = b[p + i]
  BY <1>3, <1>4, PartFacts
<1>6. Fd' = Fd /\ Client' = Client /\ clientBuffers'[Fd] = Rest
  BY <1>1, <1>3 DEF Fd, Client, IInv, Typed
<1> HIDE DEF b
<1>7. ASSUME recvTimestamp # 0, NEW i \in DOMAIN Rest, Rest[i] = LF
      PROVE  recvTimestamp <= PlaceOf(Fd, i)'
  <2>1. i \in 1 .. (Len(b) - p) /\ p + i \in DOMAIN b /\ b[p + i] = LF
    BY <1>3, <1>4, <1>5, <1>7 DEF b
  <2>2. recvTimestamp <= PlaceOf(Fd, p + i)
    BY <1>7, <2>1 DEF TimeKept, b
  <2>3. PlaceOf(Fd, p + i) = got[Client] - Len(b) + (p + i)
    BY DEF PlaceOf, Client, b
  <2>4. PlaceOf(Fd, i)' = got[Client] - (Len(b) - p) + i
    BY <1>1, <1>5, <1>6 DEF PlaceOf, Client
  <2>5. Len(b) \in Nat /\ p \in Nat /\ i \in Nat /\ got[Client] \in Nat
    BY <1>3, <1>4, <2>1 DEF b
  <2>6. PlaceOf(Fd, i)' = PlaceOf(Fd, p + i)
    BY <2>3, <2>4, <2>5
  <2> QED
    BY <2>2, <2>6
<1> QED
  BY <1>1, <1>2, <1>6, <1>7 DEF TimeKept

\* Every other step leaves the time and the buffer alone, or forgets the time.
LEMMA TimeStays ==
  ASSUME IInv, TimeKept, [Next]_vars
  PROVE  TimeKept'
<1> USE DEF kernel, peers, batch, bytes, reader
<1>1. ASSUME UNCHANGED <<fds, events, recvTimestamp, got, clientBuffers>>,
             pc' \in {pc, "lines"}
      PROVE  TimeKept'
  <2>1. Fd' = Fd /\ Client' = Client
    BY <1>1 DEF Fd, Client
  <2>2. \A i : PlaceOf(Fd, i)' = PlaceOf(Fd, i)
    BY <1>1, <2>1 DEF PlaceOf
  <2> QED
    BY <1>1, <2>1, <2>2 DEF TimeKept
<1>2. CASE Network
  <2>1. UNCHANGED <<pc, fds, events, recvTimestamp, got, clientBuffers>>
    BY <1>2 DEF Network, Connect, Send, HangUp
  <2> QED
    BY <1>1, <2>1
<1>3. CASE \/ SetUp \/ SetUpFails \/ Check \/ EpollWait \/ EventsDone
           \/ LeaveLoop \/ Shutdown
  <2>1. recvTimestamp' = recvTimestamp
    BY <1>3 DEF SetUp, Opens, Listens, WatchesListener, SetUpFails, Check,
                EpollWait, EventsDone, LeaveLoop, Shutdown, Goes
  <2>2. pc \notin {"events", "lines"} \/ events = <<>>
    BY <1>3 DEF SetUp, Opens, Listens, WatchesListener, SetUpFails, Check,
                EpollWait, EventsDone, LeaveLoop, Shutdown, Goes
  <2> QED
    BY <2>1, <2>2 DEF TimeKept
<1>4. CASE Accept \/ AcceptDrops \/ AcceptDone \/ AcceptFails
  <2>1. recvTimestamp' = recvTimestamp
    BY <1>4 DEF Accept, AcceptDrops, AcceptDone, AcceptFails
  <2>2. Client = Listener
    BY <1>4 DEF Accept, AcceptDrops, AcceptDone, AcceptFails, Accepting, Client, Fd
  <2> QED
    BY <2>1, <2>2, EventLoopAssumption DEF TimeKept
<1>5. CASE ReadDone
  BY <1>1, <1>5 DEF ReadDone
<1>6. CASE LinesDone
  BY <1>6 DEF LinesDone, TimeKept
<1>7. CASE UNCHANGED vars
  BY <1>1, <1>7 DEF vars
<1> QED
  BY <1>2, <1>3, <1>4, <1>5, <1>6, <1>7, ReadKeepsTime, HandLineKeepsTime
  DEF Next, Main

(***************************************************************************)
(* Every line is handed to processLine with a receive time that is not     *)
(* later than the read that brought its LF, and never with the initial 0.  *)
(* (It is the time of the first read of the event, which may be earlier.)  *)
(***************************************************************************)
THEOREM HandedLinesAreStamped == Spec => []LinesAreStamped
<1>1. Init => TimeKept
  BY DEF Init, TimeKept
<1>2. IInv /\ TimeKept => LinesAreStamped
  <2> SUFFICES ASSUME IInv, TimeKept,
                      NEW fd \in DOMAIN clientBuffers,
                      NEW i \in DOMAIN clientBuffers[fd],
                      clientBuffers[fd][i] = LF
               PROVE  /\ events # <<>> /\ fd = Fd
                      /\ recvTimestamp \in 1 .. PlaceOf(fd, i)
    BY DEF LinesAreStamped
  <2>1. clientBuffers[fd] \in Seq(Bytes) /\ recvTimestamp \in Nat
    BY DEF IInv, Typed, TypeOK
  <2>2. recvTimestamp # 0 /\ events # <<>> /\ fd = events[1].fd
    BY <2>1 DEF IInv, Fresh, Contains
  <2>3. fd = Fd
    BY <2>2, HeadFacts DEF IInv
  <2>4. recvTimestamp <= PlaceOf(fd, i) /\ Client \in Clients
    BY <2>2, <2>3 DEF TimeKept
  <2>5. PlaceOf(fd, i) \in Int
    <3>1. got[Client] \in Nat /\ i \in Nat /\ Len(clientBuffers[fd]) \in Nat
      BY <2>1, <2>2, <2>4, ClientAtHand
    <3> QED
      BY <2>3, <3>1 DEF PlaceOf, Client
  <2> QED
    BY <2>1, <2>2, <2>3, <2>4, <2>5
<1> QED
  BY <1>1, <1>2, TimeStays, AlwaysIInv, PTL DEF Spec

-----------------------------------------------------------------------------
(* processLine: FoldLeft over the arguments, taken apart for four of them. *)

\* One round of FoldLeft's recursion over the places of types.
Round(g, T, r, types) ==
  [u \in SUBSET T |->
     IF u = {} THEN r ELSE Extract(g[u \ {Max(u)}], types[Max(u)])]

AgreeUpTo(g, h, T, n) ==
  \A u \in SUBSET T : Cardinality(u) =< n => g[u] = h[u]

LEMMA GreatestPlace ==
  ASSUME NEW n \in Nat, NEW u \in SUBSET (1 .. n), u # {}
  PROVE  Max(u) \in u
<1>1. u \in SUBSET Nat /\ \A x \in u : x =< n
  OBVIOUS
<1> QED
  BY <1>1, MaxOf

LEMMA PlacesAreFinite ==
  ASSUME NEW n \in Nat
  PROVE  \A u \in SUBSET (1 .. n) :
           /\ IsFiniteSet(u) /\ Cardinality(u) \in Nat /\ Cardinality(u) =< n
           /\ Cardinality(u) = 0 <=> u = {}
<1>1. IsFiniteSet(1 .. n) /\ Cardinality(1 .. n) = n
  <2>1. 1 \in Int /\ n \in Int /\ (1 > n => n = 0) /\ n - 1 + 1 = n
    OBVIOUS
  <2> QED
    BY <2>1, FS_Interval
<1> SUFFICES ASSUME NEW u \in SUBSET (1 .. n)
             PROVE  /\ IsFiniteSet(u) /\ Cardinality(u) \in Nat /\ Cardinality(u) =< n
                    /\ Cardinality(u) = 0 <=> u = {}
  OBVIOUS
<1>2. IsFiniteSet(u) /\ Cardinality(u) =< n
  BY <1>1, FS_Subset
<1>3. Cardinality(u) \in Nat
  BY <1>2, FS_CardinalityType
<1>4. Cardinality(u) = 0 <=> u = {}
  BY <1>2, FS_EmptySet
<1> QED
  BY <1>2, <1>3, <1>4

\* Every round settles the sets of one more place.
LEMMA RoundSettles ==
  ASSUME NEW n \in Nat, NEW r, NEW types, NEW g, NEW h, NEW m \in Nat,
         AgreeUpTo(g, h, 1 .. n, m)
  PROVE  AgreeUpTo(Round(g, 1 .. n, r, types), Round(h, 1 .. n, r, types),
                   1 .. n, m + 1)
<1> DEFINE T == 1 .. n
<1>1. ASSUME NEW u \in SUBSET T, Cardinality(u) =< m + 1
      PROVE  Round(g, T, r, types)[u] = Round(h, T, r, types)[u]
  <2>1. CASE u = {}
    BY <2>1 DEF Round
  <2>2. CASE u # {}
    <3> DEFINE x == Max(u)
               v == u \ {x}
    <3>1. x \in u
      BY <2>2, GreatestPlace
    <3>2. IsFiniteSet(u) /\ Cardinality(u) \in Nat
      BY PlacesAreFinite
    <3>3. Cardinality(v) = Cardinality(u) - 1
      BY <3>1, <3>2, FS_RemoveElement
    <3>4. g[v] = h[v]
      BY <1>1, <3>2, <3>3 DEF AgreeUpTo
    <3>5. /\ Round(g, T, r, types)[u] = Extract(g[v], types[x])
          /\ Round(h, T, r, types)[u] = Extract(h[v], types[x])
      BY <2>2, Zenon DEF Round
    <3> QED
      BY <3>4, <3>5
  <2> QED
    BY <2>1, <2>2
<1> QED
  BY <1>1 DEF AgreeUpTo

LEMMA RoundsSettle ==
  ASSUME NEW n \in 0 .. 4, NEW r, NEW types
  PROVE  \E g : g = Round(g, 1 .. n, r, types)
<1> DEFINE T == 1 .. n
           Following(g) == Round(g, T, r, types)
<1>1. n \in Nat
  OBVIOUS
<1>2. \A g, h : \A m \in Nat :
        AgreeUpTo(g, h, T, m) => AgreeUpTo(Following(g), Following(h), T, m + 1)
  BY <1>1, RoundSettles
<1>p. \A g : /\ Following(g) = [u \in SUBSET T |-> Following(g)[u]]
             /\ Following(g)[{}] = r
  BY DEF Round
<1> HIDE DEF Following
<1>q. PICK g1, g2, g3, g4, g5, g6 :
        /\ g1 = Following({}) /\ g2 = Following(g1) /\ g3 = Following(g2)
        /\ g4 = Following(g3) /\ g5 = Following(g4) /\ g6 = Following(g5)
  OBVIOUS
<1>3. AgreeUpTo(g1, g2, T, 0)
  <2>1. \A u \in SUBSET T : Cardinality(u) =< 0 => u = {}
    <3>1. \A u \in SUBSET T :
            Cardinality(u) \in Nat /\ (Cardinality(u) = 0 <=> u = {})
      BY <1>1, PlacesAreFinite
    <3> QED
      BY <3>1
  <2>2. g1[{}] = r /\ g2[{}] = r
    BY <1>p, <1>q
  <2> QED
    BY <2>1, <2>2 DEF AgreeUpTo
<1>4. AgreeUpTo(g2, g3, T, 1)
  <2> HIDE DEF T
  <2>1. 0 + 1 = 1 /\ 0 \in Nat
    OBVIOUS
  <2> QED
    BY <1>2, <1>3, <1>q, <2>1
<1>5. AgreeUpTo(g3, g4, T, 2)
  <2> HIDE DEF T
  <2>1. 1 + 1 = 2 /\ 1 \in Nat
    OBVIOUS
  <2> QED
    BY <1>2, <1>4, <1>q, <2>1
<1>6. AgreeUpTo(g4, g5, T, 3)
  <2> HIDE DEF T
  <2>1. 2 + 1 = 3 /\ 2 \in Nat
    OBVIOUS
  <2> QED
    BY <1>2, <1>5, <1>q, <2>1
<1>7. AgreeUpTo(g5, g6, T, 4)
  <2> HIDE DEF T
  <2>1. 3 + 1 = 4 /\ 3 \in Nat
    OBVIOUS
  <2> QED
    BY <1>2, <1>6, <1>q, <2>1
<1>8. \A u \in SUBSET T : Cardinality(u) =< 4
  <2>1. \A u \in SUBSET T : Cardinality(u) \in Nat /\ Cardinality(u) =< n
    BY <1>1, PlacesAreFinite
  <2>2. n \in Nat /\ n =< 4
    BY <1>1
  <2> QED
    BY <2>1, <2>2
<1>9. g5 = g6
  <2>1. g5 = [u \in SUBSET T |-> g5[u]] /\ g6 = [u \in SUBSET T |-> g6[u]]
    BY <1>p, <1>q
  <2>2. \A u \in SUBSET T : g5[u] = g6[u]
    BY <1>7, <1>8 DEF AgreeUpTo
  <2> HIDE DEF T
  <2> QED
    BY <2>1, <2>2
<1> QED
  BY <1>9, <1>q DEF Following

\* The readers before, between and after the extractions.
Extracts4(h, r, types) ==
  h[0] = r /\ \A k \in 1 .. Len(types) : h[k] = Extract(h[k - 1], types[k])

LEMMA FoldExtracts ==
  ASSUME NEW S, NEW types \in Seq(S), Len(types) <= 4, NEW r
  PROVE  \E h : Extracts4(h, r, types) /\ FoldLeft(Extract, r, types) = h[Len(types)]
<1> DEFINE n == Len(types)
           T == 1 .. n
           Body(g) == [u \in SUBSET T |->
                         IF u = {} THEN r ELSE Extract(g[u \ {Max(u)}], types[Max(u)])]
           iter == CHOOSE g : g = Body(g)
           h == [k \in 0 .. n |-> iter[1 .. k]]
<1>1. FoldLeft(Extract, r, types) = iter[T]
  <2>1. DOMAIN types = T
    OBVIOUS
  <2> QED
    BY <2>1, Zenon DEF FoldLeft, MapThenFoldSet
<1>2. n \in 0 .. 4 /\ n \in Nat
  <2>1. n \in Nat /\ n <= 4
    BY LenProperties
  <2> HIDE DEF n
  <2> QED
    BY <2>1
<1>3. PICK g : g = Body(g)
  <2>1. PICK g : g = Round(g, 1 .. n, r, types)
    BY <1>2, RoundsSettle
  <2>2. Round(g, 1 .. n, r, types) = Body(g)
    BY Zenon DEF Round
  <2> QED
    BY <2>1, <2>2
<1>4. iter = Body(iter)
  BY <1>3, Zenon
<1> HIDE DEF iter
<1>5. iter[{}] = r
  BY <1>4
<1>6. ASSUME NEW k \in 1 .. n
      PROVE  iter[1 .. k] = Extract(iter[1 .. (k - 1)], types[k])
  <2>1. 1 .. k \in SUBSET T /\ 1 .. k # {} /\ Max(1 .. k) = k
    <3>1. k \in 1 .. k /\ \A x \in 1 .. k : x <= k
      BY <1>2
    <3>2. Max(1 .. k) \in 1 .. k /\ \A x \in 1 .. k : x <= Max(1 .. k)
      <4>1. 1 .. k \in SUBSET Nat /\ k \in Nat
        BY <1>2
      <4> QED
        BY <3>1, <4>1, MaxOf
    <3> DEFINE m == Max(1 .. k)
    <3> HIDE DEF m
    <3>3. m \in 1 .. k /\ k <= m
      BY <3>1, <3>2 DEF m
    <3>4. m = k
      BY <3>3
    <3>5. 1 .. k \in SUBSET T
      BY <1>2
    <3>6. 1 .. k # {}
      BY <3>1
    <3> QED
      BY <3>4, <3>5, <3>6 DEF m
  <2>2. (1 .. k) \ {k} = 1 .. (k - 1)
    BY <1>2
  <2>3. iter[1 .. k] = Extract(iter[(1 .. k) \ {Max(1 .. k)}], types[Max(1 .. k)])
    BY <1>4, <2>1
  <2> QED
    BY <2>1, <2>2, <2>3
<1>7. 1 .. 0 = {} /\ 0 \in 0 .. n /\ n \in 0 .. n
      /\ \A k \in 1 .. n : k \in 0 .. n /\ k - 1 \in 0 .. n
  BY <1>2
<1>8. h[0] = r
  BY <1>5, <1>7
<1>9. ASSUME NEW k \in 1 .. n
      PROVE  h[k] = Extract(h[k - 1], types[k])
  BY <1>6, <1>7
<1>10. h[n] = iter[T]
  BY <1>7
<1> HIDE DEF h, Body
<1> QED
  BY <1>1, <1>8, <1>9, <1>10 DEF Extracts4

-----------------------------------------------------------------------------
(* Whatever a line of a command says, its arguments fit their types. *)

Types == {"string", "int", "uint64", "double"}

HasType(type, v) ==
  /\ type = "int" => v \in Int32
  /\ type = "uint64" => v \in UInt64
  /\ type = "double" => v \in Int

IsInput(s) == s \in Seq(Range(s)) /\ \A token \in Range(s) : IsToken(token)

\* What a reader holds after k extractions.
Sound(rd, types, k) ==
  /\ rd = [in |-> rd.in, out |-> rd.out, ok |-> rd.ok]
  /\ rd.ok \in BOOLEAN
  /\ rd.ok => /\ IsInput(rd.in)
              /\ rd.out \in Seq(Range(rd.out)) /\ Len(rd.out) = k
              /\ \A i \in 1 .. k : HasType(types[i], rd.out[i])

LEMMA RangeFacts ==
  ASSUME NEW S, NEW s \in Seq(S)
  PROVE  /\ s \in Seq(Range(s)) /\ Range(s) \subseteq S
         /\ \A x \in Range(s) : \E i \in 1 .. Len(s) : x = s[i]
<1>1. s \in [1 .. Len(s) -> S] /\ DOMAIN s = 1 .. Len(s) /\ Len(s) \in Nat
  OBVIOUS
<1>2. Range(s) = {s[i] : i \in 1 .. Len(s)}
  BY <1>1 DEF Range
<1>3. s \in [1 .. Len(s) -> Range(s)]
  BY <1>1, <1>2
<1>4. s \in Seq(Range(s))
  BY <1>1, <1>3
<1> QED
  BY <1>1, <1>2, <1>4

LEMMA TailInput ==
  ASSUME NEW s, IsInput(s), s # <<>>
  PROVE  IsInput(Tail(s)) /\ IsToken(Head(s))
<1> DEFINE S == Range(s)
<1>1. s \in Seq(S) /\ \A token \in S : IsToken(token)
  BY DEF IsInput
<1> HIDE DEF S
<1>2. Head(s) \in S /\ Tail(s) \in Seq(S)
  BY <1>1
<1>3. Range(Tail(s)) \subseteq S /\ Tail(s) \in Seq(Range(Tail(s)))
  BY <1>2, RangeFacts
<1> QED
  BY <1>1, <1>2, <1>3 DEF IsInput

LEMMA InputWith ==
  ASSUME NEW s, IsInput(s), NEW t, IsToken(t)
  PROVE  IsInput(<<t>> \o s)
<1> DEFINE S == Range(s) \cup {t}
           r == <<t>> \o s
<1>1. \A token \in S : IsToken(token)
  BY DEF IsInput
<1>2. s \in Seq(S)
  <2>1. s \in Seq(Range(s)) /\ Range(s) \subseteq S
    BY DEF IsInput
  <2> HIDE DEF S
  <2> QED
    BY <2>1
<1>3. <<t>> \in Seq(S)
  OBVIOUS
<1> HIDE DEF S
<1>4. r \in Seq(S)
  BY <1>2, <1>3
<1> HIDE DEF r
<1>5. Range(r) \subseteq S /\ r \in Seq(Range(r))
  BY <1>4, RangeFacts
<1> QED
  BY <1>1, <1>5 DEF IsInput, r

\* The rest of a token is a token.
LEMMA PartIsToken ==
  ASSUME NEW t, IsToken(t), NEW s \in Seq(Range(t)), s # <<>>
  PROVE  IsToken(s)
<1>1. Range(s) \subseteq Range(t) /\ s \in Seq(Range(s))
  BY RangeFacts
<1> QED
  BY <1>1 DEF IsToken

LEMMA LeftIsToken ==
  ASSUME NEW t, IsToken(t), NEW type
  PROVE  Left(type, t) = <<>> \/ IsToken(Left(type, t))
<1> DEFINE S == Range(t)
<1>1. t \in Seq(S) /\ t # <<>>
  BY DEF IsToken
<1>2. Left(type, t) \in {<<>>, SubSeq(t, 3, Len(t)), Tail(t)}
  BY DEF Left
<1> HIDE DEF S
<1>3. Tail(t) \in Seq(S)
  BY <1>1
<1>4. SubSeq(t, 3, Len(t)) \in Seq(S)
  <2>1. \A i \in 3 .. Len(t) : t[i] \in S
    BY <1>1
  <2>2. Len(t) \in Int
    BY <1>1
  <2> QED
    BY <2>1, <2>2, SubSeqProperties
<1>5. Left(type, t) = <<>> \/ Left(type, t) \in Seq(S)
  BY <1>2, <1>3, <1>4
<1> QED
  BY <1>5, PartIsToken DEF S

LEMMA ValueFits ==
  ASSUME NEW t, IsToken(t), NEW type \in Types, Extracts(type, t)
  PROVE  HasType(type, Value(type, t))
<1> DEFINE p == Head(t)
<1>1. IsPiece(p)
  <2>1. t \in Seq(Range(t)) /\ t # <<>>
    BY DEF IsToken
  <2>2. Head(t) \in Range(t)
    BY <2>1
  <2> QED
    BY <2>2 DEF IsToken
<1>2. p.kind = "int" => p.val \in Int
  BY <1>1 DEF IsPiece, Half
<1> HIDE DEF p
<1>3. CASE type = "string"
  BY <1>3 DEF HasType
<1>4. CASE type = "int"
  <2>1. p.val \in Int32
    BY <1>4 DEF Extracts, p
  <2> QED
    BY <1>4, <2>1 DEF HasType, Value, p
<1>5. CASE type = "uint64"
  <2>1. p.val \in Int
    BY <1>2, <1>5 DEF Extracts, p
  <2>2. p.val % IdModulus \in UInt64
    BY <2>1, ParserAssumption DEF UInt64
  <2>3. Value(type, t) = p.val % IdModulus
    BY <1>5 DEF Value, p
  <2> QED
    BY <1>5, <2>2, <2>3 DEF HasType
<1>6. CASE type = "double"
  <2>1. p.kind \in {"int", "half"}
    BY <1>6 DEF Extracts, p
  <2>2. p = Half \/ p.val \in Int
    BY <1>1, <2>1 DEF IsPiece
  <2>3. InHalves(t) \in Int
    BY <2>2 DEF InHalves, p
  <2> QED
    BY <1>6, <2>3 DEF HasType, Value
<1> QED
  BY <1>3, <1>4, <1>5, <1>6 DEF Types

LEMMA ExtractSound ==
  ASSUME NEW types, NEW k \in Nat \ {0}, types[k] \in Types,
         NEW rd, Sound(rd, types, k - 1)
  PROVE  Sound(Extract(rd, types[k]), types, k)
<1> DEFINE type == types[k]
           t == Head(rd.in)
           left == Left(type, t)
           next == Extract(rd, type)
<1>1. CASE ~rd.ok \/ rd.in = <<>> \/ ~Extracts(type, t)
  <2>1. next = [rd EXCEPT !.ok = FALSE]
    BY <1>1 DEF Extract
  <2>2. rd = [in |-> rd.in, out |-> rd.out, ok |-> rd.ok]
    BY DEF Sound
  <2>3. next = [in |-> rd.in, out |-> rd.out, ok |-> FALSE]
    BY <2>1, <2>2
  <2> HIDE DEF next
  <2> QED
    BY <2>3 DEF Sound, next
<1>2. CASE rd.ok /\ rd.in # <<>> /\ Extracts(type, t)
  <2> DEFINE v == Value(type, t)
             rest == IF left = <<>> THEN Tail(rd.in) ELSE <<left>> \o Tail(rd.in)
             o == rd.out
  <2>1. next = [ok |-> TRUE, out |-> Append(o, v), in |-> rest]
    BY <1>2 DEF Extract
  <2>2. IsInput(rd.in) /\ o \in Seq(Range(o)) /\ Len(o) = k - 1
        /\ \A i \in 1 .. (k - 1) : HasType(types[i], o[i])
    BY <1>2 DEF Sound
  <2>3. IsInput(Tail(rd.in)) /\ IsToken(t)
    BY <1>2, <2>2, TailInput
  <2>4. left = <<>> \/ IsToken(left)
    BY <2>3, LeftIsToken
  <2>5. IsInput(rest)
    BY <2>3, <2>4, InputWith
  <2>6. HasType(type, v)
    BY <1>2, <2>3, ValueFits
  <2> HIDE DEF t, left, v, rest, o
  <2> DEFINE S == Range(o) \cup {v}
             a == Append(o, v)
  <2>7. o \in Seq(S) /\ v \in S
    <3>1. Range(o) \subseteq S
      OBVIOUS
    <3> HIDE DEF S
    <3> QED
      BY <2>2, <3>1 DEF S
  <2> HIDE DEF S
  <2>8. a \in Seq(S) /\ Len(a) = k /\ a[k] = v /\ \A i \in 1 .. (k - 1) : a[i] = o[i]
    BY <2>2, <2>7, AppendProperties
  <2> HIDE DEF a
  <2>9. a \in Seq(Range(a))
    BY <2>8, RangeFacts
  <2>10. \A i \in 1 .. k : HasType(types[i], a[i])
    <3> TAKE i \in 1 .. k
    <3>1. CASE i = k
      BY <2>6, <2>8, <3>1
    <3>2. CASE i # k
      <4>1. i \in 1 .. (k - 1)
        BY <3>2
      <4> QED
        BY <2>2, <2>8, <4>1
    <3> QED
      BY <3>1, <3>2
  <2>11. next = [ok |-> TRUE, out |-> a, in |-> rest]
    BY <2>1 DEF a
  <2> HIDE DEF next
  <2>12. next.in = rest /\ next.out = a /\ next.ok = TRUE
         /\ next = [in |-> next.in, out |-> next.out, ok |-> next.ok]
    BY <2>11
  <2> QED
    BY <2>5, <2>8, <2>9, <2>10, <2>12 DEF Sound, next
<1> QED
  BY <1>1, <1>2, Zenon DEF Sound

Start(l) == [in |-> Tail(l), out |-> <<>>, ok |-> TRUE]

Fits(types) ==
  /\ types \in Seq(Types) /\ Len(types) <= 4
  /\ \A k \in 1 .. Len(types) : types[k] \in Types

LEMMA ArgumentsFacts ==
  ASSUME NEW name \in DOMAIN Arguments
  PROVE  /\ name \in {"BUY", "SELL", "CANCEL", "MODIFY", "BOOK", "STATS"}
         /\ Arguments[name] \in Seq(Types) /\ Len(Arguments[name]) <= 4
         /\ \A k \in 1 .. Len(Arguments[name]) : Arguments[name][k] \in Types
<1>1. name \in {"BUY", "SELL", "CANCEL", "MODIFY", "BOOK", "STATS"}
  BY DEF Arguments
<1>2. /\ Arguments["BUY"] = <<"string", "int", "double">>
      /\ Arguments["SELL"] = <<"string", "int", "double">>
      /\ Arguments["CANCEL"] = <<"uint64">>
      /\ Arguments["MODIFY"] = <<"uint64", "string", "int", "double">>
      /\ Arguments["BOOK"] = <<"string">>
      /\ Arguments["STATS"] = <<>>
  BY DEF Arguments, IdType
<1>3. ASSUME NEW a \in Types, NEW b \in Types, NEW c \in Types, NEW d \in Types
      PROVE  /\ Fits(<<>>) /\ Fits(<<a>>) /\ Fits(<<a, b, c>>) /\ Fits(<<a, b, c, d>>)
  <2>2. 1 .. 0 = {} /\ 1 .. 1 = {1} /\ 1 .. 3 = {1, 2, 3} /\ 1 .. 4 = {1, 2, 3, 4}
    OBVIOUS
  <2> HIDE DEF Types
  <2>3. Fits(<<>>)
    BY <2>2 DEF Fits
  <2>4. Fits(<<a>>)
    <3> DEFINE t == <<a>>
    <3>1. t \in Seq(Types) /\ Len(t) = 1 /\ t[1] = a
      OBVIOUS
    <3> HIDE DEF t
    <3> QED
      BY <2>2, <3>1 DEF Fits
  <2>5. Fits(<<a, b, c>>)
    <3> DEFINE t == <<a, b, c>>
    <3>1. t \in Seq(Types) /\ Len(t) = 3 /\ t[1] = a /\ t[2] = b /\ t[3] = c
      OBVIOUS
    <3> HIDE DEF t
    <3> QED
      BY <2>2, <3>1 DEF Fits
  <2>6. Fits(<<a, b, c, d>>)
    <3> DEFINE t == <<a, b, c, d>>
    <3>1. t \in Seq(Types) /\ Len(t) = 4 /\ t[1] = a /\ t[2] = b /\ t[3] = c /\ t[4] = d
      OBVIOUS
    <3> HIDE DEF t
    <3> QED
      BY <2>2, <3>1 DEF Fits
  <2> QED
    BY <2>3, <2>4, <2>5, <2>6
<1>4. \A type \in {"string", "int", "uint64", "double"} : type \in Types
  BY DEF Types
<1>5. Fits(Arguments[name])
  BY <1>1, <1>2, <1>3, <1>4
<1> QED
  BY <1>1, <1>5 DEF Fits

LEMMA KnownFacts ==
  ASSUME NEW l \in Lines, Known(l)
  PROVE  /\ Name(l) \in DOMAIN Arguments /\ IsInput(l) /\ l # <<>>
         /\ IsInput(Tail(l))
<1>1. PICK name \in DOMAIN Arguments : Head(l) = <<Word(name)>>
  BY DEF Known
<1>2. Name(l) = name
  BY <1>1 DEF Name, Word
<1>3. IsInput(l) /\ l # <<>>
  BY ParserAssumption DEF IsInput, Known
<1> QED
  BY <1>1, <1>2, <1>3, TailInput

LEMMA ExtractedFits ==
  ASSUME NEW l \in Lines, Known(l)
  PROVE  Sound(Extracted(l), Arguments[Name(l)], Len(Arguments[Name(l)]))
<1> DEFINE types == Arguments[Name(l)]
           n == Len(types)
<1>1. /\ types \in Seq(Types) /\ n <= 4 /\ n \in Nat
      /\ \A k \in 1 .. n : types[k] \in Types
  BY KnownFacts, ArgumentsFacts
<1> HIDE DEF types
<1>2. PICK h : Extracts4(h, Start(l), types)
               /\ FoldLeft(Extract, Start(l), types) = h[n]
  BY <1>1, FoldExtracts
<1>3. Extracted(l) = h[n]
  BY <1>2 DEF Extracted, Start, types
<1> HIDE DEF n
<1>4. Sound(h[0], types, 0)
  <2>1. h[0] = Start(l)
    BY <1>2 DEF Extracts4
  <2>2. IsInput(Tail(l))
    BY KnownFacts
  <2>3. Range(<<>>) = {} /\ <<>> \in Seq({}) /\ Len(<<>>) = 0 /\ 1 .. 0 = {}
    BY DEF Range
  <2> QED
    BY <2>1, <2>2, <2>3 DEF Sound, Start
<1> DEFINE Bad == {k \in 0 .. n : ~Sound(h[k], types, k)}
<1>5. ASSUME Bad # {}
      PROVE  FALSE
  <2>1. PICK k \in Bad : \A j \in Bad : k =< j
    <3>1. Bad \in SUBSET Nat
      OBVIOUS
    <3> QED
      BY <1>5, <3>1, Least
  <2>2. k \in 0 .. n /\ ~Sound(h[k], types, k) /\ k # 0
    BY <1>4
  <2>3. k \in 1 .. n /\ k - 1 \in 0 .. n /\ ~(k =< k - 1) /\ k \in Nat \ {0}
    BY <1>1, <2>2
  <2>4. Sound(h[k - 1], types, k - 1)
    BY <2>1, <2>3
  <2> HIDE DEF Bad
  <2>5. h[k] = Extract(h[k - 1], types[k])
    BY <1>2, <2>3 DEF Extracts4, n
  <2>6. types[k] \in Types
    BY <1>1, <2>3
  <2>7. Sound(Extract(h[k - 1], types[k]), types, k)
    BY <2>3, <2>4, <2>6, ExtractSound
  <2> QED
    BY <2>2, <2>5, <2>7
<1>6. n \in 0 .. n
  BY <1>1
<1>7. Sound(h[n], types, n)
  BY <1>5, <1>6
<1> QED
  BY <1>3, <1>7 DEF n, types

-----------------------------------------------------------------------------
(* What a line of a supported format yields, token by token. *)

LEMMA ArgumentsRead ==
  ASSUME NEW S, NEW types \in Seq(S), NEW r
  PROVE  LET all == FoldLeft(Extract, r, types)
             one == Extract(r, types[1])
             three == Extract(Extract(one, types[2]), types[3])
         IN  /\ Len(types) = 0 => all = r
             /\ Len(types) = 1 => all = one
             /\ Len(types) = 3 => all = three
             /\ Len(types) = 4 => all = Extract(three, types[4])
<1> DEFINE all == FoldLeft(Extract, r, types)
           one == Extract(r, types[1])
           three == Extract(Extract(one, types[2]), types[3])
<1>1. CASE Len(types) \in {0, 1, 3, 4}
  <2>1. Len(types) <= 4
    <3> DEFINE n == Len(types)
    <3>1. n \in {0, 1, 3, 4}
      BY <1>1
    <3> HIDE DEF n
    <3>2. n <= 4
      BY <3>1
    <3> QED
      BY <3>2 DEF n
  <2>2. PICK h : Extracts4(h, r, types) /\ all = h[Len(types)]
    BY <2>1, FoldExtracts
  <2> HIDE DEF all
  <2> DEFINE n == Len(types)
  <2>3. n \in Nat /\ h[0] = r /\ all = h[n]
        /\ \A k \in 1 .. n : h[k] = Extract(h[k - 1], types[k])
    BY <2>2 DEF Extracts4
  <2> HIDE DEF n
  <2>4. /\ n >= 1 => h[1] = Extract(h[0], types[1])
        /\ n >= 2 => h[2] = Extract(h[1], types[2])
        /\ n >= 3 => h[3] = Extract(h[2], types[3])
        /\ n >= 4 => h[4] = Extract(h[3], types[4])
    BY <2>3
  <2>5. /\ n = 0 => all = r
        /\ n = 1 => all = one
        /\ n = 3 => all = three
        /\ n = 4 => all = Extract(three, types[4])
    BY <2>3, <2>4
  <2> QED
    BY <2>5 DEF n, all
<1>2. CASE Len(types) \notin {0, 1, 3, 4}
  BY <1>2
<1> QED
  BY <1>1, <1>2

\* An extraction that uses the whole of the first token.
LEMMA TakeToken ==
  ASSUME NEW s, s # <<>>, NEW o, NEW type,
         Extracts(type, Head(s)), Left(type, Head(s)) = <<>>
  PROVE  Extract([in |-> s, out |-> o, ok |-> TRUE], type) =
           [in |-> Tail(s), out |-> Append(o, Value(type, Head(s))), ok |-> TRUE]
BY DEF Extract

LEMMA SymbolRead ==
  ASSUME NEW t, IsToken(t), IsSymbol(t)
  PROVE  Extracts("string", t) /\ Left("string", t) = <<>> /\ Value("string", t) = t
BY DEF Extracts, Left, Value

LEMMA NoElements ==
  ASSUME NEW S, NEW s \in Seq(S), Len(s) = 0
  PROVE  s = <<>>
OBVIOUS

LEMMA TokenFacts ==
  ASSUME NEW t, IsToken(t)
  PROVE  /\ Head(t) = t[1] /\ IsPiece(t[1]) /\ Len(t) \in Nat /\ Len(t) >= 1
         /\ t \in Seq(Range(t)) /\ Tail(t) \in Seq(Range(t))
         /\ Len(Tail(t)) = Len(t) - 1
         /\ \A i \in 1 .. Len(t) - 1 : Tail(t)[i] = t[i + 1]
<1> DEFINE S == Range(t)
<1>1. t \in Seq(S) /\ t # <<>> /\ \A p \in S : IsPiece(p)
  BY DEF IsToken
<1> HIDE DEF S
<1>2. Head(t) = t[1] /\ Len(t) \in Nat /\ Len(t) >= 1 /\ t[1] \in S
  BY <1>1
<1>3. Tail(t) \in Seq(S) /\ Len(Tail(t)) = Len(t) - 1
      /\ \A i \in 1 .. Len(t) - 1 : Tail(t)[i] = t[i + 1]
  BY <1>1
<1> QED
  BY <1>1, <1>2, <1>3 DEF S

LEMMA NothingLeft ==
  ASSUME NEW t, IsToken(t), Len(t) = 1
  PROVE  Tail(t) = <<>>
<1> DEFINE s == Tail(t)
<1>1. Len(s) = 0 /\ s \in Seq(Range(t))
  BY TokenFacts
<1> HIDE DEF s
<1>2. s = <<>>
  BY <1>1, NoElements
<1> QED
  BY <1>2 DEF s

LEMMA WholeRead ==
  ASSUME NEW t, IsToken(t)
  PROVE  /\ IsWhole(t, Int32) => /\ Extracts("int", t) /\ Left("int", t) = <<>>
                                 /\ Value("int", t) = t[1].val
         /\ IsWhole(t, UInt64) => /\ Extracts("uint64", t) /\ Left("uint64", t) = <<>>
                                  /\ Value("uint64", t) = t[1].val
<1>1. Head(t) = t[1]
  BY TokenFacts
<1>2. ASSUME IsWhole(t, Int32)
      PROVE  Extracts("int", t) /\ Left("int", t) = <<>> /\ Value("int", t) = t[1].val
  <2>1. Len(t) = 1 /\ t[1].kind = "int" /\ t[1].val \in Int32
    BY <1>1, <1>2 DEF IsWhole
  <2>2. Tail(t) = <<>>
    BY <2>1, NothingLeft
  <2> QED
    BY <1>1, <2>1, <2>2 DEF Extracts, Left, Value
<1>3. ASSUME IsWhole(t, UInt64)
      PROVE  Extracts("uint64", t) /\ Left("uint64", t) = <<>> /\ Value("uint64", t) = t[1].val
  <2>1. Len(t) = 1 /\ t[1].kind = "int" /\ t[1].val \in UInt64
    BY <1>1, <1>3 DEF IsWhole
  <2>2. Tail(t) = <<>>
    BY <2>1, NothingLeft
  <2>3. t[1].val % IdModulus = t[1].val
    BY <2>1, ParserAssumption DEF UInt64
  <2> QED
    BY <1>1, <2>1, <2>2, <2>3 DEF Extracts, Left, Value
<1> QED
  BY <1>2, <1>3

LEMMA PriceRead ==
  ASSUME NEW t, IsToken(t), IsPrice(t)
  PROVE  /\ Extracts("double", t) /\ Left("double", t) = <<>>
         /\ Value("double", t) = InHalves(t)
<1>1. Value("double", t) = InHalves(t)
  BY DEF Value
<1>2. CASE t = <<Half>>
  <2>1. Head(t) = Half /\ Tail(t) = <<>>
    BY <1>2
  <2>2. Head(t).kind = "half"
    BY <2>1 DEF Half
  <2> QED
    BY <1>1, <2>1, <2>2 DEF Extracts, Left
<1>3. CASE Head(t).kind = "int" /\ Tail(t) = <<>>
  <2>1. Len(t) = 1
    <3>1. Len(<<>>) = 0
      OBVIOUS
    <3>2. Len(Tail(t)) = 0
      BY <1>3, <3>1
    <3> QED
      BY <3>2, TokenFacts
  <2>2. ~HasFraction(t)
    BY <2>1 DEF HasFraction
  <2> QED
    BY <1>1, <1>3, <2>2 DEF Extracts, Left
<1>4. CASE Head(t).kind = "int" /\ Tail(t) = <<Half>>
  <2>1. Len(t) = 2 /\ t[2] = Half
    <3>1. Len(<<Half>>) = 1 /\ <<Half>>[1] = Half
      OBVIOUS
    <3>2. Len(Tail(t)) = 1 /\ Tail(t)[1] = Half
      BY <1>4, <3>1
    <3> QED
      BY <3>2, TokenFacts
  <2>2. HasFraction(t)
    BY <2>1 DEF HasFraction
  <2>3. SubSeq(t, 3, Len(t)) = <<>>
    <3>1. Len(SubSeq(t, 3, 2)) = 0 /\ SubSeq(t, 3, 2) \in Seq(Range(t))
      BY TokenFacts, <2>1, SubSeqProperties
    <3> QED
      BY <2>1, <3>1
  <2> QED
    BY <1>1, <1>4, <2>2, <2>3 DEF Extracts, Left
<1> QED
  BY <1>2, <1>3, <1>4 DEF IsPrice

LEMMA InputFacts ==
  ASSUME NEW s, IsInput(s)
  PROVE  /\ Len(s) \in Nat /\ \A i \in 1 .. Len(s) : IsToken(s[i])
         /\ s = <<>> <=> Len(s) = 0
         /\ Len(s) > 0 => /\ Head(s) = s[1] /\ IsInput(Tail(s))
                          /\ Len(Tail(s)) = Len(s) - 1
                          /\ \A i \in 1 .. Len(s) - 1 : Tail(s)[i] = s[i + 1]
<1> DEFINE S == Range(s)
<1>1. s \in Seq(S) /\ \A token \in S : IsToken(token)
  BY DEF IsInput
<1> HIDE DEF S
<1>2. Len(s) \in Nat /\ \A i \in 1 .. Len(s) : s[i] \in S
  BY <1>1
<1>3. s = <<>> <=> Len(s) = 0
  BY <1>1
<1>4. ASSUME Len(s) > 0
      PROVE  /\ Head(s) = s[1] /\ Len(Tail(s)) = Len(s) - 1
             /\ \A i \in 1 .. Len(s) - 1 : Tail(s)[i] = s[i + 1]
  BY <1>1, <1>3, <1>4
<1>5. Len(s) > 0 => IsInput(Tail(s))
  BY <1>3, TailInput
<1> QED
  BY <1>1, <1>2, <1>3, <1>4, <1>5

LEMMA AfterName ==
  ASSUME NEW s, IsInput(s), s # <<>>, NEW t, t = Tail(s)
  PROVE  /\ IsInput(t) /\ Len(t) \in Nat /\ Len(s) = Len(t) + 1
         /\ t = <<>> <=> Len(t) = 0
         /\ Len(t) >= 1 => t[1] = s[2] /\ IsToken(t[1]) /\ Head(t) = t[1]
         /\ Len(t) >= 2 => t[2] = s[3]
         /\ Len(t) >= 3 => t[3] = s[4]
         /\ Len(t) >= 4 => t[4] = s[5]
<1>1. Len(s) \in Nat /\ Len(s) > 0
  BY InputFacts
<1>2. /\ IsInput(t) /\ Len(t) = Len(s) - 1
      /\ \A i \in 1 .. Len(s) - 1 : t[i] = s[i + 1]
  BY <1>1, InputFacts
<1>3. Len(t) \in Nat /\ Len(s) = Len(t) + 1
  BY <1>1, <1>2
<1>4. /\ t = <<>> <=> Len(t) = 0
      /\ Len(t) > 0 => Head(t) = t[1]
      /\ \A i \in 1 .. Len(t) : IsToken(t[i])
  BY <1>2, InputFacts
<1> DEFINE n == Len(t)
<1>5. \A i \in 1 .. n : t[i] = s[i + 1]
  BY <1>2, <1>3
<1> HIDE DEF n
<1>6. /\ n >= 1 => t[1] = s[1 + 1] /\ IsToken(t[1])
      /\ n >= 2 => t[2] = s[2 + 1]
      /\ n >= 3 => t[3] = s[3 + 1]
      /\ n >= 4 => t[4] = s[4 + 1]
  <2>1. n \in Nat
    BY <1>3 DEF n
  <2>2. /\ n >= 1 => 1 \in 1 .. n
        /\ n >= 2 => 2 \in 1 .. n
        /\ n >= 3 => 3 \in 1 .. n
        /\ n >= 4 => 4 \in 1 .. n
    BY <2>1
  <2>3. \A i \in 1 .. n : IsToken(t[i])
    BY <1>4 DEF n
  <2> QED
    BY <1>5, <2>2, <2>3, Zenon
<1>7. n >= 1 => Head(t) = t[1]
  BY <1>3, <1>4 DEF n
<1> QED
  BY <1>2, <1>3, <1>4, <1>6, <1>7 DEF n

LEMMA OneLess ==
  ASSUME NEW n \in Nat
  PROVE  /\ 3 = n + 1 => n = 2 /\ n >= 1 /\ n >= 2 /\ ~ (n = 0)
         /\ 2 = n + 1 => n = 1 /\ n >= 1 /\ ~ (n = 0)
OBVIOUS

\* Symbol, quantity and price of an order.
LEMMA OrderRead ==
  ASSUME NEW s, IsInput(s), IsOrder(s), NEW o
  PROVE  Extract(Extract(Extract([in |-> s, out |-> o, ok |-> TRUE],
                                 "string"), "int"), "double") =
           [in |-> <<>>,
            out |-> Append(Append(Append(o, s[1]), s[2][1].val), InHalves(s[3])),
            ok |-> TRUE]
<1> DEFINE s1 == Tail(s)
           s2 == Tail(s1)
           s3 == Tail(s2)
<1>1. Len(s) = 3 /\ IsSymbol(s[1]) /\ IsWhole(s[2], Int32) /\ IsPrice(s[3])
  BY DEF IsOrder
<1>2. /\ s # <<>> /\ Head(s) = s[1]
      /\ IsToken(s[1]) /\ IsToken(s[2]) /\ IsToken(s[3])
  <2>1. 1 \in 1 .. 3 /\ 2 \in 1 .. 3 /\ 3 \in 1 .. 3 /\ 3 > 0 /\ ~ (3 = 0)
    OBVIOUS
  <2>2. /\ \A i \in 1 .. 3 : IsToken(s[i])
        /\ s = <<>> <=> 3 = 0
        /\ 3 > 0 => Head(s) = s[1]
    BY <1>1, InputFacts
  <2> QED
    BY <2>1, <2>2
<1> HIDE DEF s1, s2, s3
<1>3. /\ IsInput(s1) /\ Len(s1) = 2 /\ s1 # <<>>
      /\ Head(s1) = s[2] /\ s1[2] = s[3]
  <2>1. IsInput(s1) /\ Len(s1) \in Nat /\ 3 = Len(s1) + 1
        /\ (s1 = <<>> <=> Len(s1) = 0)
        /\ (Len(s1) >= 1 => s1[1] = s[2] /\ Head(s1) = s1[1])
        /\ (Len(s1) >= 2 => s1[2] = s[3])
    BY <1>1, <1>2, AfterName DEF s1
  <2>2. Len(s1) = 2 /\ Len(s1) >= 1 /\ Len(s1) >= 2 /\ ~ (Len(s1) = 0)
    BY <2>1, OneLess
  <2> QED
    BY <2>1, <2>2, Zenon
<1>4. IsInput(s2) /\ Len(s2) = 1 /\ s2 # <<>> /\ Head(s2) = s[3]
  <2>1. IsInput(s2) /\ Len(s2) \in Nat /\ 2 = Len(s2) + 1
        /\ (s2 = <<>> <=> Len(s2) = 0)
        /\ (Len(s2) >= 1 => s2[1] = s1[2] /\ Head(s2) = s2[1])
    BY <1>3, AfterName DEF s2
  <2>2. Len(s2) = 1 /\ Len(s2) >= 1 /\ ~ (Len(s2) = 0)
    BY <2>1, OneLess
  <2> QED
    BY <1>3, <2>1, <2>2, Zenon
<1>5. s3 = <<>>
  <2>1. Len(s3) \in Nat /\ 1 = Len(s3) + 1 /\ (s3 = <<>> <=> Len(s3) = 0)
    BY <1>4, AfterName DEF s3
  <2> QED
    BY <2>1
<1>6. Extract([in |-> s, out |-> o, ok |-> TRUE], "string") =
        [in |-> s1, out |-> Append(o, s[1]), ok |-> TRUE]
  <2>1. Extracts("string", s[1]) /\ Left("string", s[1]) = <<>> /\ Value("string", s[1]) = s[1]
    BY <1>1, <1>2, SymbolRead
  <2> QED
    BY <1>2, <2>1, TakeToken DEF s1
<1>7. ASSUME NEW p
      PROVE  Extract([in |-> s1, out |-> p, ok |-> TRUE], "int") =
               [in |-> s2, out |-> Append(p, s[2][1].val), ok |-> TRUE]
  <2>1. Extracts("int", s[2]) /\ Left("int", s[2]) = <<>> /\ Value("int", s[2]) = s[2][1].val
    BY <1>1, <1>2, WholeRead
  <2> QED
    BY <1>3, <2>1, TakeToken DEF s2
<1>8. ASSUME NEW p
      PROVE  Extract([in |-> s2, out |-> p, ok |-> TRUE], "double") =
               [in |-> s3, out |-> Append(p, InHalves(s[3])), ok |-> TRUE]
  <2>1. /\ Extracts("double", s[3]) /\ Left("double", s[3]) = <<>>
        /\ Value("double", s[3]) = InHalves(s[3])
    BY <1>1, <1>2, PriceRead
  <2> QED
    BY <1>4, <2>1, TakeToken DEF s3
<1> QED
  BY <1>5, <1>6, <1>7, <1>8

LEMMA ThreeAppended ==
  ASSUME NEW S, NEW o \in Seq(S), NEW a \in S, NEW b \in S, NEW c \in S
  PROVE  LET v == Append(Append(Append(o, a), b), c)
         IN  /\ v[Len(o) + 1] = a /\ v[Len(o) + 2] = b /\ v[Len(o) + 3] = c
             /\ \A i \in 1 .. Len(o) : v[i] = o[i]
<1> DEFINE n == Len(o)
           p == Append(o, a)
           q == Append(p, b)
           v == Append(q, c)
<1>1. n \in Nat
  OBVIOUS
<1>2. p \in Seq(S) /\ Len(p) = n + 1 /\ p[n + 1] = a
      /\ \A i \in 1 .. n : p[i] = o[i]
  OBVIOUS
<1> HIDE DEF n, p
<1>3. q \in Seq(S) /\ Len(q) = n + 2 /\ q[n + 2] = b
      /\ \A i \in 1 .. n + 1 : q[i] = p[i]
  BY <1>1, <1>2
<1> HIDE DEF q
<1>4. v \in Seq(S) /\ Len(v) = n + 3 /\ v[n + 3] = c
      /\ \A i \in 1 .. n + 2 : v[i] = q[i]
  BY <1>1, <1>3
<1> HIDE DEF v
<1>5. v[n + 1] = a /\ v[n + 2] = b /\ \A i \in 1 .. n : v[i] = o[i]
  <2>1. n + 1 \in 1 .. n + 2 /\ n + 2 \in 1 .. n + 2 /\ n + 1 \in 1 .. n + 1
        /\ \A i \in 1 .. n : i \in 1 .. n + 1 /\ i \in 1 .. n + 2
    BY <1>1
  <2> QED
    BY <1>2, <1>3, <1>4, <2>1
<1> QED
  BY <1>4, <1>5 DEF n, p, q, v

-----------------------------------------------------------------------------
(* The parser's steps. *)

TypedCommand(command) ==
  /\ command.type \in {"NEW", "MODIFY", "CANCEL"} => command.orderId \in UInt64
  /\ command.type \in {"NEW", "MODIFY"} =>
       command.quantity \in Int32 /\ command.price \in Int

LEMMA BuiltTyped ==
  ASSUME NEW l \in Lines, WellFormed(l), nextOrderId \in 1 .. MaxOrders
  PROVE  LET command == Built(Name(l), Extracted(l).out)
         IN  /\ TypedCommand(command)
             /\ command.type = IF Name(l) \in {"BUY", "SELL"} THEN "NEW" ELSE Name(l)
             /\ command # NoCommand
             /\ command.type = "NEW" => command.orderId = nextOrderId
             /\ Name(l) \in {"BUY", "SELL", "CANCEL", "MODIFY", "BOOK", "STATS"}
<1> DEFINE name == Name(l)
           v == Extracted(l).out
           types == Arguments[name]
           command == Built(name, v)
<1>1. name \in {"BUY", "SELL", "CANCEL", "MODIFY", "BOOK", "STATS"}
  BY KnownFacts, ArgumentsFacts DEF WellFormed
<1>2. \A i \in 1 .. Len(types) : HasType(types[i], v[i])
  BY ExtractedFits DEF WellFormed, Sound
<1>3. nextOrderId \in UInt64
  BY ParserAssumption DEF UInt64
<1>4. command.type # "none" => command # NoCommand
  BY DEF NoCommand
<1>5. 1 .. 1 = {1} /\ 1 .. 3 = {1, 2, 3} /\ 1 .. 4 = {1, 2, 3, 4}
  OBVIOUS
<1>6. CASE name \in {"BUY", "SELL"}
  <2>1. Len(types) = 3 /\ types[2] = "int" /\ types[3] = "double"
    BY <1>6 DEF Arguments
  <2>2. v[2] \in Int32 /\ v[3] \in Int
    BY <1>2, <1>5, <2>1 DEF HasType
  <2> HIDE DEF v, types, name
  <2>3. command = [type |-> "NEW", side |-> name, orderId |-> nextOrderId,
                   symbol |-> SymbolOf(v[1]), quantity |-> v[2], price |-> v[3]]
    BY <1>6 DEF Built
  <2> HIDE DEF command
  <2> QED
    BY <1>1, <1>3, <1>4, <1>6, <2>2, <2>3 DEF TypedCommand, command, name, v
<1>7. CASE name = "CANCEL"
  <2>1. Len(types) = 1 /\ types[1] = "uint64"
    BY <1>7 DEF Arguments, IdType
  <2>2. v[1] \in UInt64
    BY <1>2, <1>5, <2>1 DEF HasType
  <2> HIDE DEF v, types, name
  <2>3. command = [type |-> name, orderId |-> v[1]]
    BY <1>7 DEF Built
  <2> HIDE DEF command
  <2> QED
    BY <1>1, <1>4, <1>7, <2>2, <2>3 DEF TypedCommand, command, name, v
<1>8. CASE name = "MODIFY"
  <2>1. Len(types) = 4 /\ types[1] = "uint64" /\ types[3] = "int" /\ types[4] = "double"
    BY <1>8 DEF Arguments, IdType
  <2>2. v[1] \in UInt64 /\ v[3] \in Int32 /\ v[4] \in Int
    BY <1>2, <1>5, <2>1 DEF HasType
  <2> HIDE DEF v, types, name
  <2>3. command = [type |-> name, orderId |-> v[1],
                   symbol |-> SymbolOf(v[2]), quantity |-> v[3], price |-> v[4]]
    BY <1>8 DEF Built
  <2> HIDE DEF command
  <2> QED
    BY <1>1, <1>4, <1>8, <2>2, <2>3 DEF TypedCommand, command, name, v
<1>9. CASE name \in {"BOOK", "STATS"}
  <2> HIDE DEF v, types, name
  <2>1. command.type = name
    BY <1>9 DEF Built
  <2> HIDE DEF command
  <2> QED
    BY <1>1, <1>4, <1>9, <2>1 DEF TypedCommand, command, name, v
<1> QED
  BY <1>1, <1>6, <1>7, <1>8, <1>9

(***************************************************************************)
(* The inductive invariant: besides the types, a line is taken on only     *)
(* while there is an id left to give, and a command waits only for the     *)
(* line it was built from.                                                 *)
(***************************************************************************)
ParserInv ==
  /\ line \in Lines \cup {NoLine}
  /\ nextOrderId \in 1 .. MaxOrders + 1
  /\ line # NoLine /\ pending = NoCommand => nextOrderId <= MaxOrders
  /\ pending # NoCommand => TypedCommand(pending)

LEMMA BuildFacts ==
  ASSUME ParserInv, Build
  PROVE  /\ line \in Lines /\ WellFormed(line) /\ nextOrderId \in 1 .. MaxOrders
         /\ pending' = Built(Name(line), Extracted(line).out)
         /\ nextOrderId' = nextOrderId + Takes(line) /\ line' = line
BY ParserAssumption DEF ParserInv, Build

LEMMA ParserInvInductive == ParserSpec => []ParserInv
<1>1. ParserInit => ParserInv
  BY ParserAssumption DEF ParserInit, ParserInv
<1>2. ParserInv /\ [ParserNext]_parserVars => ParserInv'
  <2> SUFFICES ASSUME ParserInv, [ParserNext]_parserVars
               PROVE  ParserInv'
    OBVIOUS
  <2>1. CASE Arrive
    BY <2>1 DEF Arrive, ParserInv
  <2>2. CASE Build
    <3> DEFINE command == Built(Name(line), Extracted(line).out)
    <3>1. /\ line \in Lines /\ WellFormed(line) /\ nextOrderId \in 1 .. MaxOrders
          /\ pending' = command
          /\ nextOrderId' = nextOrderId + Takes(line) /\ line' = line
      BY <2>2, BuildFacts
    <3>2. TypedCommand(command) /\ command # NoCommand
      BY <3>1, BuiltTyped
    <3>3. nextOrderId' \in 1 .. MaxOrders + 1
      BY <3>1, ParserAssumption DEF Takes
    <3>4. pending' # NoCommand /\ TypedCommand(pending')
      BY <3>1, <3>2
    <3> QED
      BY <3>1, <3>3, <3>4 DEF ParserInv, TypedCommand
  <2>3. CASE Malformed
    BY <2>3 DEF Malformed, ParserInv
  <2>4. CASE Push
    BY <2>4 DEF Push, ParserInv
  <2>5. CASE UNCHANGED parserVars
    BY <2>5 DEF parserVars, ParserInv
  <2> QED
    BY <2>1, <2>2, <2>3, <2>4, <2>5 DEF ParserNext
<1> QED
  BY <1>1, <1>2, PTL DEF ParserSpec

(***************************************************************************)
(* Whatever a line says, ids fit uint64_t and quantities int.              *)
(***************************************************************************)
THEOREM ParserTypes == ParserSpec => []ParserTypeOK
<1>1. ParserInv => ParserTypeOK
  <2> SUFFICES ASSUME ParserInv
               PROVE  ParserTypeOK
    OBVIOUS
  <2>1. ASSUME line # NoLine, NEW i \in DOMAIN line
        PROVE  line[i] # <<>>
    <3>1. line \in Lines
      BY <2>1 DEF ParserInv
    <3>2. IsInput(line)
      BY <3>1, ParserAssumption DEF IsInput
    <3>3. i \in 1 .. Len(line)
      BY <2>1, <3>2 DEF IsInput
    <3>4. IsToken(line[i])
      BY <3>2, <3>3, InputFacts
    <3> QED
      BY <3>4 DEF IsToken
  <2> QED
    BY <2>1 DEF ParserInv, ParserTypeOK, TypedCommand
<1> QED
  BY <1>1, ParserInvInductive, PTL

(***************************************************************************)
(* An id is used up by an accepted BUY or SELL, which carries it, and by   *)
(* nothing else.                                                           *)
(***************************************************************************)
THEOREM OnlyOrdersTakeIdsAlways == ParserSpec => OnlyOrdersTakeIds
<1> DEFINE Step ==
      pending = NoCommand =>
        nextOrderId' = IF pending' # NoCommand /\ pending'.type = "NEW"
                       THEN pending'.orderId + 1 ELSE nextOrderId
<1>1. ParserInv /\ [ParserNext]_parserVars => [Step]_parserVars
  <2> SUFFICES ASSUME ParserInv, ParserNext, pending = NoCommand
               PROVE  nextOrderId' = IF pending' # NoCommand /\ pending'.type = "NEW"
                                     THEN pending'.orderId + 1 ELSE nextOrderId
    OBVIOUS
  <2>1. CASE Build
    <3> DEFINE command == Built(Name(line), Extracted(line).out)
    <3>1. /\ line \in Lines /\ WellFormed(line) /\ nextOrderId \in 1 .. MaxOrders
          /\ pending' = command /\ nextOrderId' = nextOrderId + Takes(line)
      BY <2>1, BuildFacts
    <3>2. /\ command.type = IF Name(line) \in {"BUY", "SELL"} THEN "NEW" ELSE Name(line)
          /\ command # NoCommand
          /\ command.type = "NEW" => command.orderId = nextOrderId
          /\ Name(line) \in {"BUY", "SELL", "CANCEL", "MODIFY", "BOOK", "STATS"}
      BY <3>1, BuiltTyped
    <3> HIDE DEF command
    <3> QED
      BY <3>1, <3>2 DEF Takes
  <2>2. CASE Arrive \/ Malformed
    BY <2>2 DEF Arrive, Malformed
  <2>3. CASE Push
    BY <2>3 DEF Push
  <2> QED
    BY <2>1, <2>2, <2>3 DEF ParserNext
<1> QED
  BY <1>1, ParserInvInductive, PTL DEF ParserSpec, OnlyOrdersTakeIds

LEMMA SupportedSays ==
  ASSUME NEW l \in Lines, Supported(l)
  PROVE  WellFormed(l) /\ Says(l, Built(Name(l), Extracted(l).out))
<1>t. PICK t : t = Tail(l)
  OBVIOUS
<1>s. PICK start : start = [in |-> t, out |-> <<>>, ok |-> TRUE]
  OBVIOUS
<1> DEFINE name == Name(l)
           v == Extracted(l).out
           command == Built(name, v)
<1>1. Known(l) /\ IsInput(l) /\ IsInput(t) /\ l # <<>>
  BY <1>t, KnownFacts DEF Supported
<1>2. /\ Len(t) \in Nat /\ Len(l) = Len(t) + 1
      /\ t = <<>> <=> Len(t) = 0
      /\ Len(t) >= 1 => t[1] = l[2] /\ IsToken(t[1]) /\ Head(t) = t[1]
      /\ Len(t) >= 2 => t[2] = l[3]
      /\ Len(t) >= 3 => t[3] = l[4]
      /\ Len(t) >= 4 => t[4] = l[5]
  <2>1. /\ Len(t) \in Nat /\ Len(l) = Len(t) + 1
        /\ t = <<>> <=> Len(t) = 0
    BY <1>1, <1>t, AfterName
  <2>2. Len(t) >= 1 => t[1] = l[2] /\ IsToken(t[1]) /\ Head(t) = t[1]
    BY <1>1, <1>t, AfterName
  <2>3. /\ Len(t) >= 2 => t[2] = l[3]
        /\ Len(t) >= 3 => t[3] = l[4]
        /\ Len(t) >= 4 => t[4] = l[5]
    BY <1>1, <1>t, AfterName
  <2> QED
    BY <2>1, <2>2, <2>3
<1> DEFINE types == Arguments[name]
<1>3. Extracted(l) = FoldLeft(Extract, start, types)
  BY <1>t, <1>s, Zenon DEF Extracted
<1>r. types \in Seq(Types)
  BY <1>1, KnownFacts, ArgumentsFacts
<1>4. ASSUME NEW s, IsToken(s), IsSymbol(s)
      PROVE  SymbolOf(s) = <<Word(Cut[s[1].val])>>
  <2>1. Head(s) = s[1]
    BY <1>4, TokenFacts
  <2> QED
    BY <1>4, <2>1 DEF SymbolOf, IsSymbol
<1>5. CASE name \in {"BUY", "SELL"}
  <2>1. Len(types) = 3 /\ types[1] = "string" /\ types[2] = "int" /\ types[3] = "double"
    BY <1>5 DEF Arguments
  <2> HIDE DEF types
  <2>2. IsOrder(t)
    BY <1>5, <1>t DEF Supported
  <2>3. Len(t) = 3 /\ IsSymbol(t[1]) /\ IsToken(t[1])
    BY <1>2, <2>2 DEF IsOrder
  <2>4. Len(l) = 4 /\ t[1] = l[2] /\ t[2] = l[3] /\ t[3] = l[4]
    BY <1>2, <2>3
  <2> DEFINE o == Append(Append(Append(<<>>, t[1]), t[2][1].val), InHalves(t[3]))
  <2>5. Extracted(l) = [in |-> <<>>, out |-> o, ok |-> TRUE]
    <3>1. Extracted(l) = Extract(Extract(Extract(start, "string"), "int"), "double")
      BY <1>3, <1>r, <2>1, ArgumentsRead
    <3> QED
      BY <1>1, <1>s, <2>2, <3>1, OrderRead
  <2>6. o[1] = t[1] /\ o[2] = t[2][1].val /\ o[3] = InHalves(t[3])
    <3> DEFINE S == {t[1], t[2][1].val, InHalves(t[3])}
    <3>1. t[1] \in S /\ t[2][1].val \in S /\ InHalves(t[3]) \in S
      OBVIOUS
    <3> HIDE DEF S
    <3>2. <<>> \in Seq(S) /\ Len(<<>>) = 0
      OBVIOUS
    <3>3. o[0 + 1] = t[1] /\ o[0 + 2] = t[2][1].val /\ o[0 + 3] = InHalves(t[3])
      BY <3>1, <3>2, ThreeAppended
    <3> QED
      BY <3>3
  <2> HIDE DEF o
  <2>7. WellFormed(l) /\ v = o
    BY <1>1, <2>5 DEF WellFormed
  <2>8. SymbolOf(v[1]) = <<Word(Cut[l[2][1].val])>>
    BY <1>4, <2>3, <2>4, <2>6, <2>7
  <2>9. v[2] = l[3][1].val /\ v[3] = InHalves(l[4])
    BY <2>4, <2>6, <2>7
  <2> HIDE DEF v, name
  <2>10. command = [type |-> "NEW", side |-> name, orderId |-> nextOrderId,
                    symbol |-> SymbolOf(v[1]), quantity |-> v[2], price |-> v[3]]
    BY <1>5 DEF Built
  <2> HIDE DEF command
  <2>11. Says(l, command)
    BY <1>5, <2>4, <2>8, <2>9, <2>10 DEF Says, name
  <2> QED
    BY <2>7, <2>11 DEF command, name, v
<1>6. CASE name = "MODIFY"
  <2>1. /\ Len(types) = 4 /\ types[1] = "uint64"
        /\ types[2] = "string" /\ types[3] = "int" /\ types[4] = "double"
    BY <1>6 DEF Arguments, IdType
  <2>u. PICK u : u = Tail(t)
    OBVIOUS
  <2>2. t # <<>> /\ IsWhole(t[1], UInt64) /\ IsOrder(u)
    BY <1>6, <1>t, <2>u DEF Supported
  <2>3. /\ IsInput(u) /\ Len(u) \in Nat /\ Len(t) = Len(u) + 1
        /\ Len(u) >= 1 => u[1] = t[2] /\ IsToken(u[1]) /\ Head(u) = u[1]
        /\ Len(u) >= 2 => u[2] = t[3]
        /\ Len(u) >= 3 => u[3] = t[4]
    BY <1>1, <2>2, <2>u, AfterName
  <2>4. Len(u) = 3 /\ IsSymbol(u[1])
    BY <2>2 DEF IsOrder
  <2>5. /\ Len(l) = 5 /\ t[1] = l[2]
        /\ u[1] = l[3] /\ u[2] = l[4] /\ u[3] = l[5]
    BY <1>2, <2>3, <2>4
  <2>6. IsToken(t[1]) /\ IsToken(u[1]) /\ Head(t) = t[1]
    BY <1>2, <2>3, <2>4
  <2> HIDE DEF types
  <2> DEFINE id == t[1][1].val
             o == Append(Append(Append(Append(<<>>, id), u[1]), u[2][1].val), InHalves(u[3]))
  <2>7. Extract(start, "uint64") = [in |-> u, out |-> Append(<<>>, id), ok |-> TRUE]
    <3>1. Extracts("uint64", t[1]) /\ Left("uint64", t[1]) = <<>> /\ Value("uint64", t[1]) = id
      BY <2>2, <2>6, WholeRead
    <3> QED
      BY <1>s, <2>2, <2>6, <2>u, <3>1, TakeToken
  <2>8. Extracted(l) = [in |-> <<>>, out |-> o, ok |-> TRUE]
    <3> HIDE DEF id
    <3>1. Extracted(l) =
            Extract(Extract(Extract(Extract(start, "uint64"), "string"), "int"), "double")
      BY <1>3, <1>r, <2>1, ArgumentsRead
    <3> QED
      BY <2>2, <2>3, <2>7, <3>1, OrderRead
  <2> HIDE DEF id
  <2>9. o[1] = id /\ o[2] = u[1] /\ o[3] = u[2][1].val /\ o[4] = InHalves(u[3])
    <3> DEFINE S == {id, u[1], u[2][1].val, InHalves(u[3])}
               p == Append(<<>>, id)
    <3>1. id \in S /\ u[1] \in S /\ u[2][1].val \in S /\ InHalves(u[3]) \in S
      OBVIOUS
    <3> HIDE DEF S
    <3>2. p \in Seq(S) /\ Len(p) = 1 /\ p[1] = id
      BY <3>1
    <3> HIDE DEF p
    <3> DEFINE b == u[2][1].val
               c == InHalves(u[3])
               w == u[1]
               q == Append(Append(Append(p, w), b), c)
    <3> HIDE DEF b, c, w, S
    <3>3. /\ q[Len(p) + 1] = w /\ q[Len(p) + 2] = b
          /\ q[Len(p) + 3] = c /\ \A i \in 1 .. Len(p) : q[i] = p[i]
      <4>1. p \in Seq(S) /\ w \in S /\ b \in S /\ c \in S
        BY <3>1, <3>2 DEF b, c, w
      <4> QED
        BY <4>1, ThreeAppended
    <3> HIDE DEF q
    <3>4. q[1] = id /\ q[2] = w /\ q[3] = b /\ q[4] = c
      BY <3>2, <3>3
    <3>5. q = o
      BY DEF q, p, b, c, w, o
    <3> QED
      BY <3>4, <3>5, Zenon DEF b, c, w
  <2> HIDE DEF o
  <2>10. WellFormed(l) /\ v = o
    BY <1>1, <2>8 DEF WellFormed
  <2>11. SymbolOf(v[2]) = <<Word(Cut[l[3][1].val])>>
    BY <1>4, <2>4, <2>5, <2>6, <2>9, <2>10
  <2>12. v[1] = l[2][1].val /\ v[3] = l[4][1].val /\ v[4] = InHalves(l[5])
    BY <2>5, <2>9, <2>10 DEF id
  <2> HIDE DEF v, name
  <2>13. command = [type |-> name, orderId |-> v[1],
                    symbol |-> SymbolOf(v[2]), quantity |-> v[3], price |-> v[4]]
    BY <1>6 DEF Built
  <2> HIDE DEF command
  <2>14. Says(l, command)
    BY <1>6, <2>5, <2>11, <2>12, <2>13 DEF Says, name
  <2> QED
    BY <2>10, <2>14 DEF command, name, v
<1>7. CASE name = "CANCEL"
  <2>1. Len(types) = 1 /\ types[1] = "uint64"
    BY <1>7 DEF Arguments, IdType
  <2> HIDE DEF types
  <2>2. Len(t) = 1 /\ IsWhole(t[1], UInt64)
    BY <1>7, <1>t DEF Supported
  <2>3. t # <<>> /\ Head(t) = t[1] /\ t[1] = l[2] /\ IsToken(t[1])
    BY <1>2, <2>2
  <2>4. Extracts("uint64", t[1]) /\ Left("uint64", t[1]) = <<>>
        /\ Value("uint64", t[1]) = t[1][1].val
    BY <2>2, <2>3, WholeRead
  <2>5. Extracted(l) = [in |-> Tail(t), out |-> Append(<<>>, t[1][1].val), ok |-> TRUE]
    <3>1. Extracted(l) = Extract(start, "uint64")
      BY <1>3, <1>r, <2>1, ArgumentsRead
    <3> QED
      BY <1>s, <2>3, <2>4, <3>1, TakeToken
  <2>6. WellFormed(l) /\ v[1] = l[2][1].val
    BY <1>1, <2>3, <2>5 DEF WellFormed
  <2> HIDE DEF v, name
  <2>7. command = [type |-> name, orderId |-> v[1]]
    BY <1>7 DEF Built
  <2> HIDE DEF command
  <2>8. Says(l, command)
    BY <1>7, <2>6, <2>7 DEF Says, name
  <2> QED
    BY <2>6, <2>8 DEF command, name, v
<1>8. CASE name = "BOOK"
  <2>1. Len(types) = 1 /\ types[1] = "string"
    BY <1>8 DEF Arguments
  <2> HIDE DEF types
  <2>2. Len(t) = 1 /\ IsSymbol(t[1])
    BY <1>8, <1>t DEF Supported
  <2>3. t # <<>> /\ Head(t) = t[1] /\ t[1] = l[2] /\ IsToken(t[1])
    BY <1>2, <2>2
  <2>4. Extracts("string", t[1]) /\ Left("string", t[1]) = <<>> /\ Value("string", t[1]) = t[1]
    BY <2>2, <2>3, SymbolRead
  <2>5. Extracted(l) = [in |-> Tail(t), out |-> Append(<<>>, t[1]), ok |-> TRUE]
    <3>1. Extracted(l) = Extract(start, "string")
      BY <1>3, <1>r, <2>1, ArgumentsRead
    <3> QED
      BY <1>s, <2>3, <2>4, <3>1, TakeToken
  <2>6. WellFormed(l) /\ v[1] = l[2]
    BY <1>1, <2>3, <2>5 DEF WellFormed
  <2>7. SymbolOf(v[1]) = <<Word(Cut[l[2][1].val])>>
    BY <1>4, <2>2, <2>3, <2>6
  <2> HIDE DEF v, name
  <2>8. command = [type |-> name, symbol |-> SymbolOf(v[1])]
    BY <1>8 DEF Built
  <2> HIDE DEF command
  <2>9. Says(l, command)
    BY <1>8, <2>7, <2>8 DEF Says, name
  <2> QED
    BY <2>6, <2>9 DEF command, name, v
<1>9. CASE name = "STATS"
  <2>1. Len(types) = 0
    BY <1>9 DEF Arguments
  <2> HIDE DEF types
  <2>2. Extracted(l) = start
    BY <1>3, <1>r, <2>1, ArgumentsRead
  <2>3. WellFormed(l)
    BY <1>1, <1>s, <2>2 DEF WellFormed
  <2> HIDE DEF v, name
  <2>4. command = [type |-> name]
    BY <1>9 DEF Built
  <2> HIDE DEF command
  <2>5. Says(l, command)
    BY <1>9, <2>4 DEF Says, name
  <2> QED
    BY <2>3, <2>5 DEF command, name, v
<1> QED
  BY <1>5, <1>6, <1>7, <1>8, <1>9 DEF Supported

(***************************************************************************)
(* A line in a supported format is never rejected, and the command built   *)
(* from it says what the line says.                                        *)
(***************************************************************************)
THEOREM SupportedIsAlwaysUnderstood == ParserSpec => SupportedIsUnderstood
<1> DEFINE Step ==
      line # NoLine /\ pending = NoCommand /\ Supported(line) =>
        pending' # NoCommand /\ Says(line, pending')
<1>1. ParserInv /\ [ParserNext]_parserVars => [Step]_parserVars
  <2> SUFFICES ASSUME ParserInv, ParserNext,
                      line # NoLine, pending = NoCommand, Supported(line)
               PROVE  pending' # NoCommand /\ Says(line, pending')
    OBVIOUS
  <2>1. line \in Lines
    BY DEF ParserInv
  <2>2. WellFormed(line) /\ Says(line, Built(Name(line), Extracted(line).out))
    BY <2>1, SupportedSays
  <2>3. Build
    BY <2>2 DEF ParserNext, Arrive, Malformed, Push
  <2>4. /\ nextOrderId \in 1 .. MaxOrders
        /\ pending' = Built(Name(line), Extracted(line).out)
    BY <2>3, BuildFacts
  <2>5. pending' # NoCommand
    BY <2>1, <2>2, <2>4, BuiltTyped
  <2> QED
    BY <2>2, <2>4, <2>5
<1> QED
  BY <1>1, ParserInvInductive, PTL DEF ParserSpec, SupportedIsUnderstood
=============================================================================
