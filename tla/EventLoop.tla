------------------------------ MODULE EventLoop ------------------------------
(***************************************************************************)
(* The sockets of the server (main in server.cpp): the set-up of the       *)
(* listening socket and of the edge-triggered epoll instance, the loops    *)
(* that accept connections and read them until nothing is left, the buffer *)
(* per client that is cut into lines for processLine, the end of a         *)
(* connection, and the closing of every descriptor when the loop is left.  *)
(*                                                                         *)
(* A client is one connection.  It sends the bytes of Stream[c], one at a  *)
(* time, and may close in good order ("fin") or break off ("rst").  The    *)
(* kernel's part is taken from how the program uses it: descriptors are    *)
(* reused, lowest first, and an edge is reported once, when a connection   *)
(* or bytes arrive or a watched descriptor is added that has some already. *)
(* When "running" is cleared is Server.tla's matter: here the loop may end *)
(* whenever it tests the flag or waits.                                    *)
(***************************************************************************)
EXTENDS Integers, SequencesExt, FiniteSetsExt

CONSTANTS
  Clients,
  Stream,     \* what each client has to say: CR, LF and other bytes
  CR, LF,
  ReadSize,   \* sizeof(buffer)
  MaxEvents,  \* MAX_EVENTS
  MaxFd       \* the descriptors the process may have are 1 .. MaxFd

Bytes == UNION {Range(Stream[c]) : c \in Clients}

Listener == "server_fd"
Epoll == "epoll_fd"

ASSUME EventLoopAssumption ==
  /\ {ReadSize, MaxEvents, MaxFd} \subseteq Nat \ {0}
  /\ CR # LF
  /\ Stream \in [Clients -> Seq(Bytes)]
  /\ Clients \cap {Listener, Epoll} = {}

VARIABLES
  pc,             \* where the main thread is
  fds,            \* the open descriptors and what each one is
  watched,        \* descriptors added to the epoll instance
  ready,          \* kernel: watched descriptors with an edge to report
  backlog,        \* kernel: connections not accepted yet
  link,           \* the state of each client's connection
  sent, got,      \* bytes each client has sent, and main has read
  events,         \* what is left of events[]: [fd, who], who being a history
  closed,         \* local of the read loop
  recvTimestamp,  \* local of the read loop: 0, or which read it is the time of
  clientBuffers,
  handed,         \* history: the lines given to processLine
  acceptFailed    \* history: accept failed, and no connection came since

kernel == <<watched, ready, backlog>>
reader == <<closed, recvTimestamp>>
bytes == <<got, clientBuffers, handed>>
peers == <<link, sent>>
batch == <<events, reader, bytes, acceptFailed>>
vars == <<pc, fds, kernel, peers, batch>>

\* The main thread goes on, and nothing else happens.
Goes(from, to) ==
  pc = from /\ pc' = to /\ UNCHANGED <<fds, kernel, peers, batch>>

Init ==
  /\ pc = "socket"
  /\ fds = <<>>
  /\ watched = {} /\ ready = {} /\ backlog = <<>>
  /\ link = [c \in Clients |-> "away"]
  /\ sent = [c \in Clients |-> 0] /\ got = sent
  /\ events = <<>>
  /\ closed = FALSE /\ recvTimestamp = 0
  /\ clientBuffers = <<>>
  /\ handed = [c \in Clients |-> <<>>]
  /\ acceptFailed = FALSE

-----------------------------------------------------------------------------
(* Descriptors, and what the kernel reports about them. *)

With(f, x, v) == [y \in DOMAIN f \cup {x} |-> IF y = x THEN v ELSE f[y]]
Without(f, S) == Restrict(f, DOMAIN f \ S)

FdsOf(S) == {fd \in DOMAIN fds : fds[fd] \in S}
FreeFds == (1 .. MaxFd) \ DOMAIN fds
Served == Range(fds) \cap Clients

Unread(c) == SubSeq(Stream[c], got[c] + 1, sent[c])
HasInput(c) == Unread(c) # <<>> \/ link[c] \in {"fin", "rst"}
Readable(fd) ==
  IF fds[fd] = Listener THEN backlog # <<>> ELSE HasInput(fds[fd])

\* An edge on the descriptor of who, if that is watched.
Edge(who) == ready' = ready \cup (FdsOf({who}) \cap watched)

-----------------------------------------------------------------------------
(* The clients. *)

Connect(c) ==
  /\ Listener \in Range(fds) /\ pc # "configure"
  /\ link[c] = "away"
  /\ link' = [link EXCEPT ![c] = "open"]
  /\ backlog' = Append(backlog, c)
  /\ acceptFailed' = FALSE
  /\ Edge(Listener)
  /\ UNCHANGED <<pc, fds, watched, sent, events, reader, bytes>>

Send(c) ==
  /\ link[c] = "open"
  /\ sent[c] < Len(Stream[c])
  /\ sent' = [sent EXCEPT ![c] = @ + 1]
  /\ Edge(c)
  /\ UNCHANGED <<pc, fds, watched, backlog, link, batch>>

HangUp(c, how) ==
  /\ link[c] = "open"
  /\ link' = [link EXCEPT ![c] = how]
  /\ Edge(c)
  /\ UNCHANGED <<pc, fds, watched, backlog, sent, batch>>

-----------------------------------------------------------------------------
(* Set-up: socket; setsockopt, bind and listen; epoll_create1; epoll_ctl. *)

Opens(who, from, to) ==
  /\ pc = from
  /\ FreeFds # {}
  /\ fds' = With(fds, Min(FreeFds), who)
  /\ pc' = to
  /\ UNCHANGED <<kernel, peers, batch>>

Listens == Goes("configure", "epoll")

\* Connections may have come since listen: adding reports them too.
WatchesListener ==
  /\ pc = "watch"
  /\ pc' = "check"
  /\ watched' = FdsOf({Listener})
  /\ ready' = IF backlog # <<>> THEN watched' ELSE {}
  /\ UNCHANGED <<fds, backlog, peers, batch>>

\* Any of the calls fails: close what is open, return 1.
SetUpFails ==
  /\ pc \in {"socket", "configure", "epoll", "watch"}
  /\ pc' = "exited"
  /\ fds' = Without(fds, FdsOf({Listener} \cup
                              (IF pc = "watch" THEN {Epoll} ELSE {})))
  /\ UNCHANGED <<kernel, peers, batch>>

SetUp ==
  \/ Opens(Listener, "socket", "configure")
  \/ Listens
  \/ Opens(Epoll, "epoll", "watch")
  \/ WatchesListener

-----------------------------------------------------------------------------
(* The event loop. *)

Check == Goes("check", "wait")

\* epoll_wait fills events[] with what there is, in any order.  A descriptor
\* with nothing to report any more is dropped.
EpollWait ==
  LET live == {fd \in ready : Readable(fd)}
  IN  /\ pc = "wait"
      /\ \E n \in 1 .. MaxEvents : \E reported \in [1 .. n -> live] :
           /\ IsInjective(reported)
           /\ n = MaxEvents \/ Range(reported) = live
           /\ events' = [i \in 1 .. n |->
                           [fd |-> reported[i], who |-> fds[reported[i]]]]
           /\ ready' = live \ Range(reported)
      /\ pc' = "events"
      /\ UNCHANGED <<fds, watched, backlog, peers, reader, bytes, acceptFailed>>

\* running is found cleared, or epoll_wait fails (EINTR: by the signal).
LeaveLoop == \E at \in {"check", "wait"} : Goes(at, "shutdown")

EventsDone == events = <<>> /\ Goes("events", "check")

-----------------------------------------------------------------------------
(* accept, until it fails. *)

Accepting ==
  pc = "events" /\ events # <<>> /\ fds[Head(events).fd] = Listener

Accept ==
  /\ Accepting /\ backlog # <<>> /\ FreeFds # {}
  /\ LET c == Head(backlog)
         fd == Min(FreeFds)
     IN  /\ fds' = With(fds, fd, c)
         /\ watched' = watched \cup {fd}
         /\ ready' = IF HasInput(c) THEN ready \cup {fd} ELSE ready
         /\ clientBuffers' = With(clientBuffers, fd, <<>>)
  /\ backlog' = Tail(backlog)
  /\ UNCHANGED <<pc, peers, events, reader, got, handed, acceptFailed>>

\* FAULT for AcceptDrops: the early "continue" forgets to close.
AcceptDropsLeaking ==
  /\ Accepting /\ backlog # <<>> /\ FreeFds # {}
  /\ backlog' = Tail(backlog)
  /\ fds' = With(fds, Min(FreeFds), Head(backlog))
  /\ UNCHANGED <<pc, watched, ready, peers, batch>>

\* accept succeeds, setNonBlocking or epoll_ctl does not: close.
AcceptDrops ==
  /\ Accepting /\ backlog # <<>> /\ FreeFds # {}
  /\ backlog' = Tail(backlog)
  /\ link' = [link EXCEPT ![Head(backlog)] = "closed"]
  /\ UNCHANGED <<pc, fds, watched, ready, sent, batch>>

\* EAGAIN
AcceptDone ==
  /\ Accepting /\ backlog = <<>>
  /\ events' = Tail(events)
  /\ UNCHANGED <<pc, fds, kernel, peers, reader, bytes, acceptFailed>>

\* Another error, such as no descriptor left: the loop ends all the same.
AcceptFails ==
  /\ Accepting
  /\ events' = Tail(events)
  /\ acceptFailed' = TRUE
  /\ UNCHANGED <<pc, fds, kernel, peers, reader, bytes>>

-----------------------------------------------------------------------------
(* read, until there is nothing more. *)

Fd == Head(events).fd
Client == fds[Fd]
Reading == pc = "events" /\ events # <<>> /\ ~Accepting

\* FAULT for ReadTime: every read takes the time, not just the first.
ReadTimeOfLast == got[Client] + 1

\* The clock is read after the first successful read of an event.  A time is
\* named by the place in the stream where the read it followed began.
ReadTime == IF recvTimestamp = 0 THEN got[Client] + 1 ELSE recvTimestamp

\* FAULT for Read: append(buffer, sizeof(buffer)).
ReadWholeBuffer ==
  /\ Reading /\ Unread(Client) # <<>>
  /\ clientBuffers' = [clientBuffers EXCEPT ![Fd] = @ \o Unread(Client)]
  /\ got' = [got EXCEPT ![Client] = @ + ReadSize]
  /\ recvTimestamp' = ReadTime
  /\ UNCHANGED <<pc, fds, kernel, peers, events, closed, handed, acceptFailed>>

Read ==
  /\ Reading /\ Unread(Client) # <<>>
  /\ LET n == Min({ReadSize, Len(Unread(Client))})
     IN  /\ clientBuffers' = [clientBuffers EXCEPT
                                ![Fd] = @ \o SubSeq(Unread(Client), 1, n)]
         /\ got' = [got EXCEPT ![Client] = @ + n]
  /\ recvTimestamp' = ReadTime
  /\ UNCHANGED <<pc, fds, kernel, peers, events, closed, handed, acceptFailed>>

\* FAULT for WouldBlock: one read per event, as with level triggering.
WouldBlockAfterOne ==
  recvTimestamp # 0 \/ (Unread(Client) = <<>> /\ link[Client] = "open")

WouldBlock == Unread(Client) = <<>> /\ link[Client] = "open"

\* FAULT for ReadDone: an error closes the descriptor at once.
ReadDoneClosing ==
  /\ Reading
  /\ closed' = (link[Client] \in {"fin", "rst"})
  /\ fds' = Without(fds, IF link[Client] = "rst" THEN {Fd} ELSE {})
  /\ pc' = "lines"
  /\ UNCHANGED <<kernel, peers, events, recvTimestamp, bytes, acceptFailed>>

\* EAGAIN, the end of the stream, or an error (which may discard input).
ReadDone ==
  /\ Reading
  /\ \/ WouldBlock /\ closed' = FALSE
     \/ Unread(Client) = <<>> /\ link[Client] = "fin" /\ closed' = TRUE
     \/ link[Client] = "rst" /\ closed' = TRUE
  /\ pc' = "lines"
  /\ UNCHANGED <<fds, kernel, peers, events, recvTimestamp, bytes, acceptFailed>>

Trimmed(line) ==
  IF line # <<>> /\ Last(line) = CR THEN Front(line) ELSE line

Pos == SelectInSeq(clientBuffers[Fd], LAMBDA b : b = LF)

\* FAULTS for Rest: the buffer is cleared; the newline is left.
RestNothing == <<>>
RestWithLF == SubSeq(clientBuffers[Fd], Pos, Len(clientBuffers[Fd]))

Rest == SubSeq(clientBuffers[Fd], Pos + 1, Len(clientBuffers[Fd]))

HasLine == Contains(clientBuffers[Fd], LF)

\* The first complete line goes to processLine, which ignores an empty one.
HandLine ==
  LET line == Trimmed(SubSeq(clientBuffers[Fd], 1, Pos - 1))
  IN  /\ pc = "lines" /\ HasLine
      /\ clientBuffers' = [clientBuffers EXCEPT ![Fd] = Rest]
      /\ handed' = IF line = <<>> THEN handed
                   ELSE [handed EXCEPT ![Client] = Append(@, line)]
      /\ UNCHANGED <<pc, fds, kernel, peers, events, reader, got, acceptFailed>>

NoMoreLines == ~HasLine

\* No complete line is left; a connection that ended is closed and forgotten.
LinesDone ==
  /\ pc = "lines" /\ NoMoreLines
  /\ LET gone == IF closed THEN {Fd} ELSE {}
     IN  /\ fds' = Without(fds, gone)
         /\ watched' = watched \ gone
         /\ ready' = ready \ gone
         /\ clientBuffers' = Without(clientBuffers, gone)
  /\ link' = IF closed THEN [link EXCEPT ![Client] = "closed"] ELSE link
  /\ closed' = FALSE /\ recvTimestamp' = 0
  /\ events' = Tail(events)
  /\ pc' = "events"
  /\ UNCHANGED <<backlog, sent, got, handed, acceptFailed>>

-----------------------------------------------------------------------------
\* After the loop (and the join): the clients', the listener, epoll_fd.
Shutdown ==
  /\ pc = "shutdown"
  /\ fds' = Without(fds, DOMAIN clientBuffers \cup FdsOf({Listener, Epoll}))
  /\ clientBuffers' = <<>>
  /\ watched' = {} /\ ready' = {}
  /\ pc' = "exited"
  /\ UNCHANGED <<backlog, peers, events, reader, got, handed, acceptFailed>>

Network ==
  \E c \in Clients :
    Connect(c) \/ Send(c) \/ \E how \in {"fin", "rst"} : HangUp(c, how)

\* Every call but epoll_wait returns, in one way or another.
Main ==
  \/ SetUp \/ SetUpFails \/ Check \/ EpollWait \/ EventsDone
  \/ Accept \/ AcceptDrops \/ AcceptDone \/ AcceptFails
  \/ Read \/ ReadDone \/ HandLine \/ LinesDone
  \/ Shutdown

Next ==
  \/ pc # "exited" /\ Network
  \/ Main
  \/ LeaveLoop

\* The main thread keeps running; nothing has to arrive.
Spec == Init /\ [][Next]_vars /\ WF_vars(Main)

-----------------------------------------------------------------------------
(* Type invariant. *)
TypeOK ==
  /\ pc \in {"socket", "configure", "epoll", "watch", "check", "wait",
             "events", "lines", "shutdown", "exited"}
  /\ DOMAIN fds \subseteq 1 .. MaxFd
  /\ IsInjective(fds) /\ Range(fds) \subseteq Clients \cup {Listener, Epoll}
  /\ watched \subseteq DOMAIN fds /\ ready \subseteq watched
  /\ IsInjective(backlog) /\ backlog \in Seq(Clients)
  /\ link \in [Clients -> {"away", "open", "fin", "rst", "closed"}]
  /\ \A c \in Clients : got[c] <= sent[c] /\ sent[c] <= Len(Stream[c])
  /\ events \in Seq([fd : 1 .. MaxFd, who : Clients \cup {Listener}])
  /\ closed \in BOOLEAN /\ recvTimestamp \in Nat /\ acceptFailed \in BOOLEAN
  /\ \A fd \in DOMAIN clientBuffers : clientBuffers[fd] \in Seq(Bytes)
  /\ \A c \in Clients : handed[c] \in Seq(Seq(Bytes))

(***************************************************************************)
(* The lines in a sequence of bytes, by their ends: each runs from the     *)
(* previous LF, without a CR before its own; empty ones do not count.      *)
(***************************************************************************)
LineTo(s, e) ==
  Trimmed(SubSeq(s, 1 + Max({0} \cup {i \in 1 .. (e - 1) : s[i] = LF}), e - 1))

EndsLine(s, e) == s[e] = LF /\ LineTo(s, e) # <<>>

LinesOf(s) ==
  LET Ended[n \in 0 .. Len(s)] ==
        IF n = 0 THEN <<>>
        ELSE IF EndsLine(s, n) THEN Append(Ended[n - 1], LineTo(s, n))
        ELSE Ended[n - 1]
  IN  Ended[Len(s)]

BytesRead(c) == SubSeq(Stream[c], 1, got[c])

(***************************************************************************)
(* However the bytes are cut into reads, and whoever had the descriptor    *)
(* before: the lines handed over for a client are those in the bytes read  *)
(* from it, in order and once each, complete whenever main is not at work  *)
(* on a read of this client - also when it has disconnected by then.       *)
(***************************************************************************)
LinesHandedOnce ==
  \A c \in Clients :
    /\ IsPrefix(handed[c], LinesOf(BytesRead(c)))
    /\ ~(Reading \/ pc = "lines") => handed[c] = LinesOf(BytesRead(c))

(***************************************************************************)
(* An edge is reported once.  So when main blocks in epoll_wait with no    *)
(* edge to come, no watched client has anything left to read, an end of    *)
(* stream included, and connections wait only if accept failed and none    *)
(* has come since: that error strands them until the next one comes.       *)
(***************************************************************************)
NoLostWakeup ==
  (pc = "wait" /\ ready = {}) =>
    /\ \A c \in Served : ~HasInput(c)
    /\ backlog # <<>> => acceptFailed

(***************************************************************************)
(* No event of a batch is about a connection that an earlier event of the  *)
(* same batch closed or whose descriptor it gave to another one.           *)
(***************************************************************************)
EventsAreCurrent ==
  \A i \in DOMAIN events :
    events[i].fd \in DOMAIN fds /\ fds[events[i].fd] = events[i].who

(***************************************************************************)
(* While the loop runs the client buffers are exactly those of the open    *)
(* client descriptors, which are all watched; no way out of main, error    *)
(* returns included, leaves a descriptor open.                             *)
(***************************************************************************)
NoDescriptorLeaks ==
  /\ DOMAIN clientBuffers = FdsOf(Clients)
  /\ FdsOf(Clients) \subseteq watched
  /\ pc = "exited" => fds = <<>>

\* Where in its client's stream the i-th byte of a buffer was.
PlaceOf(fd, i) == got[fds[fd]] - Len(clientBuffers[fd]) + i

(***************************************************************************)
(* The receive time a line is handed over with is not the initial 0, nor   *)
(* is it later than the read that brought the LF of the line: its network  *)
(* latency is never understated.  It may be earlier, because the time of   *)
(* the first read of the event serves for every line the event completes.  *)
(***************************************************************************)
LinesAreStamped ==
  \A fd \in DOMAIN clientBuffers : \A i \in DOMAIN clientBuffers[fd] :
    clientBuffers[fd][i] = LF =>
      /\ events # <<>> /\ fd = Fd
      /\ recvTimestamp \in 1 .. PlaceOf(fd, i)

(***************************************************************************)
(* As long as the server is not shut down, every complete line a served    *)
(* client sends is handed to processLine, unless the connection breaks.    *)
(***************************************************************************)
SentLinesAreHanded ==
  []~(pc = "shutdown") =>
    \A c \in Clients : \A n \in 1 .. Len(LinesOf(Stream[c])) :
      (c \in Served /\ Len(LinesOf(SubSeq(Stream[c], 1, sent[c]))) >= n)
        ~> (Len(handed[c]) >= n \/ link[c] = "rst")
=============================================================================
