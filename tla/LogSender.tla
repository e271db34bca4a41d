----------------------------- MODULE LogSender ------------------------------
(***************************************************************************)
(* The way of a log to log_server: a program that logs puts it into a      *)
(* queue in shared memory (module MsgQueue), from which log_sender sends   *)
(* it over the one connection it keeps, or short_sender over one of many   *)
(* that it makes anew for each log.  log_server reads the connections in   *)
(* pieces of one message (module LogServer has the rest of it).            *)
(*                                                                         *)
(* A message, a request of CLIENT_STR_LEN bytes, is three parts: the       *)
(* beginning, inside the URL; the rest of the URL and the blank that ends  *)
(* it; the NULs that fill it up.  TCP delivers parts in order, and as many *)
(* at a time as it likes.  Of each connection the model keeps only one     *)
(* descriptor, the sender's.  (The signal that a second send to a closed   *)
(* peer raises is left out, as in LogServer.)                              *)
(***************************************************************************)
EXTENDS Integers, Sequences, FiniteSets, SequencesExt, FiniteSetsExt

CONSTANTS
    Programs,        \* the senders to look at: "log_sender", "short_sender"
    MaxMessages(_),  \* bound: logs produced for a sender
    Overlong,        \* those whose URL, once encoded, does not fit into a message
    QueueRoom,       \* messages the queue holds: CLIENT_Q_LEN - 1
    Fds,             \* descriptors; short_sender keeps as many connections (100)
    WireRoom,        \* parts that are on the way in a connection ...
    AckRoom,         \* ... and ACKs on the way back
    MaxCrashes       \* bound: crashes of log_server

ASSUME SenderAssumption ==
    /\ Programs \subseteq {"log_sender", "short_sender"}
    /\ {MaxMessages(p) : p \in Programs} \cup {MaxCrashes} \subseteq Nat
    /\ {QueueRoom, AckRoom} \cup Fds \subseteq Nat \ {0} /\ Fds # {}
    /\ WireRoom \in Nat /\ WireRoom >= 3

VARIABLES
    program,         \* which sender it is
    produced, queue, \* messages produced, msg_queue
    conn,            \* each descriptor's connection
    mode, ready,     \* epoll: READ_MODE or WRITE_MODE, descriptors with an event
    sockfd,          \* the descriptor main keeps
    spc, batch, event, sending,   \* where the sender is, events_, the one at hand,
                                  \* what is still to be sent of the message
    up,              \* log_server runs
    reading, msg_rscv_buffer, fd_ack_set,   \* the descriptor it reads, if any
    stored,          \* logs it has parsed and passed on
    torn, cut, broken,   \* what went wrong: a send that took a part of a message, a recv
                         \*   that did, messages lost with their connection
    abandoned,       \* log_sender has closed its connection and made no new one
    crashes

queueVars  == <<produced, queue>>
netVars    == <<conn, ready>>
loopVars   == <<spc, batch, event, sending, sockfd, mode, abandoned>>
serverVars == <<reading, msg_rscv_buffer, fd_ack_set, stored>>
vars == <<program, queueVars, netVars, loopVars, up, serverVars, torn, cut, broken, crashes>>

Messages == 1 .. Max({MaxMessages(p) : p \in Programs})
Part(m, part) == [of |-> m, part |-> part]
Parts(m) == <<Part(m, "begin"), Part(m, "rest"), Part(m, "pad")>>
Zeros == Part(0, "pad")
Cleared == [i \in 1 .. 3 |-> Zeros]    \* the buffer after memset
CutOff == Part(0, "cut")               \* where ParseReq has put a NUL
Garbage == Part(0, "garbage")
Altered == 0                           \* a log that nobody sent

NoFd == 0
NoEvent == [fd |-> NoFd, hup |-> FALSE]
NoConn == [st |-> "none", wire |-> <<>>, acks |-> 0]
Connecting == [NoConn EXCEPT !.st = "connecting"]

Open(fd) == conn[fd].st # "none"
Lowest == Min({fd \in Fds : ~ Open(fd)})

(* The first connection waits for something to read in log_sender, and to  *)
(* be writable in short_sender.                                            *)
Init ==
    /\ program \in Programs
    /\ produced = 0 /\ queue = <<>>
    /\ conn = [fd \in Fds |-> IF fd = Min(Fds) THEN Connecting ELSE NoConn]
    /\ mode = [fd \in Fds |-> IF program = "log_sender" THEN "read" ELSE "write"]
    /\ ready = {} /\ sockfd = Min(Fds)
    /\ spc = "wait" /\ batch = {} /\ event = NoEvent /\ sending = <<>>
    /\ up = TRUE
    /\ reading = NoFd /\ msg_rscv_buffer = Cleared /\ fd_ack_set = {}
    /\ stored = <<>>
    /\ torn = FALSE /\ cut = FALSE /\ broken = FALSE /\ abandoned = FALSE
    /\ crashes = 0

-----------------------------------------------------------------------------
(* cody_log, cody_log_string: wait for room in the queue.                  *)
Full_late == Len(queue) > QueueRoom                 \* a slip
Full == Len(queue) = QueueRoom

Produce ==
    /\ produced < MaxMessages(program) /\ ~ Full
    /\ produced' = produced + 1
    /\ queue' = Append(queue, produced + 1)
    /\ UNCHANGED <<program, netVars, loopVars, up, serverVars, torn, cut, broken, crashes>>

-----------------------------------------------------------------------------
(* epoll.  Events are edge-triggered; setting a mode looks at the state.   *)
(* A socket is writable when a good part of its buffer is free.            *)
RoomIn(c) == WireRoom - Len(c.wire)
Writable(c) == c.st = "ended" \/ (c.st = "up" /\ RoomIn(c) >= 3)
Readable(c) == c.st = "ended" \/ c.acks > 0

Epoll_Wait ==
    /\ spc = "wait"
    /\ batch' = {[fd |-> fd, hup |-> conn[fd].st = "ended"] : fd \in ready}
    /\ ready' = {}
    /\ spc' = "events"
    /\ UNCHANGED <<program, queueVars, conn, event, sending, sockfd, mode, abandoned,
                   up, serverVars, torn, cut, broken, crashes>>

NextEvent ==
    /\ spc = "events" /\ batch # {}
    /\ event' \in batch
    /\ batch' = batch \ {event'}
    /\ spc' = mode[event'.fd]
    /\ UNCHANGED <<program, queueVars, netVars, sending, sockfd, mode, abandoned,
                   up, serverVars, torn, cut, broken, crashes>>

(* DelFd and close: log_server reads what is left -- the second half of a  *)
(* message at most, since short_sender has seen an ACK or an error --      *)
(* stores nothing of it, and closes too.  (A last block that ends a split  *)
(* message and comes with the end of the stream takes log_server down:     *)
(* Read_fd_work sets the event of the descriptor it has closed.  That      *)
(* end is one of those Crash stands for.)                                  *)
Closed(fd) == [conn EXCEPT ![fd] = NoConn]
ServerForgets(fd) ==
    /\ fd_ack_set' = fd_ack_set \ {fd}
    /\ reading' = IF reading = fd THEN NoFd ELSE reading
    /\ msg_rscv_buffer' = IF reading = fd THEN Cleared ELSE msg_rscv_buffer
    /\ UNCHANGED stored

(* Whether a connection that is not established is closed, in both.        *)
GiveUpConnection ==
    /\ spc = "write" /\ conn[event.fd].st # "up"
    /\ conn' = Closed(event.fd) /\ ready' = ready \ {event.fd}
    /\ ServerForgets(event.fd)
    /\ abandoned' = (program = "log_sender")
    /\ spc' = "events" /\ event' = NoEvent
    /\ UNCHANGED <<program, queueVars, batch, sending, sockfd, mode, up, torn, cut, broken,
                   crashes>>

(* One message.  (log_sender looks whether there is one, and there is: it  *)
(* waits to write only while the queue is not empty.)  short_sender spins  *)
(* until there is one, whatever becomes of the connection.                 *)
TakeMessage ==
    /\ spc \in {"write", "spin"} /\ (spc = "write" => conn[event.fd].st = "up")
    /\ queue # <<>>
    /\ sending' = Parts(Head(queue))
    /\ queue' = Tail(queue)
    /\ spc' = "send"
    /\ UNCHANGED <<program, produced, netVars, batch, event, sockfd, mode, abandoned,
                   up, serverVars, torn, cut, broken, crashes>>

Spin ==
    /\ spc = "write" /\ conn[event.fd].st = "up"
    /\ program = "short_sender" /\ queue = <<>>
    /\ spc' = "spin"
    /\ UNCHANGED <<program, queueVars, netVars, batch, event, sending, sockfd, mode, abandoned,
                   up, serverVars, torn, cut, broken, crashes>>

(* After a send the descriptor waits for the ACK.                          *)
SetRead(fd, c) ==
    /\ mode' = [mode EXCEPT ![fd] = "read"]
    /\ ready' = IF Readable(c) THEN ready \cup {fd} ELSE ready \ {fd}
    /\ spc' = "events" /\ event' = NoEvent /\ sending' = <<>>

SendAll ==
    /\ spc = "send" /\ conn[event.fd].st = "up" /\ Len(sending) <= RoomIn(conn[event.fd])
    /\ conn' = [conn EXCEPT ![event.fd].wire = @ \o sending]
    /\ SetRead(event.fd, conn'[event.fd])
    /\ UNCHANGED <<program, queueVars, batch, sockfd, abandoned, up, serverVars,
                   torn, cut, broken, crashes>>

(* The system, short of memory, takes a part.  The next send begins at     *)
(* msg_send_buffer + send_index, which is send_index messages further on:  *)
(* it sends what is there ...                                              *)
SendPart ==
    /\ spc = "send" /\ conn[event.fd].st = "up"
    /\ \E n \in 1 .. Len(sending) - 1 :
         /\ n <= RoomIn(conn[event.fd])
         /\ conn' = [conn EXCEPT ![event.fd].wire = @ \o SubSeq(sending, 1, n)]
         /\ sending' = [i \in 1 .. Len(sending) - n |-> Garbage]
    /\ torn' = TRUE
    /\ UNCHANGED <<program, queueVars, ready, spc, batch, event, sockfd, mode, abandoned,
                   up, serverVars, cut, broken, crashes>>

(* ... or fails (EFAULT), as a send on a broken connection does (if it     *)
(* does not succeed and its data go nowhere): there is no second try.      *)
FailToSend ==
    /\ spc = "send" /\ (conn[event.fd].st = "ended" \/ Head(sending) = Garbage)
    /\ broken' = (broken \/ conn[event.fd].st = "ended")
    /\ SetRead(event.fd, conn[event.fd])
    /\ UNCHANGED <<program, queueVars, conn, batch, sockfd, abandoned, up, serverVars,
                   torn, cut, crashes>>

(* log_sender reads and drops what comes back.  If the connection has      *)
(* ended it makes a new one, whose descriptor is the lowest that is free:  *)
(* the one it has just closed, which main goes on using.                   *)
NewFd_before_close(fd) == Lowest                  \* a slip: connect, then close
NewFd(fd) == Min({x \in Fds : ~ Open(x)} \cup {fd})

DropAcks ==
    /\ spc = "read" /\ program = "log_sender" /\ ~ event.hup
    /\ conn' = [conn EXCEPT ![event.fd].acks = 0]
    /\ spc' = "events" /\ event' = NoEvent
    /\ UNCHANGED <<program, queueVars, ready, batch, sending, sockfd, mode, abandoned,
                   up, serverVars, torn, cut, broken, crashes>>

Reconnect ==
    /\ spc = "read" /\ program = "log_sender" /\ event.hup
    /\ conn' = [Closed(event.fd) EXCEPT ![NewFd(event.fd)] = Connecting]
    /\ mode' = [mode EXCEPT ![NewFd(event.fd)] = "read"]
    /\ ready' = ready \ {event.fd}
    /\ ServerForgets(event.fd)
    /\ batch' = {} /\ spc' = "events" /\ event' = NoEvent
    /\ UNCHANGED <<program, queueVars, sending, sockfd, abandoned, up, torn, cut, broken,
                   crashes>>

(* short_sender closes a connection when it has been acknowledged, or has  *)
(* ended; in this case it leaves the loop, and the other events are lost.  *)
CloseShort ==
    /\ spc = "read" /\ program = "short_sender"
    /\ conn' = Closed(event.fd) /\ ready' = ready \ {event.fd}
    /\ ServerForgets(event.fd)
    /\ batch' = IF conn[event.fd].acks > 0 THEN batch ELSE {}
    /\ spc' = "events" /\ event' = NoEvent
    /\ UNCHANGED <<program, queueVars, sending, sockfd, mode, abandoned, up, torn, cut, broken,
                   crashes>>

(* main, when the events are done: log_sender makes its descriptor         *)
(* writable if there is something to send -- which ends the process if it  *)
(* is closed -- and short_sender connects up to its number.                *)
EndEvents ==
    /\ spc = "events" /\ batch = {} /\ (program = "log_sender" => queue = <<>>)
    /\ conn' = IF program = "short_sender"
                 THEN [fd \in Fds |-> IF Open(fd) THEN conn[fd] ELSE Connecting] ELSE conn
    /\ mode' = IF program = "short_sender"
                 THEN [fd \in Fds |-> IF Open(fd) THEN mode[fd] ELSE "write"] ELSE mode
    /\ spc' = "wait"
    /\ UNCHANGED <<program, queueVars, ready, batch, event, sending, sockfd, abandoned,
                   up, serverVars, torn, cut, broken, crashes>>

SetWrite ==
    /\ spc = "events" /\ batch = {} /\ program = "log_sender" /\ queue # <<>>
    /\ IF Open(sockfd)
         THEN /\ mode' = [mode EXCEPT ![sockfd] = "write"]
              /\ ready' = IF Writable(conn[sockfd]) THEN ready \cup {sockfd} ELSE ready \ {sockfd}
              /\ spc' = "wait"
         ELSE spc' = "exited" /\ UNCHANGED <<mode, ready>>
    /\ UNCHANGED <<program, queueVars, conn, batch, event, sending, sockfd, abandoned,
                   up, serverVars, torn, cut, broken, crashes>>

-----------------------------------------------------------------------------
(* The other end: connections are established while log_server runs, and   *)
(* refused while it does not; those it had are ended by its crash.         *)
Establish(fd) ==
    /\ up /\ conn[fd].st = "connecting"
    /\ conn' = [conn EXCEPT ![fd].st = "up"]
    /\ ready' = IF mode[fd] = "write" THEN ready \cup {fd} ELSE ready
    /\ UNCHANGED <<program, queueVars, loopVars, up, serverVars, torn, cut, broken, crashes>>

Refuse(fd) ==
    /\ ~ up /\ conn[fd].st = "connecting"
    /\ conn' = [conn EXCEPT ![fd].st = "ended"]
    /\ ready' = ready \cup {fd}
    /\ UNCHANGED <<program, queueVars, loopVars, up, serverVars, torn, cut, broken, crashes>>

Crash ==
    /\ up /\ crashes < MaxCrashes
    /\ up' = FALSE /\ crashes' = crashes + 1
    /\ LET had == {fd \in Fds : conn[fd].st = "up"}
       IN  /\ conn' = [fd \in Fds |-> IF fd \in had
                                        THEN [conn[fd] EXCEPT !.st = "ended", !.wire = <<>>]
                                        ELSE conn[fd]]
           /\ ready' = ready \cup had
           /\ broken' = (broken \/ \E fd \in had : conn[fd].wire # <<>>)
    /\ reading' = NoFd /\ msg_rscv_buffer' = Cleared /\ fd_ack_set' = {}
    /\ UNCHANGED <<program, queueVars, loopVars, stored, torn, cut>>

Restart ==
    /\ ~ up /\ up' = TRUE
    /\ UNCHANGED <<program, queueVars, netVars, loopVars, serverVars, torn, cut, broken, crashes>>

(* Read_fd_work, of a descriptor in READ_MODE.  The buffer is cleared once *)
(* for each call, not for each message (here at the end of the last call). *)
BeginRead(fd) ==
    /\ up /\ reading = NoFd /\ fd \notin fd_ack_set /\ conn[fd].wire # <<>>
    /\ reading' = fd
    /\ UNCHANGED <<program, queueVars, netVars, loopVars, up, msg_rscv_buffer, fd_ack_set,
                   stored, torn, cut, broken, crashes>>

(* The buffer is BUFFER_SIZE = STR_LEN = CLIENT_STR_LEN bytes.             *)
BufferSize_less_one == 2               \* a slip: recv of BUFFER_SIZE - 1, as the senders do
BufferSize == 3

(* ParseReq takes what begins with GET, up to the blank after the URL, in  *)
(* place of which it leaves a NUL; without one it returns nullptr.         *)
HasBlank(part) == part.part = "begin" \/ (part.part = "rest" /\ part.of \notin Overlong)
Begins(buffer) == buffer[1].part = "begin"
Log(buffer) == IF buffer[2] = Part(buffer[1].of, "rest") THEN buffer[1].of ELSE Altered

AfterParse_of_copy(buffer) == buffer   \* a slip: parse tmp_str, as in lines 165-171
AfterParse(buffer) == [buffer EXCEPT ![2] = CutOff]

(* A recv that brings less than a message is the last, and its message is  *)
(* parsed over what the one before has left.                               *)
Recv(fd) ==
    /\ reading = fd
    /\ \E n \in 1 .. Min({BufferSize, Len(conn[fd].wire)}) :
         /\ conn' = [conn EXCEPT ![fd].wire = SubSeq(@, n + 1, Len(@))]
         /\ LET taken  == SubSeq(conn[fd].wire, 1, n)
                buffer == [i \in 1 .. 3 |-> IF i <= n THEN taken[i] ELSE msg_rscv_buffer[i]]
                kept(b) == IF n < BufferSize THEN Cleared ELSE b
            IN  /\ \/ /\ Begins(buffer) /\ (HasBlank(buffer[2]) \/ buffer[2] = Garbage)
                      /\ stored' = Append(stored, Log(buffer))
                      /\ msg_rscv_buffer' = kept(AfterParse(buffer))
                   \/ /\ ~ (Begins(buffer) /\ HasBlank(buffer[2]))
                      /\ stored' = stored
                      /\ msg_rscv_buffer' = kept(buffer)
                /\ cut' = (cut \/ (n < BufferSize /\ taken[n].part # "pad"))
         /\ reading' = IF n < BufferSize THEN NoFd ELSE fd
         /\ fd_ack_set' = fd_ack_set \cup {fd}
    /\ ready' = IF mode[fd] = "write" /\ Writable(conn'[fd]) THEN ready \cup {fd} ELSE ready
    /\ UNCHANGED <<program, queueVars, loopVars, up, torn, broken, crashes>>

RecvNothing(fd) ==
    /\ reading = fd /\ conn[fd].wire = <<>> /\ fd \in fd_ack_set
    /\ reading' = NoFd /\ msg_rscv_buffer' = Cleared
    /\ UNCHANGED <<program, queueVars, netVars, loopVars, up, fd_ack_set, stored,
                   torn, cut, broken, crashes>>

(* Ack_to_fd: one ACK for all that was read, when there is room for it.    *)
Ack_to_fd(fd) ==
    /\ up /\ reading = NoFd /\ fd \in fd_ack_set /\ conn[fd].acks < AckRoom
    /\ conn' = [conn EXCEPT ![fd].acks = @ + 1]
    /\ ready' = IF mode[fd] = "read" THEN ready \cup {fd} ELSE ready
    /\ fd_ack_set' = fd_ack_set \ {fd}
    /\ UNCHANGED <<program, queueVars, loopVars, up, reading, msg_rscv_buffer, stored,
                   torn, cut, broken, crashes>>

-----------------------------------------------------------------------------
Sender ==
    \/ Epoll_Wait \/ NextEvent \/ GiveUpConnection \/ TakeMessage \/ Spin
    \/ SendAll \/ SendPart \/ FailToSend \/ DropAcks \/ Reconnect \/ CloseShort
    \/ EndEvents \/ SetWrite

Server(fd) == \/ Establish(fd) \/ Refuse(fd)
              \/ BeginRead(fd) \/ Recv(fd) \/ RecvNothing(fd) \/ Ack_to_fd(fd)

Next == Produce \/ Sender \/ Crash \/ Restart \/ \E fd \in Fds : Server(fd)

Spec == Init /\ [][Next]_vars

(* Both processes go round their loops.  Nothing need be produced, and     *)
(* log_server, once down, need not be started again.                       *)
FairSpec == Spec /\ WF_vars(Sender) /\ WF_vars(\E fd \in Fds : Server(fd))

-----------------------------------------------------------------------------
PartSet == [of : Messages \cup {0}, part : {"begin", "rest", "pad", "cut", "garbage"}]

TypeOK ==
    /\ program \in Programs
    /\ produced \in 0 .. MaxMessages(program) /\ queue \in Seq(Messages) /\ Len(queue) <= QueueRoom
    /\ conn \in [Fds -> [st : {"none", "connecting", "up", "ended"},
                         wire : Seq(PartSet), acks : 0 .. AckRoom]]
    /\ \A fd \in Fds : Len(conn[fd].wire) <= WireRoom
    /\ mode \in [Fds -> {"read", "write"}] /\ ready \subseteq {fd \in Fds : Open(fd)}
    /\ sockfd \in Fds
    /\ spc \in {"wait", "events", "read", "write", "spin", "send", "exited"}
    /\ batch \subseteq [fd : Fds, hup : BOOLEAN]
    /\ event \in [fd : Fds, hup : BOOLEAN] \cup {NoEvent}
    /\ sending \in Seq(PartSet) /\ Len(sending) <= 3
    /\ reading \in Fds \cup {NoFd} /\ msg_rscv_buffer \in [1 .. 3 -> PartSet]
    /\ fd_ack_set \subseteq Fds
    /\ stored \in Seq(Messages \cup {Altered})
    /\ {up, torn, cut, broken, abandoned} \subseteq BOOLEAN /\ crashes \in 0 .. MaxCrashes

(* log_server passes on no log that nobody sent, however TCP cuts the      *)
(* messages, unless a send was cut short (log_sender.cpp:91): what a short *)
(* read leaves of the message before it in the buffer (log_server.cpp:209) *)
(* never makes up a log.  None is passed on twice, although senders and    *)
(* connections come and go, and those of log_sender come in their order.   *)
StoredAsSent ==
    /\ torn \/ Altered \notin ToSet(stored)
    /\ \A i, j \in 1 .. Len(stored) : i < j /\ Altered \notin {stored[i], stored[j]} =>
          IF program = "log_sender" THEN stored[i] < stored[j] ELSE stored[i] # stored[j]

(* A log taken from the queue is passed on or on its way, unless a message *)
(* was cut by a send or a recv or went down with its connection, or it was *)
(* too long to begin with: the senders, which open and close connections   *)
(* around each other's events, lose nothing themselves.                    *)
OnItsWay(m) == \/ \E fd \in Fds : Part(m, "begin") \in ToSet(conn[fd].wire)
               \/ Part(m, "begin") \in ToSet(sending)

LossesExplained ==
    \/ torn \/ cut \/ broken
    \/ \A m \in (1 .. produced) \ (ToSet(queue) \cup Overlong) : m \in ToSet(stored) \/ OnItsWay(m)

(* Logs do not stay in the queue: what is there is sent in the end,        *)
(* whatever connections fail, if log_server is there -- unless log_sender  *)
(* has found its connection failed when it wanted to send (line 75; it     *)
(* exits at 206), or waits for room while log_server waits for it to read  *)
(* the ACKs (line 206 again, which asks for writing only, and log_server   *)
(* .cpp:290, which has nobody else served meanwhile).                      *)
Standoff ==
    \E fd \in Fds : /\ mode[fd] = "write" /\ ~ Writable(conn[fd])
                    /\ fd \in fd_ack_set /\ conn[fd].acks = AckRoom

Drained == queue # <<>> ~> queue = <<>> \/ ~ up \/ abandoned \/ Standoff
=============================================================================
