----------------------------- MODULE LogServer ------------------------------
(***************************************************************************)
(* The way of a request: clients connect to log_server, whose single       *)
(* thread reads requests from edge-triggered sockets, passes them to       *)
(* log_processor through a queue in shared memory, takes the blocks of     *)
(* answers from a second queue, and sends them, or an ACK, to the client.  *)
(*                                                                         *)
(* An answer is addressed to a client id, which the client chose and put   *)
(* in its query; log_server remembers which connection used which id.      *)
(* A query is answered by result blocks and a block that marks the end;    *)
(* module BulkStore says what the results are.  Here the two queues are    *)
(* FIFOs of limited room (module MsgQueue).                                *)
(*                                                                         *)
(* A request is the connection it came by and its place in the client's    *)
(* script, which is a list of kinds: "append" stands for all requests that *)
(* bear no client id and need no answer, "query" for those that do, and    *)
(* "invalid" for a query that bears a client id but lacks a parameter.     *)
(*                                                                         *)
(* Two history variables, which no step depends on, record what the code   *)
(* does not keep clients from.  cutShort: a client ended its stream before *)
(* its request was read, and the descriptor was closed first.  idShared: a *)
(* client used the id of another whose answer was still to come.  What the *)
(* properties promise they promise until then.                             *)
(***************************************************************************)
EXTENDS Integers, Sequences, FiniteSets, SequencesExt, FiniteSetsExt

CONSTANTS
    Conns,           \* bound: connections made; each is used once
    Script(_),       \* the kinds of requests a connection's client sends
    ClientId(_),     \* the client id in its queries
    Senders,         \* log_sender's connections: it does not wait for ACKs
    Impatient,       \* connections whose client may end the stream before its reply
    Fds,             \* bound: file descriptors of log_server, besides listen_fd_
    RequestRoom, ResultRoom,   \* messages the queues hold: Q_LEN - 1 ...
    MaxRead,         \* MAX_QUERY_RESULT_READ
    ResultBlocks(_)  \* the result blocks a query of a connection is answered by

NoConn == "none"

ASSUME ServerAssumption ==
    /\ \A k \in Conns : /\ Script(k) \in Seq({"append", "query", "invalid"})
                        /\ \A i \in 1 .. Len(Script(k)) - 1 : Script(k)[i] = "append"
    /\ \A k \in Senders : Script(k) \in Seq({"append"})     \* log_sender.cpp asks nothing
    /\ \A k \in Conns : ClientId(k) \in Nat \ {0}
    /\ NoConn \notin Conns
    /\ Senders \subseteq Conns /\ Impatient \subseteq Conns \ Senders
    /\ Fds \subseteq Nat \ {0}       \* 0 says that a client id is not in the map
    /\ \A k \in Conns : ResultBlocks(k) \in Nat \ {0}    \* QueryResultHandler makes one at least
    /\ {RequestRoom, ResultRoom} \subseteq Nat \ {0} /\ MaxRead \in Nat

Ids == {ClientId(k) : k \in Conns}
Listen == 0          \* listen_fd_, among the events
NoFd == 0
NoId == 0

VARIABLES
    link, sent, replies,   \* each client: its end of the connection, requests sent,
                           \* what it has received
    backlog,               \* connections to accept
    socket,                \* the connection behind each file descriptor
    mode, ready,           \* epoll: READ_MODE or WRITE_MODE; descriptors with an event
    unread,                \* requests waiting in each connection
    client_id_fd_map, fd_client_id_map,
    fd_ack_set, fd_result_map,
    spc, batch, sockfd, request,    \* log_server: where it is, events_, the request read
    fd_list, nread,                 \* in Read_result_queue
    msg_queue, result_queue,
    answering, blocks,     \* log_processor: its query, result blocks to come
    cutShort, idShared     \* history

clientVars == <<link, sent, replies>>
socketVars == <<backlog, socket, mode, ready, unread>>
mapVars    == <<client_id_fd_map, fd_client_id_map, fd_ack_set, fd_result_map>>
loopVars   == <<spc, batch, sockfd, request, fd_list, nread>>
queueVars  == <<msg_queue, result_queue>>
processorVars == <<answering, blocks>>
history    == <<cutShort, idShared>>
vars == <<clientVars, socketVars, mapVars, loopVars, queueVars, processorVars, history>>

Requests == UNION {{k} \X (1 .. Len(Script(k))) : k \in Conns}
NoRequest == <<>>
Kind(r) == Script(r[1])[r[2]]

(* A QueryResult: its number among the answer's blocks; 0 for the block    *)
(* with the count and the time, which is written last.  of is the query it *)
(* answers, which the program does not record.                             *)
Block(r, n) == [client_id_ |-> ClientId(r[1]), n |-> n, finish_ |-> n = 0, of |-> r]
BlockSet == UNION {{Block(r, n) : n \in 0 .. ResultBlocks(r[1])} : r \in Requests}
Ack == [ack |-> TRUE]

Init ==
    /\ link = [k \in Conns |-> "none"] /\ sent = [k \in Conns |-> 0]
    /\ replies = [k \in Conns |-> <<>>]
    /\ backlog = <<>> /\ socket = [fd \in Fds |-> NoConn]
    /\ mode = [fd \in Fds |-> "read"] /\ ready = {}
    /\ unread = [k \in Conns |-> <<>>]
    /\ client_id_fd_map = [id \in Ids |-> NoFd] /\ fd_client_id_map = [fd \in Fds |-> NoId]
    /\ fd_ack_set = {} /\ fd_result_map = [fd \in Fds |-> <<>>]
    /\ spc = "results" /\ batch = {} /\ sockfd = NoFd /\ request = NoRequest
    /\ fd_list = {} /\ nread = 0
    /\ msg_queue = <<>> /\ result_queue = <<>>
    /\ answering = NoRequest /\ blocks = <<>>
    /\ cutShort = FALSE /\ idShared = FALSE

-----------------------------------------------------------------------------
(* The sockets.  Epoll_Obj asks for edge-triggered events: a descriptor in *)
(* READ_MODE has one when something arrives, and any has one when its mode *)
(* is set while what it waits for is there.                                *)
Open(fd) == socket[fd] # NoConn
Arrived(k) == {fd \in Fds : socket[fd] = k /\ mode[fd] = "read"}
Readable(k) == unread[k] # <<>> \/ link[k] = "closed"

(* The clients.  One sends a request when it has the reply to the last     *)
(* (log_sender does not wait) and ends the connection when it has all.  An *)
(* impatient one shuts its sending side before: log_server sees the end of *)
(* the stream, and may still send.  (One that closes both sides can also   *)
(* end log_server by SIGPIPE, which is left out.)                          *)
Answered(k) == \E i \in 1 .. Len(replies[k]) : replies[k][i] # Ack /\ replies[k][i].finish_
Acked(k) == Cardinality({i \in 1 .. Len(replies[k]) : replies[k][i] = Ack})
Waits(k) == k \notin Senders /\ Acked(k) + (IF Answered(k) THEN 1 ELSE 0) < sent[k]
Done(k) == sent[k] = Len(Script(k)) /\ ~ Waits(k)

Connect(k) ==
    /\ link[k] = "none"
    /\ link' = [link EXCEPT ![k] = "open"]
    /\ backlog' = Append(backlog, k)
    /\ ready' = ready \cup {Listen}
    /\ UNCHANGED <<sent, replies, socket, mode, unread, mapVars, loopVars, queueVars,
                   processorVars, history>>

Send(k) ==
    /\ link[k] = "open" /\ sent[k] < Len(Script(k)) /\ ~ Waits(k)
    /\ sent' = [sent EXCEPT ![k] = @ + 1]
    /\ unread' = [unread EXCEPT ![k] = Append(@, <<k, sent[k] + 1>>)]
    /\ ready' = ready \cup Arrived(k)
    /\ UNCHANGED <<link, replies, backlog, socket, mode, mapVars, loopVars, queueVars,
                   processorVars, history>>

Close(k) ==
    /\ link[k] = "open" /\ k \notin Senders
    /\ Done(k) \/ k \in Impatient
    /\ link' = [link EXCEPT ![k] = "closed"]
    /\ ready' = ready \cup Arrived(k)
    /\ UNCHANGED <<sent, replies, backlog, socket, mode, unread, mapVars, loopVars,
                   queueVars, processorVars, history>>

-----------------------------------------------------------------------------
(* log_server.  Read_result_queue: a block for a known client id is kept   *)
(* for the connection, and the end of an answer makes it writable.         *)
Writable_at_each_block(fd, block) == {fd}      \* a slip: without the look at finish_
Writable(fd, block) == IF block.finish_ THEN {fd} ELSE {}

TakeResult ==
    /\ spc = "results" /\ result_queue # <<>> /\ nread <= MaxRead
    /\ LET block == Head(result_queue)
           fd == client_id_fd_map[block.client_id_]
       IN  IF fd = NoFd THEN UNCHANGED <<fd_result_map, fd_list>>
           ELSE /\ fd_result_map' = [fd_result_map EXCEPT ![fd] = Append(@, block)]
                /\ fd_list' = fd_list \cup Writable(fd, block)
    /\ result_queue' = Tail(result_queue)
    /\ nread' = nread + 1
    /\ UNCHANGED <<clientVars, socketVars, client_id_fd_map, fd_client_id_map, fd_ack_set,
                   spc, batch, sockfd, request, msg_queue, processorVars, history>>

(* SetWrite of each -- epoll_ctl fails on a closed one, and the process    *)
(* exits -- and then Epoll_Wait hands out the events there are.            *)
EndResults ==
    /\ spc = "results" /\ (result_queue = <<>> \/ nread > MaxRead)
    /\ mode' = [fd \in Fds |-> IF fd \in fd_list THEN "write" ELSE mode[fd]]
    /\ batch' = ready \cup fd_list
    /\ ready' = {}
    /\ spc' = IF \E fd \in fd_list : ~ Open(fd) THEN "exited" ELSE "serve"
    /\ fd_list' = {} /\ nread' = 0
    /\ UNCHANGED <<clientVars, backlog, socket, unread, mapVars, sockfd, request,
                   queueVars, processorVars, history>>

(* accept4 until there is nothing to accept; AddFd waits for requests.     *)
Accept ==
    /\ spc = "serve" /\ Listen \in batch /\ backlog # <<>>
    /\ LET k == Head(backlog)
           free == {fd \in Fds : ~ Open(fd)}
       IN  IF free = {} THEN spc' = "exited" /\ UNCHANGED <<socket, mode, ready>>
           ELSE /\ socket' = [socket EXCEPT ![Min(free)] = k]
                /\ mode' = [mode EXCEPT ![Min(free)] = "read"]
                /\ ready' = IF Readable(k) THEN ready \cup {Min(free)} ELSE ready
                /\ UNCHANGED spc
    /\ backlog' = Tail(backlog)
    /\ UNCHANGED <<clientVars, unread, mapVars, batch, sockfd, request, fd_list, nread,
                   queueVars, processorVars, history>>

EndAccept ==
    /\ spc = "serve" /\ Listen \in batch /\ backlog = <<>>
    /\ batch' = batch \ {Listen}
    /\ UNCHANGED <<clientVars, socketVars, mapVars, spc, sockfd, request, fd_list, nread,
                   queueVars, processorVars, history>>

(* DelFd, Del_fd_from_result_index_strucure and close.                     *)
ForgetId_of_fd_only(fd) == client_id_fd_map      \* a slip: one of the two maps
ForgetId(fd) ==
    [id \in Ids |-> IF id = fd_client_id_map[fd] THEN NoFd ELSE client_id_fd_map[id]]

Forget(fd) ==
    /\ client_id_fd_map' = ForgetId(fd)
    /\ fd_client_id_map' = [fd_client_id_map EXCEPT ![fd] = NoId]
    /\ fd_result_map' = [fd_result_map EXCEPT ![fd] = <<>>]

Release(fd) ==
    /\ socket' = [socket EXCEPT ![fd] = NoConn]
    /\ ready' = ready \ {fd}

-----------------------------------------------------------------------------
(* Read_fd_work.                                                           *)
BeginRead ==
    /\ spc = "serve"
    /\ \E fd \in batch \ {Listen} : mode[fd] = "read" /\ sockfd' = fd /\ batch' = batch \ {fd}
    /\ spc' = "recv"
    /\ UNCHANGED <<clientVars, socketVars, mapVars, request, fd_list, nread, queueVars,
                   processorVars, history>>

(* A sender's message fills the buffer; a shorter request is followed by   *)
(* another recv, which may find that the client has closed: then the       *)
(* connection is gone before its request is passed on.                     *)
Recv ==
    /\ spc = "recv" /\ unread[socket[sockfd]] # <<>>
    /\ LET k == socket[sockfd]
       IN  /\ request' = Head(unread[k])
           /\ unread' = [unread EXCEPT ![k] = Tail(@)]
           /\ IF k \notin Senders /\ link[k] = "closed"
                THEN Forget(sockfd) /\ Release(sockfd) /\ cutShort' = TRUE
                ELSE UNCHANGED <<client_id_fd_map, fd_client_id_map, fd_result_map,
                                 socket, ready, cutShort>>
    /\ spc' = "put"
    /\ UNCHANGED <<clientVars, backlog, mode, fd_ack_set, batch, sockfd, fd_list, nread,
                   queueVars, processorVars, idShared>>

RecvNothing ==
    /\ spc = "recv" /\ unread[socket[sockfd]] = <<>> /\ link[socket[sockfd]] = "open"
    /\ spc' = "serve"
    /\ UNCHANGED <<clientVars, socketVars, mapVars, batch, sockfd, request, fd_list, nread,
                   queueVars, processorVars, history>>

RecvClosed ==
    /\ spc = "recv" /\ unread[socket[sockfd]] = <<>> /\ link[socket[sockfd]] = "closed"
    /\ Forget(sockfd) /\ Release(sockfd)
    /\ spc' = "serve"
    /\ UNCHANGED <<clientVars, backlog, mode, unread, fd_ack_set, batch, sockfd, request,
                   fd_list, nread, queueVars, processorVars, history>>

(* Write_msg_to_msgqueue, which spins while the queue is full: an answer   *)
(* will go to the connection the id was first seen on; a request without   *)
(* an id is acknowledged when the socket can be written.                   *)
RoomForRequest_unchecked == TRUE               \* a slip: no look at Full
RoomForRequest == Len(msg_queue) < RequestRoom

InsertId(id, fd) ==
    /\ client_id_fd_map' = [client_id_fd_map EXCEPT ![id] = IF @ = NoFd THEN fd ELSE @]
    /\ fd_client_id_map' = [fd_client_id_map EXCEPT ![fd] = IF @ = NoId THEN id ELSE @]

(* The id is in the map for another descriptor, or an answer to it is to   *)
(* come for another client's query.                                        *)
InUse(id, fd) ==
    \/ client_id_fd_map[id] \notin {NoFd, fd}
    \/ \E r \in ToSet(msg_queue) : Kind(r) = "query" /\ ClientId(r[1]) = id /\ r[1] # request[1]
    \/ \E block \in ToSet(result_queue) \cup ToSet(blocks) :
           block.client_id_ = id /\ block.of[1] # request[1]

AfterRequest == IF request[1] \in Senders THEN "recv" ELSE "serve"

PutQuery ==
    /\ spc = "put" /\ RoomForRequest /\ Kind(request) # "append"
    /\ InsertId(ClientId(request[1]), sockfd)
    /\ idShared' = (idShared \/ InUse(ClientId(request[1]), sockfd))
    /\ msg_queue' = Append(msg_queue, request)
    /\ request' = NoRequest
    /\ spc' = AfterRequest
    /\ UNCHANGED <<clientVars, socketVars, fd_ack_set, fd_result_map, batch, sockfd,
                   fd_list, nread, result_queue, processorVars, cutShort>>

PutAppend ==
    /\ spc = "put" /\ RoomForRequest /\ Kind(request) = "append"
    /\ msg_queue' = Append(msg_queue, request)
    /\ mode' = [mode EXCEPT ![sockfd] = "write"]
    /\ ready' = ready \cup {sockfd}
    /\ fd_ack_set' = fd_ack_set \cup {sockfd}
    /\ request' = NoRequest
    /\ spc' = IF Open(sockfd) THEN AfterRequest ELSE "exited"
    /\ UNCHANGED <<clientVars, backlog, socket, unread, client_id_fd_map, fd_client_id_map,
                   fd_result_map, batch, sockfd, fd_list, nread, result_queue, processorVars,
                   history>>

-----------------------------------------------------------------------------
(* Write_fd_work: Ack_to_fd, which makes the connection readable again,    *)
(* then Result_to_fd.                                                      *)
Acks(fd) == IF fd \in fd_ack_set THEN <<Ack>> ELSE <<>>

ModeAfterAck(fd) == IF fd \in fd_ack_set THEN [mode EXCEPT ![fd] = "read"] ELSE mode

(* The block with the count, which came last, is sent first.               *)
Rotated(list) == IF list = <<>> THEN <<>> ELSE <<Last(list)>> \o Front(list)

(* finish is taken from the block sent last.                               *)
CloseAfter(list) == list # <<>> /\ Last(Rotated(list)).finish_

WriteFd ==
    /\ spc = "serve"
    /\ \E fd \in batch \ {Listen} :
         /\ mode[fd] = "write"
         /\ LET k == socket[fd]
                list == fd_result_map[fd]
            IN  /\ replies' = [replies EXCEPT ![k] = @ \o Acks(fd) \o Rotated(list)]
                /\ IF list = <<>>
                     THEN UNCHANGED <<client_id_fd_map, fd_client_id_map, fd_result_map>>
                     ELSE Forget(fd)
                /\ mode' = ModeAfterAck(fd)
                /\ IF CloseAfter(list) THEN Release(fd)
                   ELSE /\ UNCHANGED socket
                        /\ ready' = IF mode'[fd] = "read" /\ Readable(k) THEN ready \cup {fd}
                                                                         ELSE ready
         /\ fd_ack_set' = fd_ack_set \ {fd}
         /\ batch' = batch \ {fd}
    /\ UNCHANGED <<link, sent, backlog, unread, spc, sockfd, request, fd_list, nread,
                   queueVars, processorVars, history>>

EndServe ==
    /\ spc = "serve" /\ batch = {}
    /\ spc' = "results" /\ sockfd' = NoFd
    /\ UNCHANGED <<clientVars, socketVars, mapVars, batch, request, fd_list, nread,
                   queueVars, processorVars, history>>

-----------------------------------------------------------------------------
(* log_processor takes a request, drops it if it is invalid and, for a     *)
(* query, spins on each block until result_queue has room                  *)
(* (QueryResultHandler).                                                   *)
ReadRequest ==
    /\ answering = NoRequest /\ msg_queue # <<>>
    /\ LET r == Head(msg_queue)
       IN  IF Kind(r) # "query" THEN UNCHANGED <<answering, blocks>>
           ELSE /\ answering' = r
                /\ blocks' = Append([i \in 1 .. ResultBlocks(r[1]) |-> Block(r, i)], Block(r, 0))
    /\ msg_queue' = Tail(msg_queue)
    /\ UNCHANGED <<clientVars, socketVars, mapVars, loopVars, result_queue, history>>

WriteBlock ==
    /\ answering # NoRequest /\ Len(result_queue) < ResultRoom
    /\ result_queue' = Append(result_queue, Head(blocks))
    /\ blocks' = Tail(blocks)
    /\ answering' = IF Len(blocks) = 1 THEN NoRequest ELSE answering
    /\ UNCHANGED <<clientVars, socketVars, mapVars, loopVars, msg_queue, history>>

-----------------------------------------------------------------------------
Server == \/ TakeResult \/ EndResults \/ Accept \/ EndAccept
          \/ BeginRead \/ Recv \/ RecvNothing \/ RecvClosed
          \/ PutQuery \/ PutAppend \/ WriteFd \/ EndServe

Processor == ReadRequest \/ WriteBlock

Client(k) == Connect(k) \/ Send(k) \/ Close(k)

Next == Server \/ Processor \/ \E k \in Conns : Client(k)

Spec == Init /\ [][Next]_vars

(* Both processes go round their loops; a client need not do anything.     *)
FairSpec == Spec /\ WF_vars(Server) /\ WF_vars(Processor)

-----------------------------------------------------------------------------
TypeOK ==
    /\ link \in [Conns -> {"none", "open", "closed"}]
    /\ sent \in [Conns -> Nat] /\ replies \in [Conns -> Seq(BlockSet \cup {Ack})]
    /\ backlog \in Seq(Conns) /\ socket \in [Fds -> Conns \cup {NoConn}]
    /\ mode \in [Fds -> {"read", "write"}]
    /\ ready \subseteq Fds \cup {Listen} /\ batch \subseteq Fds \cup {Listen}
    /\ unread \in [Conns -> Seq(Requests)]
    /\ client_id_fd_map \in [Ids -> Fds \cup {NoFd}]
    /\ fd_client_id_map \in [Fds -> Ids \cup {NoId}]
    /\ fd_ack_set \subseteq Fds /\ fd_result_map \in [Fds -> Seq(BlockSet)]
    /\ spc \in {"results", "serve", "recv", "put", "exited"}
    /\ sockfd \in Fds \cup {NoFd} /\ request \in Requests \cup {NoRequest}
    /\ fd_list \subseteq Fds /\ nread \in 0 .. MaxRead + 1
    /\ msg_queue \in Seq(Requests) /\ Len(msg_queue) <= RequestRoom
    /\ result_queue \in Seq(BlockSet) /\ Len(result_queue) <= ResultRoom
    /\ answering \in Requests \cup {NoRequest} /\ blocks \in Seq(BlockSet)
    /\ cutShort \in BOOLEAN /\ idShared \in BOOLEAN

(* Neither has happened that log_server has no defence against.            *)
Orderly == ~ cutShort /\ ~ idShared

(* No client id leads to a connection that has been closed, or to another  *)
(* client's that got its descriptor (log_server.cpp:54): the two maps are  *)
(* each other's inverse, and what waits to be sent on a connection is for  *)
(* the client behind it.                                                   *)
MapsSound ==
    Orderly => \A fd \in Fds :
        /\ \A id \in Ids : client_id_fd_map[id] = fd <=> fd_client_id_map[fd] = id
        /\ fd_client_id_map[fd] # NoId =>
               Open(fd) /\ ClientId(socket[fd]) = fd_client_id_map[fd]
        /\ fd_result_map[fd] # <<>> => fd_client_id_map[fd] # NoId
        /\ \A i \in 1 .. Len(fd_result_map[fd]) : fd_result_map[fd][i].of[1] = socket[fd]

(* Only two things end the process: epoll_ctl on a descriptor closed       *)
(* before its request was passed on (DelFd and ModifyFdMode, Epoll.h:54,   *)
(* 73), and accept with every descriptor in use (log_server.cpp:402), as   *)
(* answered connections are not closed; not even a shared id.              *)
ExitsExplained == spc = "exited" => cutShort \/ \A fd \in Fds : Open(fd)

(* An answer arrives whole, in order, once, and at the client that asked,  *)
(* behind the ACKs of the requests before: first the block with the count, *)
(* then the result blocks, however the server read them from the queue     *)
(* (log_server.cpp:352-363, 475).                                          *)
AnswersWhole ==
    Orderly => \A k \in Conns :
        \E acks \in 0 .. Len(replies[k]) :
            /\ \A i \in 1 .. acks : replies[k][i] = Ack
            /\ \/ Len(replies[k]) = acks
               \/ \E r \in Requests :
                     /\ r[1] = k /\ Len(replies[k]) = acks + ResultBlocks(k) + 1
                     /\ \A n \in 0 .. ResultBlocks(k) : replies[k][acks + n + 1] = Block(r, n)

(* log_server takes every request, whatever log_processor is doing: the two *)
(* processes never wait for each other for ever, the one for room in       *)
(* msg_queue (log_server.cpp:181), the other for room in result_queue,     *)
(* which only log_server empties (data_manager.cpp:337, 347, 356).         *)
NoStandoff ==
    ~ /\ spc = "put" /\ ~ RoomForRequest
      /\ answering # NoRequest /\ Len(result_queue) = ResultRoom

(* A client that waits is replied to: each request is acknowledged or      *)
(* answered, whatever the other clients do; and a request once sent gets   *)
(* to log_processor, ACKs or not, from a sender that goes on sending --    *)
(* unless log_server has exited or stands off with log_processor, a client *)
(* was cut short or shared an id, the client has given up, or the request  *)
(* is invalid, which is neither acknowledged nor answered.                 *)
Invalid(k) == sent[k] > 0 /\ Script(k)[sent[k]] = "invalid"
Stopped == spc = "exited" \/ ~ NoStandoff \/ ~ Orderly

=============================================================================
