-------------------------- MODULE LogServerProofs ---------------------------
(***************************************************************************)
(* Answers reach the client that asked, whole and once, until a client is  *)
(* cut short or shares an id, and log_server exits in two ways alone, for  *)
(* any number of connections and descriptors, any scripts and ids, and any *)
(* room in the two queues.                                                 *)
(***************************************************************************)
EXTENDS LogServer, SequenceTheorems, FiniteSetTheorems, WellFoundedInduction, TLAPS

-----------------------------------------------------------------------------
(* A connection is made once: it waits in the backlog, then has one        *)
(* descriptor.  log_sender does not end its own.                           *)
Links ==
    /\ \A k \in Conns : link[k] = "none" =>
          /\ sent[k] = 0
          /\ \A i \in 1 .. Len(backlog) : backlog[i] # k
          /\ \A fd \in Fds : socket[fd] # k
    /\ \A i, j \in 1 .. Len(backlog) : i # j => backlog[i] # backlog[j]
    /\ \A i \in 1 .. Len(backlog) : \A fd \in Fds : socket[fd] # backlog[i]
    /\ \A fd, other \in Fds : Open(fd) /\ socket[fd] = socket[other] => fd = other
    /\ \A k \in Conns : link[k] = "closed" => k \notin Senders

(* The process has ended with every descriptor in use, if at all. *)
Exits == spc = "exited" => \A fd \in Fds : Open(fd)

(* No closed descriptor has an event or an ACK to send.                    *)
Descriptors ==
    /\ \A fd \in (ready \cup batch \cup fd_list) \ {Listen} : Open(fd)
    /\ \A fd \in fd_ack_set : Open(fd) /\ mode[fd] = "write"
    /\ spc = "results" => batch = {}
    /\ spc # "results" => fd_list = {}
    /\ spc \in {"recv", "put"} =>
          /\ sockfd \in Fds /\ Open(sockfd) /\ sockfd \notin batch
          /\ socket[sockfd] \notin Senders => mode[sockfd] = "read"
    /\ spc = "put" => request # NoRequest /\ request[1] = socket[sockfd]
    /\ spc # "put" => request = NoRequest

(* The requests of a client are read in order.  Those that are put in      *)
(* msg_queue are not unread any more, nor in log_server's hands.           *)
InHand(k) == IF request # NoRequest /\ request[1] = k THEN 1 ELSE 0
Put(k) == sent[k] - Len(unread[k]) - InHand(k)

EndsInQuery(k) == Script(k) # <<>> /\ Script(k)[Len(Script(k))] = "query"
Query(k) == <<k, Len(Script(k))>>
QueryPut(k) == EndsInQuery(k) /\ Put(k) = Len(Script(k))

Counts ==
    \A k \in Conns :
        /\ 0 <= Put(k) /\ sent[k] <= Len(Script(k))
        /\ \A i \in 1 .. Len(unread[k]) : unread[k][i] = <<k, sent[k] - Len(unread[k]) + i>>
        /\ request # NoRequest /\ request[1] = k => request = <<k, sent[k] - Len(unread[k])>>

(* What a client has received: ACKs, and then perhaps the whole answer.    *)
Replied(k) == Acked(k) < Len(replies[k])
Replies ==
    \A k \in Conns :
        /\ Acked(k) \in 0 .. Len(replies[k])
        /\ \A i \in 1 .. Acked(k) : replies[k][i] = Ack
        /\ Replied(k) =>
              /\ QueryPut(k) /\ Len(replies[k]) = Acked(k) + ResultBlocks(k) + 1
              /\ \A n \in 0 .. ResultBlocks(k) : replies[k][Acked(k) + n + 1] = Block(Query(k), n)

(* A client that waits for its ACKs is owed one at most, and none when its *)
(* query has been put.                                                     *)
Owed(k) == IF \E fd \in fd_ack_set : socket[fd] = k THEN 1 ELSE 0
Owing ==
    \A k \in Conns \ Senders :
        /\ Acked(k) + Owed(k) <= Put(k) - (IF QueryPut(k) THEN 1 ELSE 0)
        /\ sent[k] <= Acked(k) + 1

(* The blocks on their way, in log_processor's hands or in the queue: one  *)
(* answer behind the other, each from some block to its end.               *)
Flow == result_queue \o blocks
Place(block) == IF block.n = 0 THEN ResultBlocks(block.of[1]) + 1 ELSE block.n
Nth(k, p) == Block(Query(k), IF p = ResultBlocks(k) + 1 THEN 0 ELSE p)

Flowing ==
    /\ answering = NoRequest <=> blocks = <<>>
    /\ \A i \in 1 .. Len(Flow) :
          LET k == Flow[i].of[1]
          IN  /\ k \in Conns /\ QueryPut(k) /\ ~ Replied(k)
              /\ Place(Flow[i]) \in 1 .. ResultBlocks(k) + 1
              /\ Flow[i] = Nth(k, Place(Flow[i]))
    /\ \A i \in 1 .. Len(Flow) - 1 :
          IF Flow[i].n = 0 THEN Flow[i + 1].n = 1
                           ELSE Flow[i + 1] = Nth(Flow[i].of[1], Place(Flow[i]) + 1)
    /\ Len(Flow) > 0 => Flow[Len(Flow)].n = 0
    /\ \A i, j \in 1 .. Len(Flow) : i < j /\ Flow[i].of[1] = Flow[j].of[1] =>
          Place(Flow[i]) < Place(Flow[j])

(* Queries that wait in msg_queue: nothing of their answers is there.      *)
Queued ==
    /\ \A i, j \in 1 .. Len(msg_queue) : i # j /\ Kind(msg_queue[i]) = "query" =>
          msg_queue[i] # msg_queue[j]
    /\ \A i \in 1 .. Len(msg_queue) : Kind(msg_queue[i]) = "query" =>
          LET k == msg_queue[i][1]
          IN  /\ msg_queue[i] = Query(k) /\ QueryPut(k) /\ ~ Replied(k)
              /\ \A j \in 1 .. Len(Flow) : Flow[j].of[1] # k

(* What has been taken of an answer is kept for the connection: the first  *)
(* blocks of it, up to the block that comes next.                          *)
Taken(fd) == Len(fd_result_map[fd])
Begins(k) ==      \* the answer is still to begin
    \/ \E i \in 1 .. Len(msg_queue) : Kind(msg_queue[i]) = "query" /\ msg_queue[i][1] = k
    \/ \E i \in 1 .. Len(Flow) : Flow[i].of[1] = k /\ Flow[i].n = 1

KeptAt(fd, k) ==
    /\ \A i \in 1 .. Taken(fd) : fd_result_map[fd][i] = Nth(k, i)
    /\ Taken(fd) > 0 =>
          /\ QueryPut(k) /\ ~ Replied(k) /\ ~ Begins(k)
          /\ Taken(fd) <= ResultBlocks(k) + 1
          /\ IF Taken(fd) = ResultBlocks(k) + 1
               THEN \A i \in 1 .. Len(Flow) : Flow[i].of[1] # k
               ELSE Len(Flow) > 0 /\ Flow[1].of[1] = k
    /\ Len(Flow) > 0 /\ Flow[1].of[1] = k /\ fd_client_id_map[fd] # NoId =>
          Taken(fd) = Place(Flow[1]) - 1
    /\ fd \in fd_list => Taken(fd) = ResultBlocks(k) + 1
    /\ Open(fd) /\ mode[fd] = "write" /\ fd \notin fd_ack_set =>
          Replied(k) \/ Taken(fd) = ResultBlocks(k) + 1

Kept == \A fd \in Fds : KeptAt(fd, socket[fd])

(* While an answer is to come, its client id leads to no other client. *)
ToCome(k) ==
    \/ \E i \in 1 .. Len(msg_queue) : Kind(msg_queue[i]) = "query" /\ msg_queue[i][1] = k
    \/ \E i \in 1 .. Len(Flow) : Flow[i].of[1] = k
LeadsTo(k) == LET fd == client_id_fd_map[ClientId(k)] IN fd # NoFd => socket[fd] = k
Addressed == \A k \in Conns : ToCome(k) => LeadsTo(k)

(* All this holds until a client is cut short or two share an id. *)
LInv ==
    /\ Orderly
    /\ TypeOK /\ MapsSound /\ Exits
    /\ Links /\ Descriptors /\ Counts /\ Replies /\ Owing /\ Flowing /\ Queued /\ Kept
    /\ Addressed

(* What the types rest on, whatever the clients do. *)
Shape ==
    /\ spc # "exited" => \A fd \in (ready \cup batch) \ {Listen} : Open(fd)
    /\ spc \in {"recv", "put"} => sockfd \in Fds /\ sockfd \notin batch
    /\ spc = "recv" => Open(sockfd)
    /\ spc = "put" => request # NoRequest /\ (request[1] \in Senders => Open(sockfd))
    /\ answering = NoRequest <=> blocks = <<>>
    /\ \A k \in Conns : \A i \in 1 .. Len(unread[k]) : unread[k][i][1] = k

-----------------------------------------------------------------------------
(* Small facts. *)
LEMMA Scripts ==
  ASSUME NEW k \in Conns
  PROVE  Script(k) \in Seq({"append", "query", "invalid"}) /\ Len(Script(k)) \in Nat
  BY ServerAssumption, LenProperties

LEMMA ClientTypes ==
  ASSUME LInv, NEW k \in Conns
  PROVE  /\ k # NoConn
         /\ sent[k] \in Nat /\ unread[k] \in Seq(Requests) /\ Len(unread[k]) \in Nat
         /\ Script(k) \in Seq({"append", "query", "invalid"}) /\ Len(Script(k)) \in Nat
         /\ InHand(k) \in {0, 1} /\ Put(k) \in Nat
         /\ Put(k) + Len(unread[k]) + InHand(k) = sent[k] /\ sent[k] <= Len(Script(k))
<1>1. k # NoConn /\ Script(k) \in Seq({"append", "query", "invalid"}) /\ Len(Script(k)) \in Nat
  BY ServerAssumption, LenProperties
<1>2. sent[k] \in Nat /\ unread[k] \in Seq(Requests) /\ Len(unread[k]) \in Nat
  BY LenProperties DEF LInv, TypeOK
<1>3. InHand(k) \in {0, 1}
  BY DEF InHand
<1>4. 0 <= Put(k) /\ sent[k] <= Len(Script(k))
  BY DEF LInv, Counts
<1> QED
  BY <1>1, <1>2, <1>3, <1>4 DEF Put

(* An ACK is no block of an answer. *)
LEMMA AckIsNoBlock == \A r, n : Block(r, n) # Ack
<1> SUFFICES ASSUME NEW r, NEW n, Block(r, n) = Ack PROVE FALSE
  OBVIOUS
<1>1. "n" \in DOMAIN Block(r, n)
  BY DEF Block
<1>2. "n" \notin DOMAIN Ack
  BY DEF Ack
<1> QED
  BY <1>1, <1>2

(* A client's answer: its blocks in the order they are written. *)
LEMMA BlockFields ==
  \A r, n : /\ Block(r, n).n = n /\ Block(r, n).of = r
            /\ Block(r, n).client_id_ = ClientId(r[1])
  BY DEF Block

(* Only the block with the count ends an answer. *)
LEMMA LastBlock == ASSUME NEW r, NEW n PROVE Block(r, n).finish_ <=> n = 0
<1>1. Block(r, n).finish_ = (n = 0)
  BY DEF Block
<1> QED
  BY <1>1

(* The p-th block that is written of an answer, and its place. *)
LEMMA NthFields ==
  ASSUME NEW k \in Conns, NEW p \in 1 .. ResultBlocks(k) + 1
  PROVE  /\ ResultBlocks(k) \in Nat /\ ResultBlocks(k) > 0
         /\ Nth(k, p).of = Query(k) /\ Nth(k, p).of[1] = k
         /\ Nth(k, p).n = (IF p = ResultBlocks(k) + 1 THEN 0 ELSE p)
         /\ Nth(k, p).finish_ <=> p = ResultBlocks(k) + 1
         /\ Nth(k, p).client_id_ = ClientId(k)
         /\ Place(Nth(k, p)) = p
<1>1. ResultBlocks(k) \in Nat /\ ResultBlocks(k) > 0
  BY ServerAssumption
<1>2. Query(k)[1] = k
  BY DEF Query
<1> DEFINE m == IF p = ResultBlocks(k) + 1 THEN 0 ELSE p
<1>3. Nth(k, p) = Block(Query(k), m)
  BY DEF Nth
<1>4. m \in Nat /\ (m = 0 <=> p = ResultBlocks(k) + 1)
  BY <1>1
<1> HIDE DEF m
<1>5. /\ Nth(k, p).of = Query(k) /\ Nth(k, p).client_id_ = ClientId(Query(k)[1])
      /\ Nth(k, p).n = m
  BY <1>3, BlockFields
<1>6. Nth(k, p).finish_ <=> m = 0
  BY <1>3, LastBlock
<1>7. Place(Nth(k, p)) = p
  BY <1>2, <1>4, <1>5 DEF Place, m
<1> QED
  BY <1>1, <1>2, <1>4, <1>5, <1>6, <1>7 DEF m

(* The query a client ends with is one of its requests. *)
LEMMA QueryIsRequest ==
  ASSUME NEW k \in Conns, EndsInQuery(k)
  PROVE  Query(k) \in Requests /\ Kind(Query(k)) = "query" /\ Len(Script(k)) \in Nat
<1>1. Script(k) \in Seq({"append", "query", "invalid"})
  BY ServerAssumption
<1>2. Len(Script(k)) \in 1 .. Len(Script(k)) /\ Len(Script(k)) \in Nat
  BY <1>1, EmptySeq, LenProperties DEF EndsInQuery
<1> QED
  BY <1>2 DEF EndsInQuery, Query, Requests, Kind

(* A request is a connection and a place in its script; a query is the last. *)
LEMMA RequestFields ==
  ASSUME NEW r \in Requests
  PROVE  /\ r # NoRequest /\ r[1] \in Conns /\ r[2] \in 1 .. Len(Script(r[1]))
         /\ r = <<r[1], r[2]>> /\ Kind(r) \in {"append", "query", "invalid"}
         /\ Kind(r) = "query" => r = Query(r[1]) /\ EndsInQuery(r[1])
<1>1. PICK k \in Conns : r \in {k} \X (1 .. Len(Script(k)))
  BY DEF Requests
<1>2. r[1] = k /\ r[2] \in 1 .. Len(Script(k)) /\ r = <<r[1], r[2]>>
  BY <1>1
<1>3. r # NoRequest
  BY <1>2 DEF NoRequest
<1>4. Script(k) \in Seq({"append", "query", "invalid"}) /\ Len(Script(k)) \in Nat
  BY ServerAssumption, LenProperties
<1>5. Kind(r) \in {"append", "query", "invalid"}
  BY <1>2, <1>4, ElementOfSeq DEF Kind
<1>6. ASSUME Kind(r) = "query" PROVE r = Query(k) /\ EndsInQuery(k)
  <2>1. r[2] \notin 1 .. Len(Script(k)) - 1
    BY <1>2, <1>6, ServerAssumption DEF Kind
  <2>2. r[2] = Len(Script(k)) /\ Script(k) # <<>>
    BY <1>2, <1>4, <2>1
  <2> QED
    BY <1>2, <1>6, <2>2 DEF Query, EndsInQuery, Kind
<1> QED
  BY <1>2, <1>3, <1>5, <1>6

-----------------------------------------------------------------------------
(* Types. *)
LEMMA BlockTypes ==
  ASSUME NEW r \in Requests
  PROVE  /\ ResultBlocks(r[1]) \in Nat /\ ResultBlocks(r[1]) > 0
         /\ \A n \in 0 .. ResultBlocks(r[1]) : Block(r, n) \in BlockSet
         /\ ClientId(r[1]) \in Ids
<1>1. r[1] \in Conns
  BY RequestFields
<1>2. ResultBlocks(r[1]) \in Nat /\ ResultBlocks(r[1]) > 0
  BY <1>1, ServerAssumption
<1> QED
  BY <1>1, <1>2 DEF BlockSet, Ids

(* A block is addressed to the id of the client whose query it answers. *)
LEMMA BlockSetFields ==
  ASSUME NEW b \in BlockSet
  PROVE  /\ b.of \in Requests /\ b.of[1] \in Conns /\ b.client_id_ = ClientId(b.of[1])
         /\ b.n \in 0 .. ResultBlocks(b.of[1]) /\ (b.finish_ <=> b.n = 0)
         /\ b.client_id_ \in Ids /\ b = Block(b.of, b.n)
<1>1. PICK r \in Requests : b \in {Block(r, n) : n \in 0 .. ResultBlocks(r[1])}
  BY DEF BlockSet
<1>2. PICK n \in 0 .. ResultBlocks(r[1]) : b = Block(r, n)
  BY <1>1
<1>3. b.of = r /\ b.client_id_ = ClientId(r[1]) /\ b.n = n
  BY <1>2, BlockFields
<1>4. b.finish_ <=> n = 0
  BY <1>2, LastBlock
<1> QED
  BY <1>2, <1>3, <1>4, RequestFields, BlockTypes

(* Descriptors and ids are numbers that no special value has. *)
LEMMA FdTypes ==
  /\ \A fd \in Fds : fd \in Nat /\ fd > 0 /\ fd # Listen /\ fd # NoFd
  /\ \A id \in Ids : id \in Nat /\ id > 0 /\ id # NoId
  /\ \A k \in Conns : ClientId(k) \in Ids
  BY ServerAssumption DEF Listen, NoFd, NoId, Ids

(* What the least free descriptor is. *)
LEMMA Least ==
  ASSUME NEW T \in SUBSET Nat, T # {}
  PROVE  \E x \in T : \A y \in T : ~ y < x
<1> DEFINE R == OpToRel(<, Nat)
<1>1. IsWellFoundedOn(R, Nat)
  BY NatLessThanWellFounded
<1>2. \E x \in T : \A y \in T : ~ <<y, x>> \in R
  BY <1>1, WFMin
<1> QED
  BY <1>2 DEF OpToRel

(* accept4 gives a descriptor that was free. *)
LEMMA LeastFd ==
  ASSUME NEW S, S \subseteq Fds, S # {}
  PROVE  Min(S) \in S
<1>1. S \in SUBSET Nat
  BY FdTypes
<1>2. \E x \in S : \A y \in S : x <= y
  BY <1>1, Least
<1> QED
  BY <1>2 DEF Min

(* Forgetting a descriptor keeps the types of the maps. *)
LEMMA ForgetTypes ==
  ASSUME TypeOK, NEW fd \in Fds,
         Forget(fd) \/ UNCHANGED <<client_id_fd_map, fd_client_id_map, fd_result_map>>
  PROVE  /\ client_id_fd_map' \in [Ids -> Fds \cup {NoFd}]
         /\ fd_client_id_map' \in [Fds -> Ids \cup {NoId}]
         /\ fd_result_map' \in [Fds -> Seq(BlockSet)]
<1>1. CASE UNCHANGED <<client_id_fd_map, fd_client_id_map, fd_result_map>>
  BY <1>1 DEF TypeOK
<1>2. CASE Forget(fd)
  <2>1. client_id_fd_map' \in [Ids -> Fds \cup {NoFd}]
    BY <1>2 DEF TypeOK, Forget, ForgetId
  <2>2. fd_client_id_map' \in [Fds -> Ids \cup {NoId}]
    BY <1>2 DEF TypeOK, Forget
  <2>3. <<>> \in Seq(BlockSet)
    BY EmptySeq
  <2>4. fd_result_map' \in [Fds -> Seq(BlockSet)]
    BY <1>2, <2>3 DEF TypeOK, Forget
  <2> QED
    BY <2>1, <2>2, <2>4
<1> QED
  BY <1>1, <1>2

(* Every step keeps what they rest on. *)
LEMMA ShapeStep ==
  ASSUME TypeOK, Shape, [Next]_vars
  PROVE  Shape'
<1> USE FdTypes
<1>0. TypeOK /\ Shape /\ \A k \in Conns : k # NoConn
  BY ServerAssumption
<1>1. ASSUME NEW k \in Conns, Connect(k) \/ Close(k) PROVE Shape'
  <2>1. \A fd \in Arrived(k) : Open(fd)
    BY <1>0 DEF Arrived, Open
  <2>2. /\ ready' \subseteq ready \cup Arrived(k) \cup {Listen}
        /\ UNCHANGED <<socket, unread, spc, batch, sockfd, request, answering, blocks>>
    BY <1>1 DEF Connect, Close, socketVars, loopVars, processorVars
  <2> QED
    BY <1>0, <2>1, <2>2 DEF Shape, Open
<1>2. ASSUME NEW k \in Conns, Send(k) PROVE Shape'
  <2>1. \A fd \in Arrived(k) : Open(fd)
    BY <1>0 DEF Arrived, Open
  <2>2. /\ ready' = ready \cup Arrived(k)
        /\ unread' = [unread EXCEPT ![k] = Append(@, <<k, sent[k] + 1>>)]
        /\ UNCHANGED <<socket, spc, batch, sockfd, request, answering, blocks>>
    BY <1>2 DEF Send, socketVars, loopVars, processorVars
  <2> DEFINE r == <<k, sent[k] + 1>>
  <2>3. unread[k] \in Seq(Requests) /\ Len(unread[k]) \in Nat /\ r \in Requests
    <3>1. unread[k] \in Seq(Requests) /\ Len(unread[k]) \in Nat
      BY <1>0, LenProperties DEF TypeOK
    <3>2. sent[k] \in Nat /\ sent[k] < Len(Script(k)) /\ Len(Script(k)) \in Nat
      BY <1>0, <1>2, Scripts DEF TypeOK, Send
    <3>3. sent[k] + 1 \in 1 .. Len(Script(k))
      BY <3>2
    <3> QED
      BY <3>1, <3>3 DEF Requests
  <2>4. r[1] = k
    OBVIOUS
  <2> HIDE DEF r
  <2>5. /\ Len(Append(unread[k], r)) = Len(unread[k]) + 1
        /\ \A i \in 1 .. Len(unread[k]) : Append(unread[k], r)[i] = unread[k][i]
        /\ Append(unread[k], r)[Len(unread[k]) + 1] = r
    BY <2>3, AppendProperties
  <2>6. \A i \in 1 .. Len(unread'[k]) : unread'[k][i][1] = k
    <3>1. unread'[k] = Append(unread[k], r)
      BY <1>0, <2>2 DEF TypeOK, r
    <3>2. \A i \in 1 .. Len(unread[k]) : unread[k][i][1] = k
      BY <1>0 DEF Shape
    <3>3. \A i \in 1 .. Len(unread[k]) + 1 : i \in 1 .. Len(unread[k]) \/ i = Len(unread[k]) + 1
      BY <2>3
    <3> QED
      BY <2>4, <2>5, <3>1, <3>2, <3>3
  <2>7. \A l \in Conns \ {k} : unread'[l] = unread[l]
    BY <1>0, <2>2 DEF TypeOK
  <2> QED
    BY <1>0, <2>1, <2>2, <2>6, <2>7 DEF Shape, Open
<1>3. CASE EndResults
  BY <1>0, <1>3 DEF TypeOK, Shape, Open, EndResults, processorVars
<1>4. CASE Accept
  <2>1. backlog \in Seq(Conns) /\ backlog # <<>>
    BY <1>0, <1>4 DEF TypeOK, Accept
  <2>2. Head(backlog) # NoConn
    BY <1>0, <2>1, HeadTailProperties
  <2>3. CASE {fd \in Fds : ~ Open(fd)} = {}
    BY <1>0, <1>4, <2>3 DEF Shape, Accept, Open, processorVars
  <2>4. CASE {fd \in Fds : ~ Open(fd)} # {}
    <3> DEFINE fd == Min({x \in Fds : ~ Open(x)})
    <3>1. fd \in Fds /\ fd \in {x \in Fds : ~ Open(x)}
      BY <2>4, LeastFd
    <3>2. /\ socket' = [socket EXCEPT ![fd] = Head(backlog)]
          /\ ready' \subseteq ready \cup {fd}
          /\ UNCHANGED <<unread, spc, batch, sockfd, request, answering, blocks>>
      BY <1>4, <2>4 DEF Accept, processorVars
    <3> HIDE DEF fd
    <3>3. \A f \in Fds : Open(f) \/ f = fd => Open(f)'
      BY <1>0, <2>2, <3>1, <3>2 DEF TypeOK, Open
    <3>4. (spc # "exited" => \A f \in (ready \cup batch) \ {Listen} : Open(f))'
      BY <1>0, <3>1, <3>2, <3>3 DEF TypeOK, Shape, Open
    <3>5. (/\ spc \in {"recv", "put"} => sockfd \in Fds /\ sockfd \notin batch
           /\ spc = "recv" => Open(sockfd)
           /\ spc = "put" => request # NoRequest /\ (request[1] \in Senders => Open(sockfd)))'
      BY <1>0, <3>2, <3>3 DEF Shape, Open
    <3>6. (/\ answering = NoRequest <=> blocks = <<>>
           /\ \A k \in Conns : \A i \in 1 .. Len(unread[k]) : unread[k][i][1] = k)'
      BY <1>0, <3>2 DEF Shape
    <3> QED
      BY <3>4, <3>5, <3>6 DEF Shape
  <2> QED
    BY <2>3, <2>4
<1>5. CASE TakeResult \/ EndAccept \/ RecvNothing \/ EndServe \/ UNCHANGED vars
  BY <1>0, <1>5 DEF Shape, Open, TakeResult, EndAccept, RecvNothing, EndServe, vars,
                    socketVars, loopVars, processorVars
<1>6. CASE BeginRead
  BY <1>0, <1>6 DEF TypeOK, Shape, Open, BeginRead, socketVars, loopVars, processorVars
<1>7. CASE Recv
  <2> DEFINE k == socket[sockfd]
             s == unread[k]
  <2>1. sockfd \in Fds /\ k \in Conns /\ sockfd \notin batch /\ spc = "recv"
    BY <1>0, <1>7 DEF Shape, Open, Recv, TypeOK
  <2>2. s \in Seq(Requests) /\ s # <<>> /\ request' = Head(s) /\ spc' = "put"
    BY <1>0, <1>7, <2>1 DEF Recv, TypeOK
  <2>3. /\ Head(s) = s[1] /\ Head(s) \in Requests /\ Len(s) \in Nat /\ Len(s) > 0
        /\ Len(Tail(s)) = Len(s) - 1
        /\ \A i \in 1 .. Len(s) - 1 : Tail(s)[i] = s[i + 1]
    BY <2>2, EmptySeq, HeadTailProperties, LenProperties
  <2>4. request' # NoRequest /\ request'[1] = k
    <3>1. s[1][1] = k /\ s[1] \in Requests
      BY <1>0, <2>1, <2>3 DEF Shape
    <3>2. s[1] # NoRequest
      BY <3>1, RequestFields
    <3> QED
      BY <2>2, <2>3, <3>1, <3>2
  <2>5. /\ unread' = [unread EXCEPT ![k] = Tail(s)]
        /\ UNCHANGED <<batch, sockfd, answering, blocks>>
        /\ \/ UNCHANGED <<socket, ready>>
           \/ k \notin Senders /\ socket' = [socket EXCEPT ![sockfd] = NoConn] /\ ready' = ready \ {sockfd}
    BY <1>7 DEF Recv, Release, processorVars
  <2>6. \A l \in Conns : \A i \in 1 .. Len(unread'[l]) : unread'[l][i][1] = l
    <3>1. \A i \in 1 .. Len(Tail(s)) : Tail(s)[i][1] = k
      BY <1>0, <2>1, <2>3 DEF Shape
    <3> QED
      BY <1>0, <2>1, <2>5, <3>1 DEF TypeOK, Shape
  <2>7. \A fd \in Fds \ {sockfd} : Open(fd) => Open(fd)'
    BY <1>0, <2>1, <2>5 DEF TypeOK, Open
  <2>8. k \in Senders => Open(sockfd)'
    BY <1>0, <2>1, <2>5 DEF Open
  <2>9. \A fd \in (ready' \cup batch') \ {Listen} : Open(fd)'
    BY <1>0, <2>1, <2>5, <2>7 DEF TypeOK, Shape, Open
  <2> HIDE DEF k, s
  <2> QED
    BY <1>0, <2>1, <2>2, <2>4, <2>5, <2>6, <2>8, <2>9 DEF Shape
<1>8. CASE RecvClosed
  <2>1. /\ sockfd \in Fds /\ sockfd \notin batch /\ spc = "recv" /\ spc' = "serve"
        /\ socket' = [socket EXCEPT ![sockfd] = NoConn] /\ ready' = ready \ {sockfd}
        /\ UNCHANGED <<unread, batch, answering, blocks>>
    BY <1>0, <1>8 DEF Shape, RecvClosed, Release, processorVars
  <2> QED
    BY <1>0, <2>1 DEF TypeOK, Shape, Open
<1>9. CASE PutQuery
  BY <1>0, <1>9 DEF Shape, Open, PutQuery, AfterRequest, socketVars, processorVars
<1>10. CASE PutAppend
  BY <1>0, <1>10 DEF Shape, Open, PutAppend, AfterRequest, processorVars
<1>11. CASE WriteFd
  <2>1. PICK fd \in batch \ {Listen} :
           /\ batch' = batch \ {fd}
           /\ \/ socket' = [socket EXCEPT ![fd] = NoConn] /\ ready' = ready \ {fd}
              \/ socket' = socket /\ ready' \subseteq ready \cup {fd}
    BY <1>11 DEF WriteFd, Release
  <2>2. spc = "serve" /\ UNCHANGED <<unread, spc, sockfd, request, answering, blocks>>
    BY <1>11 DEF WriteFd, processorVars
  <2>3. fd \in Fds /\ Open(fd)
    BY <1>0, <2>1, <2>2 DEF TypeOK, Shape
  <2>4. \A f \in (ready' \cup batch') \ {Listen} : Open(f)'
    BY <1>0, <2>1, <2>2, <2>3 DEF TypeOK, Shape, Open
  <2> QED
    BY <1>0, <2>2, <2>4 DEF Shape
<1>12. CASE ReadRequest
  <2>1. /\ answering' = NoRequest <=> blocks' = <<>>
        /\ UNCHANGED <<socketVars, loopVars>>
    <3>1. Head(msg_queue) # NoRequest
      <4>1. msg_queue \in Seq(Requests) /\ msg_queue # <<>>
        BY <1>0, <1>12 DEF TypeOK, ReadRequest
      <4> QED
        BY <4>1, HeadTailProperties, RequestFields
    <3>2. \A s : \A b : Append(s, b) # <<>>
      OBVIOUS
    <3> QED
      BY <1>0, <1>12, <3>1, <3>2 DEF Shape, ReadRequest
  <2> QED
    BY <1>0, <2>1 DEF Shape, Open, socketVars, loopVars
<1>13. CASE WriteBlock
  <2>1. blocks \in Seq(BlockSet) /\ blocks # <<>> /\ answering # NoRequest
    BY <1>0, <1>13 DEF TypeOK, Shape, WriteBlock
  <2>2. Len(blocks) \in Nat /\ Len(Tail(blocks)) = Len(blocks) - 1 /\ Tail(blocks) \in Seq(BlockSet)
    BY <2>1, EmptySeq, HeadTailProperties, LenProperties
  <2>3. Tail(blocks) = <<>> <=> Len(blocks) = 1
    <3> DEFINE rest == Tail(blocks)
    <3>1. rest \in Seq(BlockSet) /\ Len(rest) = Len(blocks) - 1
      BY <2>2
    <3> HIDE DEF rest
    <3>2. rest = <<>> <=> Len(rest) = 0
      BY <3>1, EmptySeq
    <3>3. Len(rest) = 0 <=> Len(blocks) = 1
      BY <2>2, <3>1
    <3> QED
      BY <3>2, <3>3 DEF rest
  <2>4. /\ answering' = NoRequest <=> blocks' = <<>>
        /\ UNCHANGED <<socketVars, loopVars>>
    BY <1>13, <2>1, <2>3 DEF WriteBlock
  <2> QED
    BY <1>0, <2>4 DEF Shape, Open, socketVars, loopVars
<1> QED
  BY <1>1, <1>2, <1>3, <1>4, <1>5, <1>6, <1>7, <1>8, <1>9, <1>10, <1>11, <1>12, <1>13
     DEF Next, Server, Processor, Client

(* Every step keeps the types. *)
LEMMA TypeStep ==
  ASSUME TypeOK, Shape, [Next]_vars
  PROVE  TypeOK'
<1> USE FdTypes, ServerAssumption
<1>0. TypeOK /\ Shape /\ \A k \in Conns : sent[k] \in Nat /\ Len(Script(k)) \in Nat
  BY Scripts DEF TypeOK
<1>1. ASSUME NEW k \in Conns, Connect(k) PROVE TypeOK'
  <2>1. Append(backlog, k) \in Seq(Conns)
    BY <1>0, AppendProperties DEF TypeOK
  <2> QED
    BY <1>0, <1>1, <2>1 DEF TypeOK, Connect, clientVars, socketVars, mapVars, loopVars, queueVars, processorVars, history
<1>2. ASSUME NEW k \in Conns, Send(k) PROVE TypeOK'
  <2>1. <<k, sent[k] + 1>> \in Requests
    BY <1>0, <1>2 DEF Send, Requests
  <2>2. Arrived(k) \subseteq Fds
    BY DEF Arrived
  <2>3. Append(unread[k], <<k, sent[k] + 1>>) \in Seq(Requests)
    BY <1>0, <2>1, AppendProperties DEF TypeOK
  <2>4. sent' \in [Conns -> Nat] /\ unread' \in [Conns -> Seq(Requests)]
    BY <1>0, <1>2, <2>3, SMTT(30) DEF TypeOK, Send
  <2>5. ready' = ready \cup Arrived(k)
        /\ UNCHANGED <<link, replies, backlog, socket, mode, mapVars, loopVars, queueVars,
                       processorVars, history>>
    BY <1>2 DEF Send
  <2> QED
    BY <1>0, <2>2, <2>4, <2>5 DEF TypeOK, mapVars, loopVars, queueVars, processorVars, history
<1>3. ASSUME NEW k \in Conns, Close(k) PROVE TypeOK'
  <2>1. Arrived(k) \subseteq Fds
    BY DEF Arrived
  <2>2. link' = [link EXCEPT ![k] = "closed"] /\ ready' = ready \cup Arrived(k)
        /\ UNCHANGED <<sent, replies, backlog, socket, mode, unread, mapVars, loopVars,
                       queueVars, processorVars, history>>
    BY <1>3 DEF Close
  <2> QED
    BY <1>0, <2>1, <2>2 DEF TypeOK, mapVars, loopVars, queueVars, processorVars, history
<1>4. CASE TakeResult
  <2>1. /\ Head(result_queue) \in BlockSet /\ Tail(result_queue) \in Seq(BlockSet)
        /\ Len(Tail(result_queue)) <= ResultRoom
    BY <1>0, <1>4, EmptySeq, HeadTailProperties, LenProperties DEF TypeOK, TakeResult
  <2> DEFINE block == Head(result_queue)
             fd == client_id_fd_map[block.client_id_]
  <2>2. fd \in Fds \cup {NoFd}
    <3>1. block.client_id_ \in Ids
      BY <2>1, BlockSetFields
    <3> QED
      BY <1>0, <3>1 DEF TypeOK
  <2>3. fd_result_map' \in [Fds -> Seq(BlockSet)]
    <3>1. CASE fd = NoFd
      BY <1>0, <1>4, <3>1 DEF TypeOK, TakeResult
    <3>2. CASE fd # NoFd
      <4>1. fd_result_map' = [fd_result_map EXCEPT ![fd] = Append(@, block)]
        BY <1>0, <1>4, <3>2 DEF TakeResult
      <4>2. Append(fd_result_map[fd], block) \in Seq(BlockSet)
        BY <1>0, <2>1, <2>2, <3>2, AppendProperties DEF TypeOK
      <4> HIDE DEF fd, block
      <4> QED
        BY <1>0, <2>2, <3>2, <4>1, <4>2 DEF TypeOK
    <3> QED
      BY <3>1, <3>2
  <2>4. fd_list' \subseteq Fds
    <3>1. fd_list' = fd_list \/ (fd # NoFd /\ fd_list' = fd_list \cup Writable(fd, block))
      BY <1>0, <1>4 DEF TakeResult
    <3>2. Writable(fd, block) \subseteq {fd}
      BY DEF Writable
    <3>3. fd_list \subseteq Fds
      BY <1>0 DEF TypeOK
    <3> HIDE DEF fd, block
    <3> QED
      BY ONLY <2>2, <3>1, <3>2, <3>3
  <2>5. nread' \in 0 .. MaxRead + 1
    BY <1>0, <1>4 DEF TypeOK, TakeResult
  <2> QED
    BY <1>0, <1>4, <2>1, <2>3, <2>4, <2>5 DEF TypeOK, TakeResult, clientVars, socketVars, mapVars, loopVars, queueVars, processorVars, history
<1>5. CASE EndResults
  BY <1>0, <1>5, SMTT(30) DEF TypeOK, EndResults, clientVars, socketVars, mapVars, loopVars, queueVars, processorVars, history
<1>6. CASE Accept
  <2>1. Head(backlog) \in Conns /\ Tail(backlog) \in Seq(Conns)
    BY <1>0, <1>6, EmptySeq, HeadTailProperties DEF TypeOK, Accept
  <2>2. CASE {fd \in Fds : ~ Open(fd)} = {}
    BY <1>0, <1>6, <2>1, <2>2 DEF TypeOK, Accept, clientVars, socketVars, mapVars, loopVars, queueVars, processorVars, history
  <2>3. CASE {fd \in Fds : ~ Open(fd)} # {}
    <3> DEFINE fd == Min({x \in Fds : ~ Open(x)})
    <3>1. fd \in Fds
      BY <2>3, LeastFd
    <3>2. /\ socket' = [socket EXCEPT ![fd] = Head(backlog)] /\ mode' = [mode EXCEPT ![fd] = "read"]
          /\ ready' = IF Readable(Head(backlog)) THEN ready \cup {fd} ELSE ready
          /\ spc' = spc
      BY <1>0, <1>6, <2>3 DEF Accept
    <3> HIDE DEF fd
    <3> QED
      BY <1>0, <1>6, <2>1, <3>1, <3>2 DEF TypeOK, Accept, clientVars, socketVars, mapVars, loopVars, queueVars, processorVars, history
  <2> QED
    BY <2>2, <2>3
<1>7. CASE EndAccept \/ RecvNothing \/ EndServe \/ BeginRead
  <2>1. CASE EndAccept
    BY <1>0, <2>1, Zenon DEF TypeOK, EndAccept, clientVars, socketVars, mapVars, loopVars, queueVars, processorVars, history
  <2>2. CASE RecvNothing
    BY <1>0, <2>2, Zenon DEF TypeOK, RecvNothing, clientVars, socketVars, mapVars, loopVars, queueVars, processorVars, history
  <2>3. CASE EndServe
    BY <1>0, <2>3, Zenon DEF TypeOK, EndServe, clientVars, socketVars, mapVars, loopVars, queueVars, processorVars, history
  <2>4. CASE BeginRead
    <3>1. /\ sockfd' \in Fds /\ batch' \subseteq batch /\ spc' = "recv"
          /\ UNCHANGED <<clientVars, socketVars, mapVars, request, fd_list, nread, queueVars,
                         processorVars, history>>
      BY <1>0, <2>4 DEF TypeOK, BeginRead
    <3> QED
      BY <1>0, <3>1 DEF TypeOK, clientVars, socketVars, mapVars, loopVars, queueVars, processorVars, history
  <2> QED
    BY <1>7, <2>1, <2>2, <2>3, <2>4
<1>8. CASE Recv
  <2>1. sockfd \in Fds /\ socket[sockfd] \in Conns
    BY <1>0, <1>8 DEF Recv, Shape, Open, TypeOK
  <2>2. Head(unread[socket[sockfd]]) \in Requests /\ Tail(unread[socket[sockfd]]) \in Seq(Requests)
    BY <1>0, <1>8, <2>1, EmptySeq, HeadTailProperties DEF TypeOK, Recv
  <2>3. unread' \in [Conns -> Seq(Requests)] /\ request' \in Requests
    BY <1>0, <1>8, <2>1, <2>2 DEF TypeOK, Recv
  <2>4. socket' \in [Fds -> Conns \cup {NoConn}] /\ ready' \subseteq Fds \cup {Listen}
    <3>1. socket \in [Fds -> Conns \cup {NoConn}] /\ ready \subseteq Fds \cup {Listen}
      BY <1>0 DEF TypeOK
    <3>2. \/ socket' = [socket EXCEPT ![sockfd] = NoConn] /\ ready' = ready \ {sockfd}
          \/ socket' = socket /\ ready' = ready
      BY <1>8 DEF Recv, Release
    <3> QED
      BY <2>1, <3>1, <3>2
  <2>5. /\ client_id_fd_map' \in [Ids -> Fds \cup {NoFd}]
        /\ fd_client_id_map' \in [Fds -> Ids \cup {NoId}]
        /\ fd_result_map' \in [Fds -> Seq(BlockSet)]
    BY <1>0, <1>8, <2>1, ForgetTypes DEF Recv
  <2> QED
    BY <1>0, <1>8, <2>3, <2>4, <2>5 DEF TypeOK, Recv, clientVars, socketVars, mapVars, loopVars, queueVars, processorVars, history
<1>9. CASE RecvClosed
  <2>1. socket' \in [Fds -> Conns \cup {NoConn}] /\ ready' \subseteq Fds \cup {Listen}
    BY <1>0, <1>9 DEF TypeOK, RecvClosed, Release
  <2>2. /\ client_id_fd_map' \in [Ids -> Fds \cup {NoFd}]
        /\ fd_client_id_map' \in [Fds -> Ids \cup {NoId}]
        /\ fd_result_map' \in [Fds -> Seq(BlockSet)]
    BY <1>0, <1>9, ForgetTypes DEF RecvClosed, Shape
  <2> QED
    BY <1>0, <1>9, <2>1, <2>2 DEF TypeOK, RecvClosed, clientVars, socketVars, mapVars, loopVars, queueVars, processorVars, history
<1>10. CASE PutQuery
  <2>1. /\ sockfd \in Fds /\ request \in Requests /\ request[1] \in Conns
        /\ ClientId(request[1]) \in Ids
    BY <1>0, <1>10, RequestFields DEF PutQuery, Shape, TypeOK
  <2>2. Append(msg_queue, request) \in Seq(Requests) /\ Len(Append(msg_queue, request)) <= RequestRoom
    BY <1>0, <1>10, <2>1, AppendProperties, LenProperties DEF PutQuery, RoomForRequest, TypeOK
  <2>3. /\ client_id_fd_map' \in [Ids -> Fds \cup {NoFd}]
        /\ fd_client_id_map' \in [Fds -> Ids \cup {NoId}]
    BY <1>0, <1>10, <2>1 DEF TypeOK, PutQuery, InsertId
  <2> QED
    BY <1>0, <1>10, <2>1, <2>2, <2>3 DEF TypeOK, PutQuery, AfterRequest, clientVars, socketVars, mapVars, loopVars, queueVars, processorVars, history
<1>11. CASE PutAppend
  <2>1. sockfd \in Fds /\ request \in Requests
    BY <1>0, <1>11 DEF PutAppend, Shape, TypeOK
  <2>2. Append(msg_queue, request) \in Seq(Requests) /\ Len(Append(msg_queue, request)) <= RequestRoom
    BY <1>0, <1>11, <2>1, AppendProperties, LenProperties DEF PutAppend, RoomForRequest, TypeOK
  <2> QED
    BY <1>0, <1>11, <2>1, <2>2 DEF TypeOK, PutAppend, AfterRequest, clientVars, socketVars, mapVars, loopVars, queueVars, processorVars, history
<1>12. CASE WriteFd
  <2>1. PICK fd \in batch \ {Listen} :
           /\ mode[fd] = "write"
           /\ LET k == socket[fd]
                  list == fd_result_map[fd]
              IN  /\ replies' = [replies EXCEPT ![k] = @ \o Acks(fd) \o Rotated(list)]
                  /\ IF list = <<>>
                       THEN UNCHANGED <<client_id_fd_map, fd_client_id_map, fd_result_map>>
                       ELSE Forget(fd)
                  /\ mode' = ModeAfterAck(fd)
                  /\ IF CloseAfter(list) THEN Release(fd)
                     ELSE /\ UNCHANGED socket
                          /\ ready' = IF mode'[fd] = "read" /\ Readable(k) THEN ready \cup {fd}
                                                                           ELSE ready
           /\ fd_ack_set' = fd_ack_set \ {fd}
           /\ batch' = batch \ {fd}
    BY <1>0, <1>12 DEF WriteFd
  <2>2. fd \in Fds /\ socket[fd] \in Conns
    <3>1. spc # "exited" /\ fd \in Fds
      BY <1>0, <1>12 DEF WriteFd, TypeOK
    <3>2. Open(fd)
      BY <1>0, <3>1 DEF Shape
    <3> QED
      BY <1>0, <3>1, <3>2 DEF Open, TypeOK
  <2>3. Acks(fd) \in Seq(BlockSet \cup {Ack}) /\ Rotated(fd_result_map[fd]) \in Seq(BlockSet \cup {Ack})
    <3>1. fd_result_map[fd] \in Seq(BlockSet \cup {Ack})
      BY <1>0, <2>2 DEF TypeOK
    <3>2. Acks(fd) \in Seq(BlockSet \cup {Ack}) /\ <<>> \in Seq(BlockSet \cup {Ack})
      <4>1. <<Ack>> \in Seq(BlockSet \cup {Ack})
        OBVIOUS
      <4> QED
        BY <4>1, EmptySeq DEF Acks
    <3>3. CASE fd_result_map[fd] = <<>>
      BY <3>2, <3>3 DEF Rotated
    <3>4. CASE fd_result_map[fd] # <<>>
      <4>1. /\ Last(fd_result_map[fd]) \in BlockSet \cup {Ack}
            /\ Front(fd_result_map[fd]) \in Seq(BlockSet \cup {Ack})
        BY <3>1, <3>4 DEF Last, Front
      <4>2. <<Last(fd_result_map[fd])>> \in Seq(BlockSet \cup {Ack})
        BY <4>1
      <4> QED
        BY <3>2, <3>4, <4>1, <4>2, ConcatProperties DEF Rotated
    <3> QED
      BY <3>3, <3>4
  <2>4. replies' \in [Conns -> Seq(BlockSet \cup {Ack})]
    <3>1. replies[socket[fd]] \o Acks(fd) \o Rotated(fd_result_map[fd]) \in Seq(BlockSet \cup {Ack})
      BY <1>0, <2>2, <2>3, ConcatProperties DEF TypeOK
    <3> QED
      BY <1>0, <2>1, <2>2, <3>1 DEF TypeOK
  <2>5. /\ client_id_fd_map' \in [Ids -> Fds \cup {NoFd}]
        /\ fd_client_id_map' \in [Fds -> Ids \cup {NoId}]
        /\ fd_result_map' \in [Fds -> Seq(BlockSet)]
    BY <1>0, <2>1, <2>2, ForgetTypes
  <2>6. /\ socket' \in [Fds -> Conns \cup {NoConn}] /\ ready' \subseteq Fds \cup {Listen}
        /\ mode' \in [Fds -> {"read", "write"}]
    <3>1. mode' \in [Fds -> {"read", "write"}]
      BY <1>0, <2>1, <2>2 DEF TypeOK, ModeAfterAck
    <3>2. socket' \in [Fds -> Conns \cup {NoConn}]
      <4>1. socket' = socket \/ socket' = [socket EXCEPT ![fd] = NoConn]
        BY <2>1 DEF Release
      <4>2. socket \in [Fds -> Conns \cup {NoConn}]
        BY <1>0 DEF TypeOK
      <4> QED
        BY <4>1, <4>2
    <3>3. ready' \subseteq Fds \cup {Listen}
      <4>1. \/ ready' = ready \/ ready' = ready \ {fd}
            \/ ready' = ready \cup {fd}
        BY <2>1 DEF Release
      <4>2. ready \subseteq Fds \cup {Listen} /\ fd \in Fds \cup {Listen}
        BY <1>0, <2>1 DEF TypeOK
      <4> QED
        BY <4>1, <4>2
    <3> QED
      BY <3>1, <3>2, <3>3
  <2> QED
    BY <1>0, <1>12, <2>1, <2>4, <2>5, <2>6 DEF TypeOK, WriteFd, clientVars, socketVars, mapVars, loopVars, queueVars, processorVars, history
<1>13. CASE ReadRequest
  <2>1. Head(msg_queue) \in Requests /\ Tail(msg_queue) \in Seq(Requests) /\ Len(Tail(msg_queue)) <= RequestRoom
    BY <1>0, <1>13, EmptySeq, HeadTailProperties, LenProperties DEF TypeOK, ReadRequest
  <2> DEFINE r == Head(msg_queue)
             answer == [i \in 1 .. ResultBlocks(r[1]) |-> Block(r, i)]
  <2>2. answer \in Seq(BlockSet) /\ Block(r, 0) \in BlockSet
    <3>1. ResultBlocks(r[1]) \in Nat /\ \A n \in 0 .. ResultBlocks(r[1]) : Block(r, n) \in BlockSet
      BY <2>1, BlockTypes
    <3>2. \A n \in 1 .. ResultBlocks(r[1]) : Block(r, n) \in BlockSet
      BY <3>1
    <3> HIDE DEF r
    <3> QED
      BY <3>1, <3>2, IsASeq
  <2>3. blocks' \in Seq(BlockSet) /\ answering' \in Requests \cup {NoRequest}
    <3>1. blocks' = blocks \/ blocks' = Append(answer, Block(r, 0))
      BY <1>0, <1>13 DEF ReadRequest
    <3>2. Append(answer, Block(r, 0)) \in Seq(BlockSet)
      BY <2>2, AppendProperties
    <3> QED
      BY <1>0, <1>13, <2>1, <3>1, <3>2 DEF ReadRequest, TypeOK
  <2> QED
    BY <1>0, <1>13, <2>1, <2>3 DEF TypeOK, ReadRequest, clientVars, socketVars, mapVars, loopVars, queueVars, processorVars, history
<1>14. CASE WriteBlock
  <2>1. Head(blocks) \in BlockSet /\ Tail(blocks) \in Seq(BlockSet)
    BY <1>0, <1>14, EmptySeq, HeadTailProperties DEF TypeOK, WriteBlock, Shape
  <2>2. /\ Append(result_queue, Head(blocks)) \in Seq(BlockSet)
        /\ Len(Append(result_queue, Head(blocks))) <= ResultRoom
    BY <1>0, <1>14, <2>1, AppendProperties, LenProperties DEF TypeOK, WriteBlock
  <2> QED
    BY <1>0, <1>14, <2>1, <2>2 DEF TypeOK, WriteBlock, clientVars, socketVars, mapVars, loopVars, queueVars, processorVars, history
<1>15. CASE UNCHANGED vars
  BY <1>0, <1>15 DEF TypeOK, vars, clientVars, socketVars, mapVars, loopVars, queueVars, processorVars, history
<1> QED
  BY <1>1, <1>2, <1>3, <1>4, <1>5, <1>6, <1>7, <1>8, <1>9, <1>10, <1>11, <1>12, <1>13, <1>14, <1>15
     DEF Next, Server, Processor, Client

-----------------------------------------------------------------------------
(* What the counts of a client say of each other. *)
LEMMA AckCount ==
  ASSUME NEW S, NEW s \in Seq(S), NEW a \in 0 .. Len(s),
         \A i \in 1 .. a : s[i] = Ack, \A i \in a + 1 .. Len(s) : s[i] # Ack
  PROVE  Cardinality({i \in 1 .. Len(s) : s[i] = Ack}) = a
<1>1. Len(s) \in Nat /\ a \in Nat
  BY LenProperties
<1>2. {i \in 1 .. Len(s) : s[i] = Ack} = 1 .. a
  BY <1>1
<1>3. Cardinality(1 .. a) = a
  <2>1. Cardinality(1 .. a) = IF 1 > a THEN 0 ELSE a - 1 + 1
    BY <1>1, FS_Interval
  <2> QED
    BY ONLY <1>1, <2>1
<1> QED
  BY <1>2, <1>3

(* What a client has received is ACKs, and then an answer or nothing. *)
LEMMA ReplyCounts ==
  ASSUME LInv, NEW k \in Conns
  PROVE  /\ replies[k] \in Seq(BlockSet \cup {Ack}) /\ Len(replies[k]) \in Nat
         /\ Acked(k) \in Nat /\ Acked(k) <= Len(replies[k])
         /\ \A i \in 1 .. Acked(k) : replies[k][i] = Ack
         /\ Replied(k) => QueryPut(k) /\ Len(replies[k]) = Acked(k) + ResultBlocks(k) + 1
         /\ Owed(k) \in {0, 1}
<1>1. replies[k] \in Seq(BlockSet \cup {Ack}) /\ Len(replies[k]) \in Nat
  BY LenProperties DEF LInv, TypeOK
<1>2. /\ Acked(k) \in 0 .. Len(replies[k])
      /\ \A i \in 1 .. Acked(k) : replies[k][i] = Ack
      /\ Replied(k) => QueryPut(k) /\ Len(replies[k]) = Acked(k) + ResultBlocks(k) + 1
  BY DEF LInv, Replies
<1>3. Owed(k) \in {0, 1}
  BY DEF Owed
<1> QED
  BY <1>1, <1>2, <1>3

(* A client has seen the end of its answer when it has any of it. *)
LEMMA AnsweredMeans ==
  ASSUME LInv, NEW k \in Conns
  PROVE  Answered(k) <=> Replied(k)
<1>1. /\ Len(replies[k]) \in Nat /\ Acked(k) \in Nat /\ Acked(k) <= Len(replies[k])
      /\ \A i \in 1 .. Acked(k) : replies[k][i] = Ack
      /\ ResultBlocks(k) \in Nat
  BY ReplyCounts, ServerAssumption
<1>2. CASE Replied(k)
  <2>1. /\ Len(replies[k]) = Acked(k) + ResultBlocks(k) + 1
        /\ \A n \in 0 .. ResultBlocks(k) : replies[k][Acked(k) + n + 1] = Block(Query(k), n)
    BY <1>2 DEF LInv, Replies
  <2>2. 0 \in 0 .. ResultBlocks(k) /\ Acked(k) + 0 + 1 \in 1 .. Len(replies[k])
    BY <1>1, <2>1
  <2>3. replies[k][Acked(k) + 0 + 1] = Block(Query(k), 0)
    BY <2>1, <2>2
  <2>4. Block(Query(k), 0).finish_
    BY LastBlock
  <2>5. Block(Query(k), 0) # Ack
    BY AckIsNoBlock
  <2> QED
    BY <1>2, <2>2, <2>3, <2>4, <2>5 DEF Answered
<1>3. CASE ~ Replied(k)
  <2>1. \A i \in 1 .. Len(replies[k]) : replies[k][i] = Ack
    BY <1>1, <1>3 DEF Replied
  <2> QED
    BY <1>3, <2>1 DEF Answered
<1> QED
  BY <1>2, <1>3

(* When its query has been put, a client has nothing else on its way to    *)
(* log_server, and no ACK to come.                                         *)
LEMMA QueryPutMeans ==
  ASSUME LInv, NEW k \in Conns, QueryPut(k)
  PROVE  /\ k \notin Senders /\ sent[k] = Len(Script(k)) /\ Len(Script(k)) > 0
         /\ Len(unread[k]) = 0 /\ unread[k] = <<>> /\ InHand(k) = 0
         /\ Owed(k) = 0 /\ Acked(k) = Len(Script(k)) - 1
         /\ \A fd \in fd_ack_set : socket[fd] # k
<1>1. /\ Len(unread[k]) = 0 /\ InHand(k) = 0 /\ sent[k] = Len(Script(k))
      /\ Len(Script(k)) \in Nat /\ unread[k] \in Seq(Requests)
  BY ClientTypes DEF QueryPut
<1>2. Len(Script(k)) > 0 /\ k \notin Senders
  <2>1. Len(Script(k)) > 0
    BY <1>1, ClientTypes, EmptySeq DEF QueryPut, EndsInQuery
  <2>2. ASSUME k \in Senders PROVE FALSE
    <3>1. Script(k) \in Seq({"append"})
      BY <2>2, ServerAssumption
    <3> QED
      BY <1>1, <2>1, <3>1, ElementOfSeq DEF QueryPut, EndsInQuery
  <2> QED
    BY <2>1, <2>2
<1>3. Acked(k) + Owed(k) <= Put(k) - 1 /\ sent[k] <= Acked(k) + 1
  BY <1>2 DEF LInv, Owing
<1>4. Acked(k) \in Nat /\ Owed(k) \in {0, 1} /\ Put(k) = Len(Script(k))
  BY ReplyCounts DEF QueryPut
<1>5. Owed(k) = 0 /\ Acked(k) = Len(Script(k)) - 1
  BY <1>1, <1>3, <1>4
<1>6. \A fd \in fd_ack_set : socket[fd] # k
  BY <1>5 DEF Owed
<1> QED
  BY <1>1, <1>2, <1>5, <1>6, EmptySeq

(* A connection that is owed an ACK has no answer, and none is kept for it. *)
LEMMA AckOwed ==
  ASSUME LInv, NEW fd \in fd_ack_set
  PROVE  /\ fd \in Fds /\ socket[fd] \in Conns /\ Open(fd) /\ mode[fd] = "write"
         /\ Owed(socket[fd]) = 1 /\ ~ QueryPut(socket[fd]) /\ ~ Replied(socket[fd])
         /\ Taken(fd) = 0 /\ fd_result_map[fd] = <<>>
<1>1. fd \in Fds /\ socket[fd] \in Conns /\ Open(fd) /\ mode[fd] = "write"
  BY DEF LInv, Descriptors, TypeOK, Open
<1>2. Owed(socket[fd]) = 1
  BY DEF Owed
<1>3. ~ QueryPut(socket[fd]) /\ ~ Replied(socket[fd])
  BY <1>1, QueryPutMeans, ReplyCounts
<1>4. fd_result_map[fd] \in Seq(BlockSet) /\ Taken(fd) \in Nat
  BY <1>1, LenProperties DEF LInv, TypeOK, Taken
<1>5. Taken(fd) = 0
  BY <1>1, <1>3, <1>4 DEF LInv, Kept, KeptAt
<1> QED
  BY <1>1, <1>2, <1>3, <1>4, <1>5, EmptySeq DEF Taken

-----------------------------------------------------------------------------
(* What the actions come to until a client is cut short or two share an    *)
(* id: accept finds a descriptor or ends the process; a request that is    *)
(* read belongs to a connection that is not closed; an ACK and an answer   *)
(* are never written together, and no answer closes its connection.        *)
AcceptOn(fd) ==
    /\ spc = "serve" /\ backlog # <<>> /\ ~ Open(fd)
    /\ socket' = [socket EXCEPT ![fd] = Head(backlog)]
    /\ mode' = [mode EXCEPT ![fd] = "read"]
    /\ ready' \in {ready, ready \cup {fd}}
    /\ backlog' = Tail(backlog)
    /\ UNCHANGED <<link, sent, replies, unread, client_id_fd_map, fd_client_id_map,
                   fd_ack_set, fd_result_map, spc, batch, sockfd, request, fd_list, nread,
                   msg_queue, result_queue, answering, blocks>>

AcceptFails ==
    /\ spc = "serve" /\ backlog # <<>> /\ \A fd \in Fds : Open(fd)
    /\ backlog' = Tail(backlog)
    /\ spc' = "exited"
    /\ UNCHANGED <<link, sent, replies, socket, mode, ready, unread, client_id_fd_map,
                   fd_client_id_map, fd_ack_set, fd_result_map, batch, sockfd, request,
                   fd_list, nread, msg_queue, result_queue, answering, blocks>>

Receive ==
    /\ spc = "recv" /\ unread[socket[sockfd]] # <<>>
    /\ request' = Head(unread[socket[sockfd]])
    /\ unread' = [unread EXCEPT ![socket[sockfd]] = Tail(@)]
    /\ spc' = "put"
    /\ UNCHANGED <<link, sent, replies, backlog, socket, mode, ready, client_id_fd_map,
                   fd_client_id_map, fd_ack_set, fd_result_map, batch, sockfd, fd_list,
                   nread, msg_queue, result_queue, answering, blocks>>

WriteAck(fd) ==
    /\ spc = "serve" /\ fd \in batch /\ fd \in fd_ack_set
    /\ replies' = [replies EXCEPT ![socket[fd]] = Append(@, Ack)]
    /\ mode' = [mode EXCEPT ![fd] = "read"]
    /\ fd_ack_set' = fd_ack_set \ {fd} /\ batch' = batch \ {fd}
    /\ ready' \in {ready, ready \cup {fd}}
    /\ UNCHANGED <<link, sent, backlog, socket, unread, client_id_fd_map, fd_client_id_map,
                   fd_result_map, spc, sockfd, request, fd_list, nread, msg_queue,
                   result_queue, answering, blocks>>

WriteNothing(fd) ==
    /\ spc = "serve" /\ fd \in batch /\ mode[fd] = "write"
    /\ fd \notin fd_ack_set /\ Taken(fd) = 0
    /\ batch' = batch \ {fd}
    /\ UNCHANGED <<link, sent, replies, backlog, socket, mode, ready, unread,
                   client_id_fd_map, fd_client_id_map, fd_ack_set, fd_result_map, spc,
                   sockfd, request, fd_list, nread, msg_queue, result_queue, answering,
                   blocks>>

WriteAnswer(fd) ==
    /\ spc = "serve" /\ fd \in batch /\ fd \notin fd_ack_set
    /\ Taken(fd) = ResultBlocks(socket[fd]) + 1
    /\ replies' = [replies EXCEPT ![socket[fd]] = @ \o Rotated(fd_result_map[fd])]
    /\ Forget(fd)
    /\ batch' = batch \ {fd}
    /\ UNCHANGED <<link, sent, backlog, socket, mode, ready, unread, fd_ack_set, spc,
                   sockfd, request, fd_list, nread, msg_queue, result_queue, answering,
                   blocks>>

(* A new connection gets a free descriptor, if there is one. *)
LEMMA AcceptMeans ==
  ASSUME LInv, Accept
  PROVE  AcceptFails \/ \E fd \in Fds : AcceptOn(fd)
<1> DEFINE free == {fd \in Fds : ~ Open(fd)}
<1>1. CASE free = {}
  BY <1>1 DEF AcceptFails, Accept, clientVars, socketVars, mapVars, loopVars, queueVars, processorVars
<1>2. SUFFICES ASSUME free # {} PROVE \E fd \in Fds : AcceptOn(fd)
  BY <1>1
<1>5. Min(free) \in free
  BY <1>2, LeastFd
<1>6. /\ socket' = [socket EXCEPT ![Min(free)] = Head(backlog)]
      /\ mode' = [mode EXCEPT ![Min(free)] = "read"]
      /\ ready' \in {ready, ready \cup {Min(free)}}
      /\ spc' = spc
  BY <1>2 DEF Accept
<1>7. AcceptOn(Min(free))
  <2> DEFINE m == Min(free)
  <2>1. m \in Fds /\ ~ Open(m)
    BY <1>5
  <2> HIDE DEF free
  <2> QED
    BY <1>6, <2>1 DEF AcceptOn, Accept, clientVars, socketVars, mapVars, loopVars, queueVars, processorVars
<1> QED
  BY <1>5, <1>7

(* The connection log_server reads from is open. *)
LEMMA AtSocket ==
  ASSUME LInv, spc \in {"recv", "put"}
  PROVE  /\ sockfd \in Fds /\ Open(sockfd) /\ socket[sockfd] \in Conns
         /\ sockfd \notin batch /\ (socket[sockfd] \notin Senders => mode[sockfd] = "read")
  BY DEF LInv, TypeOK, Descriptors, Open

(* recv of a request never finds the connection closed behind it. *)
LEMMA RecvMeans ==
  ASSUME LInv, Recv, Orderly'
  PROVE  Receive
<1>1. socket[sockfd] \in Conns /\ unread[socket[sockfd]] # <<>>
  BY AtSocket DEF Recv
<1>2. ~ (socket[sockfd] \notin Senders /\ link[socket[sockfd]] = "closed")
  BY DEF Recv, Orderly
<1> QED
  BY <1>2 DEF Recv, Receive, clientVars, socketVars, mapVars, loopVars, queueVars, processorVars

(* What has been taken of an answer. *)
LEMMA TakenMeans ==
  ASSUME LInv, NEW fd \in Fds
  PROVE  /\ fd_result_map[fd] \in Seq(BlockSet) /\ Taken(fd) \in Nat
         /\ Taken(fd) = 0 <=> fd_result_map[fd] = <<>>
         /\ \A i \in 1 .. Taken(fd) : fd_result_map[fd][i] = Nth(socket[fd], i)
         /\ Taken(fd) > 0 =>
              /\ Open(fd) /\ socket[fd] \in Conns /\ fd_client_id_map[fd] # NoId
              /\ QueryPut(socket[fd]) /\ ~ Replied(socket[fd]) /\ fd \notin fd_ack_set
              /\ ResultBlocks(socket[fd]) \in Nat /\ ResultBlocks(socket[fd]) > 0
              /\ Taken(fd) <= ResultBlocks(socket[fd]) + 1
<1>1. fd_result_map[fd] \in Seq(BlockSet) /\ Taken(fd) \in Nat
  BY LenProperties DEF LInv, TypeOK, Taken
<1>2. Taken(fd) = 0 <=> fd_result_map[fd] = <<>>
  BY <1>1, EmptySeq DEF Taken
<1>3. \A i \in 1 .. Taken(fd) : fd_result_map[fd][i] = Nth(socket[fd], i)
  BY DEF LInv, Kept, KeptAt
<1>4. ASSUME Taken(fd) > 0
      PROVE  /\ Open(fd) /\ socket[fd] \in Conns /\ fd_client_id_map[fd] # NoId
             /\ QueryPut(socket[fd]) /\ ~ Replied(socket[fd]) /\ fd \notin fd_ack_set
             /\ ResultBlocks(socket[fd]) \in Nat /\ ResultBlocks(socket[fd]) > 0
             /\ Taken(fd) <= ResultBlocks(socket[fd]) + 1
  <2>1. fd_client_id_map[fd] # NoId /\ Open(fd)
    BY <1>1, <1>2, <1>4 DEF LInv, MapsSound
  <2>2. socket[fd] \in Conns
    BY <2>1 DEF LInv, TypeOK, Open
  <2>3. /\ QueryPut(socket[fd]) /\ ~ Replied(socket[fd])
        /\ Taken(fd) <= ResultBlocks(socket[fd]) + 1
    BY <1>4 DEF LInv, Kept, KeptAt
  <2>4. fd \notin fd_ack_set
    BY <2>2, <2>3, QueryPutMeans
  <2> QED
    BY <2>1, <2>2, <2>3, <2>4, ServerAssumption
<1> QED
  BY <1>1, <1>2, <1>3, <1>4

(* The answer with its last block in front. *)
LEMMA RotatedMeans ==
  ASSUME LInv, NEW fd \in Fds, Taken(fd) = ResultBlocks(socket[fd]) + 1, Taken(fd) > 0
  PROVE  LET k == socket[fd]
             answer == Rotated(fd_result_map[fd])
         IN  /\ answer \in Seq(BlockSet) /\ Len(answer) = ResultBlocks(k) + 1
             /\ \A n \in 0 .. ResultBlocks(k) : answer[n + 1] = Block(Query(k), n)
             /\ ~ CloseAfter(fd_result_map[fd])
<1> DEFINE k == socket[fd]
           list == fd_result_map[fd]
           R == ResultBlocks(k)
<1>1. /\ list \in Seq(BlockSet) /\ Len(list) = R + 1 /\ k \in Conns /\ R \in Nat /\ R > 0
      /\ \A i \in 1 .. R + 1 : list[i] = Nth(k, i)
      /\ list # <<>>
  BY TakenMeans DEF Taken
<1>2. /\ Last(list) = list[R + 1] /\ Front(list) = [i \in 1 .. R |-> list[i]]
  BY <1>1 DEF Last, Front
<1>3. Front(list) \in Seq(BlockSet) /\ Len(Front(list)) = R /\ <<Last(list)>> \in Seq(BlockSet)
  <2>1. \A i \in 1 .. R + 1 : list[i] \in BlockSet
    BY <1>1, ElementOfSeq
  <2> HIDE DEF list, R, k
  <2>2. \A i \in 1 .. R : list[i] \in BlockSet
    BY <1>1, <2>1
  <2>3. [i \in 1 .. R |-> list[i]] \in Seq(BlockSet)
    BY <1>1, <2>2, IsASeq
  <2>4. Len([i \in 1 .. R |-> list[i]]) = R
    BY <1>1
  <2> QED
    BY <1>1, <1>2, <2>1, <2>3, <2>4
<1> DEFINE answer == Rotated(list)
<1>4. answer = <<Last(list)>> \o Front(list)
  BY <1>1 DEF Rotated
<1> HIDE DEF list, R, answer
<1>5. /\ answer \in Seq(BlockSet) /\ Len(answer) = R + 1
      /\ answer[1] = Last(list) /\ \A n \in 1 .. R : answer[n + 1] = Front(list)[n]
  <2> DEFINE front == Front(list)
             first == <<Last(list)>>
  <2>1. first \in Seq(BlockSet) /\ front \in Seq(BlockSet) /\ Len(front) = R
        /\ Len(first) = 1 /\ first[1] = Last(list)
    BY <1>3
  <2> HIDE DEF front, first
  <2>2. /\ first \o front \in Seq(BlockSet) /\ Len(first \o front) = 1 + R
        /\ \A i \in 1 .. 1 + R : (first \o front)[i] = IF i <= 1 THEN first[i] ELSE front[i - 1]
    <3>1. /\ first \o front \in Seq(BlockSet)
          /\ Len(first \o front) = Len(first) + Len(front)
          /\ \A i \in 1 .. Len(first) + Len(front) :
                (first \o front)[i] = IF i <= Len(first) THEN first[i] ELSE front[i - Len(first)]
      BY <2>1, ConcatProperties
    <3> QED
      BY <2>1, <3>1
  <2>3. answer = first \o front
    BY <1>4 DEF first, front
  <2>4. \A n \in 1 .. R : answer[n + 1] = front[n]
    <3> SUFFICES ASSUME NEW n \in 1 .. R PROVE answer[n + 1] = front[n]
      OBVIOUS
    <3>1. n + 1 \in 1 .. 1 + R /\ ~ n + 1 <= 1 /\ n + 1 - 1 = n
      BY <1>1
    <3> QED
      BY <2>2, <2>3, <3>1
  <2> QED
    BY <1>1, <2>1, <2>2, <2>3, <2>4 DEF front
<1>6. \A n \in 0 .. R : answer[n + 1] = Block(Query(k), n)
  <2> SUFFICES ASSUME NEW n \in 0 .. R PROVE answer[n + 1] = Block(Query(k), n)
    OBVIOUS
  <2>1. CASE n = 0
    <3>1. answer[1] = Nth(k, R + 1) /\ n + 1 = 1
      BY <1>1, <1>2, <1>5, <2>1
    <3>2. Nth(k, R + 1) = Block(Query(k), 0)
      BY DEF Nth, R
    <3> QED
      BY <2>1, <3>1, <3>2
  <2>2. CASE n # 0
    <3>1. n \in 1 .. R /\ n \in 1 .. R + 1 /\ n # R + 1
      BY <1>1, <2>2
    <3>2. answer[n + 1] = Nth(k, n)
      BY <1>1, <1>2, <1>5, <3>1
    <3>3. Nth(k, n) = Block(Query(k), n)
      BY <3>1 DEF Nth, R
    <3> QED
      BY <3>2, <3>3
  <2> QED
    BY <2>1, <2>2
<1>7. ~ CloseAfter(list)
  <2>1. answer[R + 1] = Block(Query(k), R)
    BY <1>1, <1>6
  <2>2. ~ Block(Query(k), R).finish_
    BY <1>1, LastBlock
  <2>3. Last(answer) = answer[R + 1]
    BY <1>5 DEF Last
  <2> QED
    BY <2>1, <2>2, <2>3 DEF CloseAfter, answer
<1> QED
  BY <1>5, <1>6, <1>7 DEF answer, list, R

(* A write sends one ACK, or a whole answer, or nothing. *)
LEMMA WriteFdMeans ==
  ASSUME LInv, WriteFd
  PROVE  \E fd \in Fds : WriteAck(fd) \/ WriteNothing(fd) \/ WriteAnswer(fd)
<1>1. PICK fd \in batch \ {Listen} :
         /\ mode[fd] = "write"
         /\ LET k == socket[fd]
                list == fd_result_map[fd]
            IN  /\ replies' = [replies EXCEPT ![k] = @ \o Acks(fd) \o Rotated(list)]
                /\ IF list = <<>>
                     THEN UNCHANGED <<client_id_fd_map, fd_client_id_map, fd_result_map>>
                     ELSE Forget(fd)
                /\ mode' = ModeAfterAck(fd)
                /\ IF CloseAfter(list) THEN Release(fd)
                   ELSE /\ UNCHANGED socket
                        /\ ready' = IF mode'[fd] = "read" /\ Readable(k) THEN ready \cup {fd}
                                                                         ELSE ready
         /\ fd_ack_set' = fd_ack_set \ {fd}
         /\ batch' = batch \ {fd}
  BY DEF WriteFd
<1>2. /\ spc = "serve"
      /\ UNCHANGED <<link, sent, backlog, unread, spc, sockfd, request, fd_list, nread,
                     queueVars, processorVars>>
  BY DEF WriteFd
<1> DEFINE k == socket[fd]
           list == fd_result_map[fd]
<1>3. fd \in Fds /\ Open(fd) /\ k \in Conns /\ replies[k] \in Seq(BlockSet \cup {Ack})
      /\ replies \in [Conns -> Seq(BlockSet \cup {Ack})]
  BY DEF LInv, Descriptors, TypeOK, Open
<1>4. ASSUME list = <<>> PROVE ~ CloseAfter(list) /\ Rotated(list) = <<>> /\ Taken(fd) = 0
  BY <1>4, <1>3, TakenMeans DEF CloseAfter, Rotated
<1>5. CASE fd \in fd_ack_set
  <2>1. list = <<>>
    BY <1>5, AckOwed
  <2>2. Acks(fd) = <<Ack>> /\ ModeAfterAck(fd) = [mode EXCEPT ![fd] = "read"]
    BY <1>5 DEF Acks, ModeAfterAck
  <2>3. replies[k] \o <<Ack>> \o <<>> = Append(replies[k], Ack)
    <3>1. <<Ack>> \in Seq(BlockSet \cup {Ack})
      OBVIOUS
    <3>2. replies[k] \o <<Ack>> = Append(replies[k], Ack)
      BY <1>3, AppendIsConcat
    <3>3. replies[k] \o <<Ack>> \in Seq(BlockSet \cup {Ack})
      BY <1>3, <3>1, ConcatProperties
    <3> QED
      BY <3>2, <3>3, ConcatEmptySeq
  <2>4. replies' = [replies EXCEPT ![k] = Append(@, Ack)]
    BY <1>1, <1>3, <1>4, <2>1, <2>2, <2>3
  <2>5. ready' \in {ready, ready \cup {fd}} /\ socket' = socket
        /\ UNCHANGED <<client_id_fd_map, fd_client_id_map, fd_result_map>>
    BY <1>1, <1>4, <2>1
  <2> HIDE DEF list, k
  <2>6. WriteAck(fd)
    BY <1>1, <1>2, <1>5, <2>2, <2>4, <2>5 DEF WriteAck, k, clientVars, socketVars, mapVars, loopVars, queueVars, processorVars
  <2> QED
    BY <1>3, <2>6
<1>6. CASE fd \notin fd_ack_set /\ list = <<>>
  <2>1. Acks(fd) = <<>> /\ ModeAfterAck(fd) = mode /\ fd_ack_set \ {fd} = fd_ack_set
    BY <1>6 DEF Acks, ModeAfterAck
  <2>2. replies[k] \o <<>> \o <<>> = replies[k]
    BY <1>3, ConcatEmptySeq
  <2>3. replies' = replies
    BY <1>1, <1>3, <1>4, <1>6, <2>1, <2>2
  <2>4. ready' = ready /\ socket' = socket /\ mode' = mode
        /\ UNCHANGED <<client_id_fd_map, fd_client_id_map, fd_result_map>>
    BY <1>1, <1>4, <1>6, <2>1
  <2>5. Taken(fd) = 0
    BY <1>4, <1>6
  <2>6. WriteNothing(fd)
    BY <1>1, <1>2, <1>6, <2>1, <2>3, <2>4, <2>5 DEF WriteNothing, clientVars, socketVars, mapVars, loopVars, queueVars, processorVars
  <2> QED
    BY <1>3, <2>6
<1>7. CASE fd \notin fd_ack_set /\ list # <<>>
  <2>1. Acks(fd) = <<>> /\ ModeAfterAck(fd) = mode /\ fd_ack_set \ {fd} = fd_ack_set
    BY <1>7 DEF Acks, ModeAfterAck
  <2>2. Taken(fd) = ResultBlocks(k) + 1 /\ Taken(fd) > 0
    <3>1. Taken(fd) > 0 /\ ~ Replied(k)
      BY <1>3, <1>7, TakenMeans
    <3> QED
      BY <1>1, <1>3, <1>7, <3>1 DEF LInv, Kept, KeptAt
  <2>3. ~ CloseAfter(list)
    BY <1>3, <2>2, RotatedMeans
  <2>4. replies[k] \o <<>> \o Rotated(list) = replies[k] \o Rotated(list)
    BY <1>3, ConcatEmptySeq
  <2>5. replies' = [replies EXCEPT ![k] = @ \o Rotated(list)]
    BY <1>1, <1>3, <2>1, <2>4
  <2>6. ready' = ready /\ socket' = socket /\ mode' = mode /\ Forget(fd)
    BY <1>1, <1>7, <2>1, <2>3
  <2>7. WriteAnswer(fd)
    BY <1>1, <1>2, <1>7, <2>1, <2>2, <2>5, <2>6 DEF WriteAnswer, clientVars, socketVars, mapVars, loopVars, queueVars, processorVars
  <2> QED
    BY <1>3, <2>7
<1> QED
  BY <1>5, <1>6, <1>7

(* The next request of a client is the one after those that were read. *)
LEMMA CountsHead ==
  ASSUME LInv, NEW k \in Conns, unread[k] # <<>>
  PROVE  /\ Head(unread[k]) = <<k, sent[k] - Len(unread[k]) + 1>>
         /\ Head(unread[k]) # NoRequest /\ Head(unread[k])[1] = k
         /\ Len(unread[k]) > 0 /\ Tail(unread[k]) \in Seq(Requests)
         /\ Len(Tail(unread[k])) = Len(unread[k]) - 1
         /\ \A i \in 1 .. Len(unread[k]) - 1 : Tail(unread[k])[i] = unread[k][i + 1]
<1>1. unread[k] \in Seq(Requests) /\ Len(unread[k]) \in Nat \ {0}
  BY EmptySeq DEF LInv, TypeOK
<1>2. Head(unread[k]) = unread[k][1] /\ Head(unread[k]) \in Requests
  BY <1>1, HeadTailProperties
<1>3. Head(unread[k]) = <<k, sent[k] - Len(unread[k]) + 1>>
  BY <1>1, <1>2 DEF LInv, Counts
<1> QED
  BY <1>1, <1>2, <1>3, HeadTailProperties, RequestFields

-----------------------------------------------------------------------------
Step ==
    \/ \E k \in Conns : Connect(k) \/ Send(k) \/ Close(k)
    \/ \E fd \in Fds : AcceptOn(fd) \/ WriteAck(fd) \/ WriteNothing(fd) \/ WriteAnswer(fd)
    \/ AcceptFails
    \/ TakeResult \/ EndResults \/ EndAccept \/ BeginRead \/ Receive \/ RecvNothing \/ RecvClosed
    \/ PutQuery \/ PutAppend \/ EndServe \/ ReadRequest \/ WriteBlock \/ UNCHANGED vars

(* So each step is one of these. *)
LEMMA StepMeans ==
  ASSUME LInv, [Next]_vars, Orderly'
  PROVE  Step
  BY AcceptMeans, RecvMeans, WriteFdMeans DEF Step, Next, Server, Processor, Client

(* The block that log_server takes next, and the descriptor it goes to. *)
Block1 == Head(result_queue)
Fd1 == client_id_fd_map[Block1.client_id_]

(* Taking a block changes what is kept for its client's descriptor alone. *)
LEMMA TakeMeans ==
  ASSUME LInv, TakeResult
  PROVE  /\ Block1 \in BlockSet /\ Fd1 \in Fds \cup {NoFd}
         /\ Fd1 = NoFd => UNCHANGED <<fd_result_map, fd_list>>
         /\ Fd1 # NoFd =>
              /\ Fd1 \in Fds /\ fd_client_id_map[Fd1] = Block1.client_id_
              /\ fd_client_id_map[Fd1] # NoId /\ Open(Fd1)
              /\ socket[Fd1] = Block1.of[1]
              /\ fd_result_map' = [fd_result_map EXCEPT ![Fd1] = Append(@, Block1)]
              /\ fd_list' = IF Block1.n = 0 THEN fd_list \cup {Fd1} ELSE fd_list
<1>1. Block1 \in BlockSet
  BY EmptySeq, HeadTailProperties DEF LInv, TypeOK, TakeResult, Block1
<1>2. Block1.client_id_ \in Ids /\ Block1.of[1] \in Conns /\ Block1.client_id_ = ClientId(Block1.of[1])
      /\ (Block1.finish_ <=> Block1.n = 0)
  BY <1>1, BlockSetFields
<1>3. Fd1 \in Fds \cup {NoFd}
  BY <1>2 DEF LInv, TypeOK, Fd1
<1>4. IF Fd1 = NoFd THEN UNCHANGED <<fd_result_map, fd_list>>
      ELSE /\ fd_result_map' = [fd_result_map EXCEPT ![Fd1] = Append(@, Block1)]
           /\ fd_list' = fd_list \cup Writable(Fd1, Block1)
  BY DEF TakeResult, Block1, Fd1
<1>5. ASSUME Fd1 # NoFd
      PROVE  /\ Fd1 \in Fds /\ fd_client_id_map[Fd1] = Block1.client_id_
             /\ fd_client_id_map[Fd1] # NoId /\ Open(Fd1)
             /\ socket[Fd1] = Block1.of[1]
  <2>1. Fd1 \in Fds /\ fd_client_id_map[Fd1] = Block1.client_id_ /\ Block1.client_id_ # NoId
    BY <1>2, <1>3, <1>5, FdTypes DEF LInv, MapsSound, Fd1
  <2>2. Open(Fd1)
    BY <1>2, <2>1 DEF LInv, MapsSound
  <2>3. ToCome(Block1.of[1])
    <3>1. result_queue \in Seq(BlockSet) /\ blocks \in Seq(BlockSet) /\ result_queue # <<>>
      BY DEF LInv, TypeOK, TakeResult
    <3>2. Len(result_queue) \in Nat \ {0} /\ Len(blocks) \in Nat /\ Block1 = result_queue[1]
      BY <3>1, EmptySeq, HeadTailProperties, LenProperties DEF Block1
    <3>3. 1 \in 1 .. Len(Flow) /\ Flow[1] = Block1
      BY <3>1, <3>2, ConcatProperties DEF Flow
    <3> QED
      BY <3>3 DEF ToCome
  <2>4. socket[Fd1] = Block1.of[1]
    BY <1>2, <1>5, <2>3 DEF LInv, Addressed, LeadsTo, Fd1
  <2> QED
    BY <2>1, <2>2, <2>4
<1>6. Writable(Fd1, Block1) = IF Block1.n = 0 THEN {Fd1} ELSE {}
  BY <1>2 DEF Writable
<1> QED
  BY <1>1, <1>3, <1>4, <1>5, <1>6

(* A connection that is closed is a client's, without an ACK to come. *)
LEMMA ClosedMeans ==
  ASSUME LInv, RecvClosed
  PROVE  sockfd \in Fds /\ socket[sockfd] \in Conns \ Senders /\ sockfd \notin fd_ack_set /\ sockfd \notin batch
<1>1. /\ sockfd \in Fds /\ socket[sockfd] \in Conns /\ link[socket[sockfd]] = "closed"
      /\ sockfd \notin batch /\ (socket[sockfd] \notin Senders => mode[sockfd] = "read")
  BY AtSocket DEF RecvClosed
<1>2. socket[sockfd] \notin Senders
  BY <1>1 DEF LInv, Links
<1> QED
  BY <1>1, <1>2 DEF LInv, Descriptors

-----------------------------------------------------------------------------
(* Every step keeps events and ACKs to open descriptors. *)
LEMMA DescriptorsStep ==
  ASSUME LInv, Step
  PROVE  Descriptors' /\ Exits'
<1>0. TypeOK /\ Descriptors /\ Exits
  BY DEF LInv
<1> USE FdTypes
<1>1. ASSUME NEW k \in Conns, Connect(k) \/ Send(k) \/ Close(k)
      PROVE  Descriptors' /\ Exits'
  <2>1. \A fd \in Arrived(k) : Open(fd)
    BY ServerAssumption DEF Arrived, Open
  <2>2. /\ ready' \subseteq ready \cup Arrived(k) \cup {Listen}
        /\ UNCHANGED <<replies, socket, mode, client_id_fd_map, fd_client_id_map,
                       fd_ack_set, fd_result_map, spc, batch, sockfd, request, fd_list,
                       nread, msg_queue, result_queue, answering, blocks>>
    BY <1>1 DEF Connect, Send, Close, clientVars, socketVars, mapVars, loopVars, queueVars, processorVars
  <2>3. \A fd \in ready' \ {Listen} : Open(fd)
    BY <1>0, <2>1, <2>2 DEF Descriptors
  <2> QED
    BY <1>0, <2>2, <2>3 DEF Descriptors, Exits, Open
<1>2. ASSUME NEW fd \in Fds, AcceptOn(fd)
      PROVE  Descriptors' /\ Exits'
  <2>1. Head(backlog) \in Conns /\ Head(backlog) # NoConn
    <3>1. backlog \in Seq(Conns) /\ backlog # <<>>
      BY <1>0, <1>2 DEF TypeOK, AcceptOn
    <3>2. Head(backlog) \in Conns
      BY <3>1, HeadTailProperties
    <3> QED
      BY <3>2, ServerAssumption
  <2>2. /\ \A f \in Fds : f # fd => mode'[f] = mode[f] /\ socket'[f] = socket[f]
        /\ socket'[fd] # NoConn
    BY <1>0, <1>2, <2>1 DEF TypeOK, AcceptOn
  <2>3. fd \notin fd_ack_set
    BY <1>0, <1>2 DEF Descriptors, AcceptOn
  <2> QED
    BY <1>0, <1>2, <2>2, <2>3 DEF TypeOK, Descriptors, Exits, AcceptOn, Open
<1>3. ASSUME NEW fd \in Fds, WriteAck(fd) \/ WriteNothing(fd) \/ WriteAnswer(fd)
      PROVE  Descriptors' /\ Exits'
  BY <1>0, <1>3 DEF TypeOK, Descriptors, Exits, WriteAck, WriteNothing, WriteAnswer, Open
<1>4. CASE TakeResult
  <2>1. \A fd \in fd_list' : Open(fd)
    BY <1>0, <1>4, TakeMeans DEF TypeOK, Descriptors
  <2> QED
    BY <1>0, <1>4, <2>1 DEF Descriptors, Exits, Open, TakeResult, clientVars, socketVars, mapVars, loopVars, queueVars, processorVars
<1>5. CASE EndResults
  <2>1. ~ \E fd \in fd_list : ~ Open(fd)
    BY <1>0 DEF Descriptors, TypeOK
  <2> QED
    BY <1>0, <1>5, <2>1 DEF TypeOK, Descriptors, Exits, Open, EndResults, clientVars, socketVars, mapVars, loopVars, queueVars, processorVars
<1>6. CASE EndAccept \/ RecvNothing \/ EndServe \/ ReadRequest \/ WriteBlock \/ UNCHANGED vars
  BY <1>0, <1>6 DEF TypeOK, Descriptors, Exits, Open, EndAccept, RecvNothing, EndServe, ReadRequest,
                    WriteBlock, vars, clientVars, socketVars, mapVars, loopVars, queueVars, processorVars
<1>7. CASE BeginRead
  BY <1>0, <1>7 DEF TypeOK, Descriptors, Exits, Open, BeginRead, clientVars, socketVars, mapVars, loopVars, queueVars, processorVars
<1>8. CASE Receive
  <2>1. /\ unread[socket[sockfd]] # <<>> /\ socket[sockfd] \in Conns /\ sockfd \in Fds
    BY <1>8, AtSocket DEF Receive
  <2>2. request' # NoRequest /\ request'[1] = socket[sockfd]
    BY <1>8, <2>1, CountsHead DEF Receive
  <2> QED
    BY <1>0, <1>8, <2>1, <2>2 DEF Descriptors, Exits, Open, Receive
<1>9. CASE RecvClosed
  <2>1. /\ spc = "recv" /\ spc' = "serve" /\ sockfd \in Fds /\ sockfd \notin batch
        /\ socket' = [socket EXCEPT ![sockfd] = NoConn] /\ ready' = ready \ {sockfd}
        /\ UNCHANGED <<mode, fd_ack_set, batch, sockfd, request, fd_list>>
    BY <1>9, AtSocket DEF RecvClosed, Release
  <2>2. sockfd \notin fd_ack_set
    BY <1>9, ClosedMeans
  <2>3. \A fd \in Fds \ {sockfd} : socket'[fd] = socket[fd]
    BY <1>0, <2>1 DEF TypeOK
  <2> QED
    BY <1>0, <2>1, <2>2, <2>3 DEF TypeOK, Descriptors, Exits, Open
<1>10. CASE PutQuery
  BY <1>0, <1>10 DEF TypeOK, Descriptors, Exits, Open, PutQuery, AfterRequest, clientVars, socketVars, mapVars, loopVars, queueVars, processorVars
<1>11. CASE PutAppend
  BY <1>0, <1>11, AtSocket DEF TypeOK, Descriptors, Exits, Open, PutAppend, AfterRequest, clientVars, socketVars, mapVars, loopVars, queueVars, processorVars
<1>12. CASE AcceptFails
  BY <1>0, <1>12 DEF TypeOK, Descriptors, Exits, Open, AcceptFails
<1> QED
  BY <1>1, <1>2, <1>3, <1>4, <1>5, <1>6, <1>7, <1>8, <1>9, <1>10, <1>11, <1>12 DEF Step

(* Every step keeps connections apart. *)
LEMMA LinksStep ==
  ASSUME LInv, Step
  PROVE  Links'
<1>0. TypeOK /\ Links /\ backlog \in Seq(Conns) /\ Len(backlog) \in Nat /\ socket \in [Fds -> Conns \cup {NoConn}]
  BY LenProperties DEF LInv, TypeOK
<1>1. ASSUME NEW k \in Conns, Connect(k) PROVE Links'
  <2>1. /\ Append(backlog, k) \in Seq(Conns) /\ Len(Append(backlog, k)) = Len(backlog) + 1
        /\ \A i \in 1 .. Len(backlog) : Append(backlog, k)[i] = backlog[i]
        /\ Append(backlog, k)[Len(backlog) + 1] = k
    BY <1>0, AppendProperties
  <2>2. /\ link[k] = "none" /\ link' = [link EXCEPT ![k] = "open"] /\ backlog' = Append(backlog, k)
        /\ UNCHANGED <<sent, socket, unread>>
    BY <1>1 DEF Connect
  <2>3. /\ \A i \in 1 .. Len(backlog) : backlog[i] # k
        /\ \A fd \in Fds : socket[fd] # k
    BY <1>0, <2>2 DEF Links
  <2>4. Len(backlog') = Len(backlog) + 1
    BY <2>1, <2>2
  <2>5. \A i \in 1 .. Len(backlog') : backlog'[i] = IF i = Len(backlog) + 1 THEN k ELSE backlog[i]
    BY <1>0, <2>1, <2>2
  <2>6. \A l \in Conns : link'[l] = IF l = k THEN "open" ELSE link[l]
    BY <1>0, <2>2 DEF TypeOK
  <2> QED
    BY <1>0, <2>2, <2>3, <2>4, <2>5, <2>6 DEF Links, Open
<1>2. ASSUME NEW k \in Conns, Send(k) PROVE Links'
  <2>1. /\ link[k] = "open" /\ \A l \in Conns \ {k} : sent'[l] = sent[l]
        /\ UNCHANGED <<link, backlog, socket>>
    BY <1>0, <1>2 DEF TypeOK, Send
  <2> QED
    BY <1>0, <2>1 DEF Links, Open
<1>3. ASSUME NEW k \in Conns, Close(k) PROVE Links'
  <2>1. /\ link[k] = "open" /\ link' = [link EXCEPT ![k] = "closed"] /\ k \notin Senders
        /\ UNCHANGED <<sent, backlog, socket>>
    BY <1>3 DEF Close
  <2>2. \A l \in Conns : link'[l] = IF l = k THEN "closed" ELSE link[l]
    BY <1>0, <2>1 DEF TypeOK
  <2> QED
    BY <1>0, <2>1, <2>2 DEF Links, Open
<1>4. ASSUME NEW fd \in Fds, AcceptOn(fd) PROVE Links'
  <2> DEFINE k == Head(backlog)
  <2>1. /\ k = backlog[1] /\ k \in Conns /\ k # NoConn /\ Len(backlog) > 0
        /\ Len(Tail(backlog)) = Len(backlog) - 1
        /\ \A i \in 1 .. Len(backlog) - 1 : Tail(backlog)[i] = backlog[i + 1]
    BY <1>0, <1>4, HeadTailProperties, EmptySeq, ServerAssumption DEF AcceptOn
  <2>2. /\ socket' = [socket EXCEPT ![fd] = k] /\ backlog' = Tail(backlog)
        /\ socket[fd] = NoConn /\ UNCHANGED <<link, sent>>
    BY <1>4 DEF AcceptOn, Open
  <2> HIDE DEF k
  <2>3. /\ Len(backlog') = Len(backlog) - 1
        /\ \A i \in 1 .. Len(backlog') : backlog'[i] = backlog[i + 1] /\ i + 1 \in 1 .. Len(backlog)
        /\ 1 \in 1 .. Len(backlog)
    BY <1>0, <2>1, <2>2
  <2>4. \A f \in Fds : socket'[f] = IF f = fd THEN k ELSE socket[f]
    BY <1>0, <2>2
  <2>5. /\ \A l \in Conns : link'[l] = "none" =>
              /\ sent'[l] = 0
              /\ \A i \in 1 .. Len(backlog') : backlog'[i] # l
              /\ \A f \in Fds : socket'[f] # l
    <3> SUFFICES ASSUME NEW l \in Conns, link'[l] = "none"
                 PROVE  /\ sent'[l] = 0
                        /\ \A i \in 1 .. Len(backlog') : backlog'[i] # l
                        /\ \A f \in Fds : socket'[f] # l
      OBVIOUS
    <3>1. /\ sent[l] = 0 /\ \A i \in 1 .. Len(backlog) : backlog[i] # l
          /\ \A f \in Fds : socket[f] # l
      BY <1>0, <2>2 DEF Links
    <3>2. k # l
      BY <2>1, <2>3, <3>1
    <3> QED
      BY <2>2, <2>3, <2>4, <3>1, <3>2
  <2>6. \A i, j \in 1 .. Len(backlog') : i # j => backlog'[i] # backlog'[j]
    BY <1>0, <2>3 DEF Links
  <2>7. \A i \in 1 .. Len(backlog') : backlog'[i] # k
    <3> SUFFICES ASSUME NEW i \in 1 .. Len(backlog') PROVE backlog'[i] # k
      OBVIOUS
    <3>1. i + 1 \in 1 .. Len(backlog) /\ i + 1 # 1 /\ backlog'[i] = backlog[i + 1]
      BY <1>0, <2>3
    <3> QED
      BY <1>0, <2>1, <2>3, <3>1 DEF Links
  <2>8. \A i \in 1 .. Len(backlog') : \A f \in Fds : socket'[f] # backlog'[i]
    BY <1>0, <2>3, <2>4, <2>7 DEF Links
  <2>9. \A f, g \in Fds : Open(f)' /\ socket'[f] = socket'[g] => f = g
    BY <1>0, <2>1, <2>3, <2>4 DEF Links, Open
  <2> QED
    BY <1>0, <2>2, <2>5, <2>6, <2>8, <2>9 DEF Links
<1>5. CASE AcceptFails
  <2>1. /\ Len(backlog') = Len(backlog) - 1
        /\ \A i \in 1 .. Len(backlog') : backlog'[i] = backlog[i + 1] /\ i + 1 \in 1 .. Len(backlog)
        /\ UNCHANGED <<link, sent, socket>>
    BY <1>0, <1>5, HeadTailProperties, EmptySeq DEF AcceptFails
  <2> QED
    BY <1>0, <2>1 DEF Links, Open
<1>6. CASE RecvClosed
  <2>1. /\ \A f \in Fds : socket'[f] = socket[f] \/ socket'[f] = NoConn
        /\ UNCHANGED <<link, sent, backlog>>
    BY <1>0, <1>6, AtSocket DEF TypeOK, RecvClosed, Release, clientVars, socketVars, mapVars, loopVars, queueVars, processorVars
  <2>2. \A k \in Conns : k # NoConn
    BY ServerAssumption
  <2>3. \A i \in 1 .. Len(backlog) : backlog[i] \in Conns
    BY <1>0, ElementOfSeq
  <2> QED
    BY <1>0, <2>1, <2>2, <2>3 DEF Links, Open
<1>7. CASE UNCHANGED <<link, sent, backlog, socket>>
  BY <1>0, <1>7 DEF Links, Open
<1> QED
  BY <1>1, <1>2, <1>3, <1>4, <1>5, <1>6, <1>7
     DEF Step, WriteAck, WriteNothing, WriteAnswer, TakeResult, EndResults, EndAccept, BeginRead,
         Receive, RecvNothing, PutQuery, PutAppend, EndServe, ReadRequest, WriteBlock, vars,
         clientVars, socketVars, mapVars, loopVars, queueVars, processorVars

(* Which step makes the requests of a client that were put more. *)
Puts(k) == (PutQuery \/ PutAppend) /\ request[1] = k

(* Every step keeps the order of a client's requests. *)
LEMMA CountsStep ==
  ASSUME LInv, Step
  PROVE  /\ Counts'
         /\ \A k \in Conns : Put(k)' = IF Puts(k) THEN Put(k) + 1 ELSE Put(k)
<1>0. /\ TypeOK /\ Counts
      /\ \A k \in Conns : /\ unread[k] \in Seq(Requests) /\ sent[k] \in Nat /\ Len(unread[k]) \in Nat
                          /\ InHand(k) \in {0, 1} /\ Put(k) \in Nat /\ sent[k] <= Len(Script(k))
                          /\ Len(Script(k)) \in Nat
  BY ClientTypes DEF LInv
<1>1. ASSUME UNCHANGED <<sent, unread, request>>
      PROVE  Counts' /\ \A k \in Conns : Put(k)' = Put(k)
  BY <1>0, <1>1 DEF Counts, Put, InHand
<1>2. ASSUME NEW k \in Conns, Send(k)
      PROVE  Counts' /\ \A l \in Conns : Put(l)' = Put(l)
  <2>1. /\ sent[k] < Len(Script(k)) /\ request' = request
        /\ sent' = [sent EXCEPT ![k] = @ + 1]
        /\ unread' = [unread EXCEPT ![k] = Append(@, <<k, sent[k] + 1>>)]
    BY <1>2 DEF Send, clientVars, socketVars, mapVars, loopVars, queueVars, processorVars
  <2> DEFINE u == unread[k]
             next == <<k, sent[k] + 1>>
  <2>2. next \in Requests
    <3>1. sent[k] + 1 \in 1 .. Len(Script(k))
      BY <1>0, <2>1
    <3> QED
      BY <3>1 DEF Requests
  <2>3. /\ Len(Append(u, next)) = Len(u) + 1 /\ \A i \in 1 .. Len(u) : Append(u, next)[i] = u[i]
        /\ Append(u, next)[Len(u) + 1] = next
    BY <1>0, <2>2, AppendProperties
  <2>4. sent'[k] = sent[k] + 1 /\ unread'[k] = Append(u, next)
    BY <1>0, <2>1 DEF TypeOK
  <2>5. \A l \in Conns \ {k} : sent'[l] = sent[l] /\ unread'[l] = unread[l]
    BY <1>0, <2>1 DEF TypeOK
  <2>6. /\ Len(unread'[k]) = Len(u) + 1 /\ InHand(k)' = InHand(k) /\ Put(k)' = Put(k)
    <3>1. Len(unread'[k]) = Len(u) + 1 /\ InHand(k)' = InHand(k)
      BY <2>1, <2>3, <2>4 DEF InHand
    <3>2. sent'[k] = sent[k] + 1 /\ sent[k] \in Nat /\ Len(u) \in Nat /\ InHand(k) \in {0, 1}
      BY <1>0, <2>4
    <3>3. /\ Put(k) = sent[k] - Len(u) - InHand(k)
          /\ Put(k)' = sent'[k] - Len(unread'[k]) - InHand(k)'
      BY DEF Put
    <3>4. Put(k)' = (sent[k] + 1) - (Len(u) + 1) - InHand(k)
      BY <3>1, <3>2, <3>3
    <3>5. \A m, n, h \in Nat : (m + 1) - (n + 1) - h = m - n - h
      OBVIOUS
    <3>6. InHand(k) \in Nat
      BY <3>2
    <3>7. Put(k)' = Put(k)
      BY <3>2, <3>3, <3>4, <3>5, <3>6
    <3> QED
      BY <3>1, <3>7
  <2>7. \A i \in 1 .. Len(unread'[k]) : unread'[k][i] = <<k, sent'[k] - Len(unread'[k]) + i>>
    <3>0. /\ unread'[k] = Append(u, next) /\ Len(unread'[k]) = Len(u) + 1
          /\ sent'[k] - Len(unread'[k]) = sent[k] - Len(u)
      <4>1. \A m, n \in Nat : (m + 1) - (n + 1) = m - n
        OBVIOUS
      <4>2. sent[k] \in Nat /\ Len(u) \in Nat
        BY <1>0
      <4>3. /\ unread'[k] = Append(u, next) /\ Len(unread'[k]) = Len(u) + 1
            /\ sent'[k] = sent[k] + 1
        BY <2>4, <2>6
      <4> HIDE DEF next
      <4> QED
        BY ONLY <4>1, <4>2, <4>3
    <3>1. ASSUME NEW i \in 1 .. Len(u) + 1
          PROVE  Append(u, next)[i] = <<k, sent[k] - Len(u) + i>>
      <4>1. CASE i = Len(u) + 1
        BY <1>0, <2>3, <4>1
      <4>2. CASE i \in 1 .. Len(u)
        BY <1>0, <2>3, <4>2 DEF Counts
      <4> QED
        BY <1>0, <4>1, <4>2
    <3> DEFINE w == unread'[k]
               before == sent'[k] - Len(w)
    <3>2. w = Append(u, next) /\ Len(w) = Len(u) + 1 /\ before = sent[k] - Len(u)
      BY ONLY <3>0
    <3> HIDE DEF w, before
    <3>3. \A i \in 1 .. Len(w) : w[i] = <<k, before + i>>
      BY ONLY <3>1, <3>2
    <3> QED
      BY ONLY <3>3 DEF w, before
  <2>8. request # NoRequest /\ request[1] = k => request = <<k, sent'[k] - Len(unread'[k])>>
    <3>1. sent'[k] = sent[k] + 1 /\ Len(unread'[k]) = Len(u) + 1
      BY <2>4, <2>6
    <3>2. \A m, n \in Nat : (m + 1) - (n + 1) = m - n
      OBVIOUS
    <3>3. sent'[k] - Len(unread'[k]) = sent[k] - Len(u)
      BY <1>0, <3>1, <3>2
    <3>4. request # NoRequest /\ request[1] = k => request = <<k, sent[k] - Len(u)>>
      BY <1>0 DEF Counts
    <3> QED
      BY ONLY <3>3, <3>4
  <2>9. \A l \in Conns \ {k} : Put(l)' = Put(l)
    BY <2>1, <2>5 DEF Put, InHand
  <2>10. ASSUME NEW l \in Conns, l # k
         PROVE  /\ 0 <= Put(l)' /\ sent'[l] <= Len(Script(l))
                /\ \A i \in 1 .. Len(unread'[l]) : unread'[l][i] = <<l, sent'[l] - Len(unread'[l]) + i>>
                /\ request' # NoRequest /\ request'[1] = l => request' = <<l, sent'[l] - Len(unread'[l])>>
    BY <1>0, <2>1, <2>5, <2>9, <2>10 DEF Counts
  <2>11. 0 <= Put(k)' /\ sent'[k] <= Len(Script(k))
    BY <1>0, <2>1, <2>4, <2>6
  <2> QED
    BY <2>1, <2>6, <2>7, <2>8, <2>9, <2>10, <2>11 DEF Counts
<1>3. ASSUME Receive
      PROVE  Counts' /\ \A l \in Conns : Put(l)' = Put(l)
  <2>0. PICK k \in Conns : k = socket[sockfd]
    BY <1>3, AtSocket DEF Receive
  <2> DEFINE u == unread[k]
  <2>1. /\ u # <<>> /\ request = NoRequest /\ sent' = sent
        /\ request' = Head(u) /\ unread' = [unread EXCEPT ![k] = Tail(@)]
    BY <1>3, <2>0 DEF Receive, LInv, Descriptors
  <2>2. /\ Head(u) = <<k, sent[k] - Len(u) + 1>> /\ Head(u) # NoRequest /\ Head(u)[1] = k
        /\ Len(u) > 0 /\ Len(Tail(u)) = Len(u) - 1
        /\ \A i \in 1 .. Len(u) - 1 : Tail(u)[i] = u[i + 1]
    BY <2>1, CountsHead
  <2>3. unread'[k] = Tail(u) /\ \A l \in Conns \ {k} : unread'[l] = unread[l]
    BY <1>0, <2>1 DEF TypeOK
  <2>4. InHand(k) = 0 /\ InHand(k)' = 1 /\ \A l \in Conns \ {k} : InHand(l)' = InHand(l)
    BY <2>1, <2>2 DEF InHand
  <2>5. \A l \in Conns : Put(l)' = Put(l)
    <3>1. Put(k)' = Put(k)
      <4>1. sent'[k] = sent[k] /\ Len(unread'[k]) = Len(unread[k]) - 1
        BY <2>1, <2>2, <2>3
      <4>2. sent[k] \in Nat /\ Len(unread[k]) \in Nat
        BY <1>0
      <4> QED
        BY <2>4, <4>1, <4>2 DEF Put
    <3>2. \A l \in Conns \ {k} : Put(l)' = Put(l)
      BY <2>1, <2>3, <2>4 DEF Put
    <3> QED
      BY <3>1, <3>2
  <2>6. \A i \in 1 .. Len(unread'[k]) : unread'[k][i] = <<k, sent'[k] - Len(unread'[k]) + i>>
    <3> SUFFICES ASSUME NEW i \in 1 .. Len(u) - 1
                 PROVE  Tail(u)[i] = <<k, sent[k] - (Len(u) - 1) + i>>
      BY <2>1, <2>2, <2>3, ZenonT(40)
    <3>1. i + 1 \in 1 .. Len(u) /\ Tail(u)[i] = u[i + 1]
      BY <1>0, <2>1, <2>2
    <3>2. u[i + 1] = <<k, sent[k] - Len(u) + (i + 1)>>
      BY <1>0, <2>1, <3>1 DEF Counts
    <3>3. sent[k] - Len(u) + (i + 1) = sent[k] - (Len(u) - 1) + i
      <4>1. sent[k] \in Nat /\ Len(u) \in Nat /\ i \in Nat
        BY <1>0
      <4> QED
        BY <4>1
    <3> QED
      BY <3>1, <3>2, <3>3
  <2>7. request' = <<k, sent'[k] - Len(unread'[k])>>
    <3>1. sent[k] - Len(u) + 1 = sent[k] - (Len(u) - 1)
      BY <1>0, <2>1
    <3> QED
      BY <2>1, <2>2, <2>3, <3>1
  <2>8. ASSUME NEW l \in Conns, l # k
        PROVE  /\ 0 <= Put(l)' /\ sent'[l] <= Len(Script(l))
               /\ \A i \in 1 .. Len(unread'[l]) : unread'[l][i] = <<l, sent'[l] - Len(unread'[l]) + i>>
               /\ request' # NoRequest /\ request'[1] = l => request' = <<l, sent'[l] - Len(unread'[l])>>
    <3>1. /\ unread'[l] = unread[l] /\ sent'[l] = sent[l] /\ Put(l)' = Put(l)
          /\ request'[1] # l
      BY <2>1, <2>2, <2>3, <2>5, <2>8
    <3>2. /\ 0 <= Put(l) /\ sent[l] <= Len(Script(l))
          /\ \A i \in 1 .. Len(unread[l]) : unread[l][i] = <<l, sent[l] - Len(unread[l]) + i>>
      BY <1>0 DEF Counts
    <3> QED
      BY ONLY <3>1, <3>2
  <2>9. 0 <= Put(k)' /\ sent'[k] <= Len(Script(k))
    BY <1>0, <2>1, <2>5
  <2>10. \A l \in Conns :
           /\ 0 <= Put(l)' /\ sent'[l] <= Len(Script(l))
           /\ \A i \in 1 .. Len(unread'[l]) : unread'[l][i] = <<l, sent'[l] - Len(unread'[l]) + i>>
           /\ request' # NoRequest /\ request'[1] = l => request' = <<l, sent'[l] - Len(unread'[l])>>
    BY <2>6, <2>7, <2>8, <2>9
  <2> QED
    BY <2>5, <2>10 DEF Counts
<1>4. ASSUME PutQuery \/ PutAppend
      PROVE  Counts' /\ \A k \in Conns : Put(k)' = IF Puts(k) THEN Put(k) + 1 ELSE Put(k)
  <2> DEFINE k == request[1]
  <2>1. k \in Conns /\ request # NoRequest /\ request' = NoRequest /\ UNCHANGED <<sent, unread>>
    BY <1>4, AtSocket DEF PutQuery, PutAppend, LInv, Descriptors, clientVars, socketVars, mapVars, loopVars, queueVars, processorVars
  <2>2. InHand(k) = 1 /\ \A l \in Conns : InHand(l)' = 0 /\ (l # k => InHand(l) = 0)
    BY <2>1 DEF InHand
  <2>3. \A l \in Conns : Put(l)' = IF l = k THEN Put(l) + 1 ELSE Put(l)
    BY <1>0, <2>1, <2>2 DEF Put
  <2> QED
    BY <1>0, <1>4, <2>1, <2>3 DEF Counts, Puts
<1>6. CASE PutQuery \/ PutAppend
  BY <1>4, <1>6
<1>7. CASE ~ (PutQuery \/ PutAppend)
  <2>1. CASE UNCHANGED <<sent, unread, request>>
    BY <1>1, <1>7, <2>1 DEF Puts
  <2>2. CASE Receive
    BY <1>3, <1>7, <2>2 DEF Puts
  <2>3. CASE \E k \in Conns : Send(k)
    BY <1>2, <1>7, <2>3 DEF Puts
  <2> QED
    BY <1>7, <2>1, <2>2, <2>3
       DEF Step, AcceptFails, Connect, Close, AcceptOn, WriteAck, WriteNothing, WriteAnswer, TakeResult, EndResults,
           EndAccept, BeginRead, RecvNothing, RecvClosed, EndServe, ReadRequest, WriteBlock, vars,
           clientVars, socketVars, mapVars, loopVars, queueVars, processorVars
<1> QED
  BY <1>6, <1>7

(* Once its query is put, it stays so; and only PutQuery puts it. *)
LEMMA PutGrows ==
  ASSUME LInv, Step, NEW k \in Conns
  PROVE  /\ Put(k)' \in Nat /\ Put(k)' = (IF Puts(k) THEN Put(k) + 1 ELSE Put(k))
         /\ Puts(k) => InHand(k) = 1 /\ ~ QueryPut(k) /\ k = socket[sockfd]
         /\ QueryPut(k) => QueryPut(k)'
         /\ QueryPut(k)' => QueryPut(k) \/ (PutQuery /\ request = Query(k))
         /\ PutQuery /\ request[1] = k /\ Kind(request) = "query" =>
               request = Query(k) /\ EndsInQuery(k) /\ QueryPut(k)'
<1>1. Put(k) \in Nat /\ Put(k)' = (IF Puts(k) THEN Put(k) + 1 ELSE Put(k)) /\ Len(Script(k)) \in Nat
  BY CountsStep, ClientTypes
<1>2. ASSUME Puts(k)
      PROVE  /\ InHand(k) = 1 /\ ~ QueryPut(k) /\ k = socket[sockfd]
             /\ request = <<k, Put(k) + 1>> /\ request \in Requests
  <2>1. request # NoRequest /\ request[1] = k /\ k = socket[sockfd] /\ request \in Requests
    BY <1>2 DEF Puts, PutQuery, PutAppend, LInv, Descriptors, TypeOK
  <2>2. request = <<k, sent[k] - Len(unread[k])>> /\ InHand(k) = 1
    BY <2>1 DEF LInv, Counts, InHand
  <2>3. Put(k) = sent[k] - Len(unread[k]) - 1 /\ sent[k] \in Nat /\ Len(unread[k]) \in Nat
    BY <2>2, ClientTypes DEF Put
  <2>4. sent[k] - Len(unread[k]) = Put(k) + 1
    BY <2>3
  <2>5. ~ QueryPut(k)
    BY <2>2, QueryPutMeans
  <2> QED
    BY <2>1, <2>2, <2>4, <2>5
<1>3. ASSUME Puts(k), QueryPut(k)' PROVE PutQuery /\ request = Query(k)
  <2>1. EndsInQuery(k) /\ Put(k)' = Len(Script(k))
    BY <1>3 DEF QueryPut, EndsInQuery
  <2>2. request = Query(k)
    BY <1>1, <1>2, <1>3, <2>1 DEF Query
  <2>3. Kind(request) = "query"
    BY <2>1, <2>2, QueryIsRequest
  <2> QED
    BY <1>3, <2>2, <2>3 DEF Puts, PutAppend
<1>4. ASSUME PutQuery, request[1] = k, Kind(request) = "query"
      PROVE  request = Query(k) /\ EndsInQuery(k) /\ QueryPut(k)'
  <2>1. Puts(k) /\ Kind(request) = "query"
    BY <1>4 DEF Puts
  <2>2. request = Query(k) /\ EndsInQuery(k)
    BY <1>2, <1>4, <2>1, RequestFields
  <2>3. Put(k) + 1 = Len(Script(k))
    BY <1>2, <2>1, <2>2 DEF Query
  <2> QED
    BY <1>1, <2>1, <2>2, <2>3 DEF QueryPut, EndsInQuery
<1>5. ASSUME ~ Puts(k) PROVE QueryPut(k)' <=> QueryPut(k)
  BY <1>1, <1>5 DEF QueryPut, EndsInQuery
<1> QED
  BY <1>1, <1>2, <1>3, <1>4, <1>5

(* What the writes add to what a client has received. *)
LEMMA RepliesSame ==
  ASSUME NEW k \in Conns, replies'[k] = replies[k]
  PROVE  Acked(k)' = Acked(k) /\ (Replied(k)' <=> Replied(k))
  BY DEF Acked, Replied

(* An ACK: one more, and nothing owed. *)
LEMMA WriteAckCounts ==
  ASSUME LInv, NEW fd \in Fds, WriteAck(fd), NEW k \in Conns, k = socket[fd]
  PROVE  /\ Acked(k)' = Acked(k) + 1 /\ Len(replies'[k]) = Acked(k)' /\ ~ Replied(k)'
         /\ \A i \in 1 .. Acked(k)' : replies'[k][i] = Ack
         /\ Owed(k) = 1 /\ Owed(k)' = 0 /\ \A l \in Conns \ {k} : replies'[l] = replies[l]
<1>1. /\ fd \in fd_ack_set /\ replies' = [replies EXCEPT ![k] = Append(@, Ack)]
      /\ socket' = socket /\ fd_ack_set' = fd_ack_set \ {fd}
  BY DEF WriteAck
<1>2. Owed(k) = 1 /\ ~ Replied(k) /\ Open(fd)
  BY <1>1, AckOwed
<1>3. /\ replies[k] \in Seq(BlockSet \cup {Ack}) /\ Len(replies[k]) = Acked(k) /\ Acked(k) \in Nat
      /\ \A i \in 1 .. Acked(k) : replies[k][i] = Ack
  BY <1>2, ReplyCounts DEF Replied
<1> DEFINE s == Append(replies[k], Ack)
<1>4. /\ s \in Seq(BlockSet \cup {Ack}) /\ Len(s) = Len(replies[k]) + 1
      /\ \A i \in 1 .. Len(replies[k]) : s[i] = replies[k][i]
      /\ s[Len(replies[k]) + 1] = Ack
  BY <1>3, AppendProperties
<1>5. replies'[k] = s /\ \A l \in Conns \ {k} : replies'[l] = replies[l]
  BY <1>1 DEF LInv, TypeOK
<1> HIDE DEF s
<1>6. \A i \in 1 .. Len(s) : s[i] = Ack
  BY <1>3, <1>4
<1>7. Cardinality({i \in 1 .. Len(s) : s[i] = Ack}) = Len(s)
  <2>1. Len(s) \in 0 .. Len(s) /\ \A i \in Len(s) + 1 .. Len(s) : s[i] # Ack
    BY <1>3, <1>4
  <2> QED
    BY <1>4, <1>6, <2>1, AckCount
<1>8. Acked(k)' = Len(s)
  BY <1>5, <1>7 DEF Acked
<1>9. Owed(k)' = 0
  <2>1. \A other \in fd_ack_set \ {fd} : socket[other] # k
    BY <1>2 DEF LInv, Links, TypeOK
  <2> QED
    BY <1>1, <2>1 DEF Owed
<1> QED
  BY <1>2, <1>3, <1>4, <1>5, <1>6, <1>8, <1>9 DEF Replied

(* An answer: the client has all of it, for the first time. *)
LEMMA WriteAnswerCounts ==
  ASSUME LInv, NEW fd \in Fds, WriteAnswer(fd), NEW k \in Conns, k = socket[fd]
  PROVE  /\ Acked(k)' = Acked(k) /\ Len(replies'[k]) = Acked(k) + ResultBlocks(k) + 1
         /\ Replied(k)' /\ ~ Replied(k) /\ QueryPut(k)
         /\ \A i \in 1 .. Acked(k) : replies'[k][i] = Ack
         /\ \A n \in 0 .. ResultBlocks(k) : replies'[k][Acked(k) + n + 1] = Block(Query(k), n)
         /\ \A l \in Conns \ {k} : replies'[l] = replies[l]
<1> DEFINE R == ResultBlocks(k)
           answer == Rotated(fd_result_map[fd])
<1>1. R \in Nat /\ R > 0 /\ Taken(fd) = R + 1 /\ ~ Replied(k) /\ QueryPut(k)
  <2>1. R \in Nat /\ R > 0 /\ Taken(fd) = R + 1
    BY ServerAssumption DEF WriteAnswer
  <2> QED
    BY <2>1, TakenMeans
<1>2. /\ answer \in Seq(BlockSet) /\ Len(answer) = R + 1
      /\ \A n \in 0 .. R : answer[n + 1] = Block(Query(k), n)
  BY <1>1, RotatedMeans
<1>3. /\ replies[k] \in Seq(BlockSet \cup {Ack}) /\ Len(replies[k]) = Acked(k) /\ Acked(k) \in Nat
      /\ \A i \in 1 .. Acked(k) : replies[k][i] = Ack
  BY <1>1, ReplyCounts DEF Replied
<1> DEFINE s == replies[k] \o answer
           a == Acked(k)
<1>4. replies'[k] = s /\ \A l \in Conns \ {k} : replies'[l] = replies[l]
  BY DEF LInv, TypeOK, WriteAnswer
<1> HIDE DEF answer, R
<1>5. /\ s \in Seq(BlockSet \cup {Ack}) /\ Len(s) = a + (R + 1)
      /\ \A i \in 1 .. a + (R + 1) : s[i] = IF i <= a THEN replies[k][i] ELSE answer[i - a]
  <2> DEFINE B == BlockSet \cup {Ack}
  <2>1. replies[k] \in Seq(B) /\ answer \in Seq(B)
    BY <1>2, <1>3
  <2> HIDE DEF B
  <2>2. /\ s \in Seq(B) /\ Len(s) = Len(replies[k]) + Len(answer)
        /\ \A i \in 1 .. Len(replies[k]) + Len(answer) :
              s[i] = IF i <= Len(replies[k]) THEN replies[k][i] ELSE answer[i - Len(replies[k])]
    BY ONLY <2>1, ConcatProperties
  <2> QED
    BY <1>2, <1>3, <2>2 DEF B
<1>6. a \in Nat /\ \A i \in 1 .. a : replies[k][i] = Ack
  BY <1>3
<1> HIDE DEF s, a
<1>7. \A i \in 1 .. a : s[i] = Ack
  BY <1>1, <1>5, <1>6
<1>8. \A n \in 0 .. R : s[a + n + 1] = Block(Query(k), n)
  <2> SUFFICES ASSUME NEW n \in 0 .. R PROVE s[a + n + 1] = Block(Query(k), n)
    OBVIOUS
  <2> DEFINE i == a + n + 1
  <2>2. i \in 1 .. a + (R + 1) /\ ~ i <= a /\ i - a = n + 1
    BY <1>1, <1>6
  <2> HIDE DEF i
  <2>3. s[i] = answer[i - a]
    BY <1>5, <2>2
  <2> QED
    BY <1>2, <2>2, <2>3 DEF i
<1>9. \A i \in a + 1 .. Len(s) : s[i] # Ack
  <2> SUFFICES ASSUME NEW i \in a + 1 .. Len(s) PROVE s[i] # Ack
    OBVIOUS
  <2> DEFINE n == i - a - 1
  <2>1. n \in 0 .. R /\ a + n + 1 = i
    BY <1>1, <1>5, <1>6
  <2> HIDE DEF n
  <2>2. s[i] = Block(Query(k), n)
    BY <1>8, <2>1
  <2> QED
    BY <2>2, AckIsNoBlock
<1>10. Cardinality({i \in 1 .. Len(s) : s[i] = Ack}) = a
  <2>1. a \in 0 .. Len(s)
    BY <1>1, <1>5, <1>6
  <2> QED
    BY <1>5, <1>7, <1>9, <2>1, AckCount
<1>11. Acked(k)' = a /\ Len(replies'[k]) = a + R + 1
  <2>1. Acked(k)' = a
    BY <1>4, <1>10 DEF Acked
  <2>2. a + (R + 1) = a + R + 1
    BY <1>1, <1>6
  <2> QED
    BY <1>4, <1>5, <2>1, <2>2
<1>12. Replied(k)'
  BY <1>1, <1>6, <1>11 DEF Replied
<1> QED
  BY <1>1, <1>4, <1>7, <1>8, <1>11, <1>12 DEF R, a

(* Nothing else adds to what a client has received. *)
LEMMA WhoReplies ==
  ASSUME LInv, Step, NEW k \in Conns
  PROVE  \/ replies'[k] = replies[k]
         \/ \E fd \in Fds : socket[fd] = k /\ (WriteAck(fd) \/ WriteAnswer(fd))
<1>1. ASSUME NEW fd \in Fds, WriteAck(fd) \/ WriteAnswer(fd), socket[fd] # k
      PROVE  replies'[k] = replies[k]
  BY <1>1 DEF WriteAck, WriteAnswer, LInv, TypeOK
<1> QED
  BY <1>1 DEF Step, AcceptFails, Connect, Send, Close, AcceptOn, WriteNothing, TakeResult, EndResults, EndAccept,
              BeginRead, Receive, RecvNothing, RecvClosed, PutQuery, PutAppend, EndServe, ReadRequest,
              WriteBlock, vars, clientVars, socketVars, mapVars, loopVars, queueVars, processorVars

(* Every step keeps what clients have received in order. *)
LEMMA RepliesStep ==
  ASSUME LInv, Step
  PROVE  Replies'
<1> SUFFICES ASSUME NEW k \in Conns
             PROVE  /\ Acked(k)' \in 0 .. Len(replies'[k])
                    /\ \A i \in 1 .. Acked(k)' : replies'[k][i] = Ack
                    /\ Replied(k)' =>
                         /\ QueryPut(k)' /\ Len(replies'[k]) = Acked(k)' + ResultBlocks(k) + 1
                         /\ \A n \in 0 .. ResultBlocks(k) :
                               replies'[k][Acked(k)' + n + 1] = Block(Query(k), n)
  BY DEF Replies, Query
<1>1. QueryPut(k) => QueryPut(k)'
  BY PutGrows
<1>2. ResultBlocks(k) \in Nat /\ Acked(k) \in Nat
  BY ReplyCounts, ServerAssumption
<1>3. CASE replies'[k] = replies[k]
  <2>1. Acked(k)' = Acked(k) /\ (Replied(k)' <=> Replied(k))
    BY <1>3, RepliesSame
  <2> QED
    BY <1>1, <1>3, <2>1 DEF LInv, Replies
<1>4. ASSUME NEW fd \in Fds, socket[fd] = k, WriteAck(fd)
      PROVE  /\ Acked(k)' \in 0 .. Len(replies'[k]) /\ ~ Replied(k)'
             /\ \A i \in 1 .. Acked(k)' : replies'[k][i] = Ack
  BY <1>2, <1>4, WriteAckCounts
<1>5. ASSUME NEW fd \in Fds, socket[fd] = k, WriteAnswer(fd)
      PROVE  /\ Acked(k)' \in 0 .. Len(replies'[k]) /\ QueryPut(k)
             /\ \A i \in 1 .. Acked(k)' : replies'[k][i] = Ack
             /\ Len(replies'[k]) = Acked(k)' + ResultBlocks(k) + 1
             /\ \A n \in 0 .. ResultBlocks(k) : replies'[k][Acked(k)' + n + 1] = Block(Query(k), n)
  <2>1. /\ Acked(k)' = Acked(k) /\ Len(replies'[k]) = Acked(k) + ResultBlocks(k) + 1 /\ QueryPut(k)
        /\ \A i \in 1 .. Acked(k) : replies'[k][i] = Ack
        /\ \A n \in 0 .. ResultBlocks(k) : replies'[k][Acked(k) + n + 1] = Block(Query(k), n)
    BY <1>5, WriteAnswerCounts
  <2> QED
    BY <1>2, <2>1
<1> QED
  BY <1>1, <1>3, <1>4, <1>5, WhoReplies

(* Who is owed an ACK changes in two actions alone. *)
LEMMA OwedSame ==
  ASSUME LInv, Step, ~ PutAppend, ~ \E fd \in Fds : WriteAck(fd), NEW k \in Conns
  PROVE  Owed(k)' = Owed(k)
<1>1. CASE UNCHANGED <<socket, fd_ack_set>>
  BY <1>1 DEF Owed
<1>2. ASSUME NEW fd \in Fds, fd \notin fd_ack_set, fd_ack_set' = fd_ack_set,
             \A other \in Fds \ {fd} : socket'[other] = socket[other]
      PROVE  Owed(k)' = Owed(k)
  <2>1. \A other \in fd_ack_set : socket'[other] = socket[other]
    BY <1>2 DEF LInv, TypeOK
  <2> QED
    BY <1>2, <2>1 DEF Owed
<1>3. ASSUME NEW fd \in Fds, AcceptOn(fd) PROVE Owed(k)' = Owed(k)
  BY <1>2, <1>3 DEF AcceptOn, LInv, TypeOK, Descriptors
<1>4. CASE RecvClosed
  <2>1. sockfd \in Fds /\ sockfd \notin fd_ack_set
    BY <1>4, ClosedMeans
  <2> QED
    BY <1>2, <1>4, <2>1 DEF RecvClosed, Release, LInv, TypeOK
<1> QED
  BY <1>1, <1>3, <1>4 DEF Step, AcceptFails, Connect, Send, Close, WriteNothing, WriteAnswer, TakeResult, EndResults,
              EndAccept, BeginRead, Receive, RecvNothing, PutQuery, EndServe, ReadRequest,
              WriteBlock, vars, clientVars, socketVars, mapVars, loopVars, queueVars, processorVars

(* Every step keeps the count of ACKs and requests. *)
LEMMA OwingStep ==
  ASSUME LInv, Step
  PROVE  Owing'
<1> SUFFICES ASSUME NEW k \in Conns \ Senders
             PROVE  /\ Acked(k)' + Owed(k)' <= Put(k)' - (IF QueryPut(k)' THEN 1 ELSE 0)
                    /\ sent'[k] <= Acked(k)' + 1
  BY DEF Owing
<1>0. /\ Acked(k) \in Nat /\ Owed(k) \in {0, 1} /\ Put(k) \in Nat /\ sent[k] \in Nat
      /\ Acked(k) + Owed(k) <= Put(k) - (IF QueryPut(k) THEN 1 ELSE 0)
      /\ sent[k] <= Acked(k) + 1
      /\ Put(k)' \in Nat /\ Put(k)' = (IF Puts(k) THEN Put(k) + 1 ELSE Put(k))
      /\ Puts(k) => ~ QueryPut(k)
      /\ QueryPut(k)' => QueryPut(k) \/ (PutQuery /\ request = Query(k))
  BY ReplyCounts, ClientTypes, PutGrows DEF LInv, Owing
<1>1. ASSUME NEW fd \in Fds, WriteAck(fd), socket[fd] = k
      PROVE  /\ Acked(k)' + Owed(k)' <= Put(k)' - (IF QueryPut(k)' THEN 1 ELSE 0)
             /\ sent'[k] <= Acked(k)' + 1
  <2>1. Acked(k)' = Acked(k) + 1 /\ Owed(k) = 1 /\ Owed(k)' = 0
    BY <1>1, WriteAckCounts
  <2>2. sent' = sent /\ ~ Puts(k) /\ ~ PutQuery
    BY <1>1 DEF WriteAck, Puts, PutQuery, PutAppend
  <2> QED
    BY <1>0, <2>1, <2>2
<1>2. ASSUME NEW fd \in Fds, WriteAck(fd), socket[fd] # k
      PROVE  Acked(k)' = Acked(k) /\ Owed(k)' = Owed(k) /\ sent' = sent
  <2>1. replies'[k] = replies[k]
    BY <1>2 DEF WriteAck, LInv, TypeOK
  <2>2. Owed(k)' = Owed(k)
    BY <1>2 DEF Owed, WriteAck
  <2> QED
    BY <1>2, <2>1, <2>2, RepliesSame DEF WriteAck
<1>3. ASSUME ~ \E fd \in Fds : WriteAck(fd) PROVE Acked(k)' = Acked(k)
  <2>1. ASSUME NEW fd \in Fds, socket[fd] = k, WriteAnswer(fd) PROVE Acked(k)' = Acked(k)
    BY <2>1, WriteAnswerCounts
  <2> QED
    BY <1>3, <2>1, WhoReplies, RepliesSame
<1>4. ASSUME ~ Send(k) PROVE sent'[k] = sent[k]
  <2>1. ASSUME NEW l \in Conns, l # k, Send(l) PROVE sent'[k] = sent[k]
    BY <2>1 DEF Send, LInv, TypeOK
  <2> QED
    BY <1>4, <2>1 DEF Step, AcceptFails, Connect, Close, AcceptOn, WriteAck, WriteNothing, WriteAnswer, TakeResult,
              EndResults, EndAccept, BeginRead, Receive, RecvNothing, RecvClosed, PutQuery, PutAppend,
              EndServe, ReadRequest, WriteBlock, vars, clientVars, socketVars, mapVars, loopVars, queueVars, processorVars
<1>5. CASE Send(k)
  <2>1. sent'[k] = sent[k] + 1 /\ sent[k] < Len(Script(k)) /\ ~ Waits(k)
    BY <1>5 DEF Send, LInv, TypeOK
  <2>2. ~ QueryPut(k)
    BY <1>0, <2>1, QueryPutMeans, ClientTypes
  <2>3. ~ Answered(k)
    BY <2>2, AnsweredMeans, ReplyCounts
  <2>4. sent[k] <= Acked(k)
    BY <1>0, <2>1, <2>3 DEF Waits
  <2>5. ~ PutAppend /\ ~ PutQuery /\ (~ \E fd \in Fds : WriteAck(fd)) /\ ~ Puts(k)
    BY <1>5, <2>1 DEF Send, PutAppend, PutQuery, WriteAck, Puts, LInv, TypeOK, clientVars, socketVars, mapVars, loopVars, queueVars, processorVars
  <2>6. Acked(k)' = Acked(k) /\ Owed(k)' = Owed(k)
    BY <1>3, <2>5, OwedSame
  <2> QED
    BY <1>0, <2>1, <2>2, <2>4, <2>5, <2>6
<1>6. CASE PutAppend
  <2>1. (~ \E fd \in Fds : WriteAck(fd)) /\ ~ Send(k) /\ ~ PutQuery
    BY <1>6 DEF PutAppend, WriteAck, PutQuery, Send, LInv, Descriptors, clientVars, socketVars, mapVars, loopVars, queueVars, processorVars
  <2>2. Acked(k)' = Acked(k) /\ sent'[k] = sent[k]
    BY <1>3, <1>4, <2>1
  <2>3. CASE socket[sockfd] = k
    <3>1. Puts(k)
      BY <1>6, <2>3 DEF Puts, PutAppend, LInv, Descriptors
    <3>2. Owed(k)' \in {0, 1}
      BY DEF Owed
    <3>3. ~ QueryPut(k) /\ ~ QueryPut(k)' /\ Put(k)' = Put(k) + 1
      BY <1>0, <2>1, <3>1
    <3> QED
      BY <1>0, <2>2, <3>2, <3>3
  <2>4. CASE socket[sockfd] # k
    <3>1. ~ Puts(k)
      BY <1>6, <2>4 DEF Puts, PutAppend, LInv, Descriptors
    <3>2. Owed(k)' = Owed(k)
      BY <1>6, <2>4 DEF Owed, PutAppend
    <3> QED
      BY <1>0, <2>1, <2>2, <3>1, <3>2
  <2> QED
    BY <2>3, <2>4
<1>7. CASE ~ PutAppend /\ ~ Send(k) /\ ~ \E fd \in Fds : WriteAck(fd)
  <2>1. Acked(k)' = Acked(k) /\ sent'[k] = sent[k] /\ Owed(k)' = Owed(k)
    BY <1>3, <1>4, <1>7, OwedSame
  <2>2. PutQuery /\ request = Query(k) => Puts(k)
    BY DEF Puts, Query
  <2> QED
    BY <1>0, <2>1, <2>2
<1>8. CASE \E fd \in Fds : WriteAck(fd) /\ socket[fd] # k
  <2>1. Acked(k)' = Acked(k) /\ Owed(k)' = Owed(k) /\ sent'[k] = sent[k]
    BY <1>2, <1>8
  <2>2. ~ Puts(k) /\ ~ PutQuery
    BY <1>8 DEF WriteAck, Puts, PutQuery, PutAppend
  <2> QED
    BY <1>0, <2>1, <2>2
<1> QED
  BY <1>1, <1>5, <1>6, <1>7, <1>8

-----------------------------------------------------------------------------
(* Forgetting a descriptor keeps the two maps each other's inverse. *)
LEMMA ForgetMeans ==
  ASSUME LInv, NEW f \in Fds, Forget(f)
  PROVE  /\ \A id \in Ids : client_id_fd_map'[id] = IF id = fd_client_id_map[f] THEN NoFd ELSE client_id_fd_map[id]
         /\ fd_client_id_map'[f] = NoId /\ fd_result_map'[f] = <<>>
         /\ \A fd \in Fds \ {f} : /\ fd_client_id_map'[fd] = fd_client_id_map[fd]
                                  /\ fd_result_map'[fd] = fd_result_map[fd]
  BY DEF LInv, TypeOK, Forget, ForgetId

(* When a descriptor is forgotten, the maps of the others stay sound. *)
LEMMA ForgetSound ==
  ASSUME LInv, NEW f \in Fds, Forget(f), \A fd \in Fds \ {f} : socket'[fd] = socket[fd]
  PROVE  MapsSound'
<1> SUFFICES ASSUME NEW fd \in Fds
             PROVE  /\ \A id \in Ids : client_id_fd_map'[id] = fd <=> fd_client_id_map'[fd] = id
                    /\ fd_client_id_map'[fd] # NoId =>
                          socket'[fd] # NoConn /\ ClientId(socket'[fd]) = fd_client_id_map'[fd]
                    /\ fd_result_map'[fd] # <<>> => fd_client_id_map'[fd] # NoId
                    /\ \A i \in 1 .. Len(fd_result_map'[fd]) : fd_result_map'[fd][i].of[1] = socket'[fd]
  BY DEF MapsSound, Open
<1>0. MapsSound /\ Orderly
  BY DEF LInv
<1>1. CASE fd = f
  <2>1. fd_client_id_map'[fd] = NoId /\ fd_result_map'[fd] = <<>>
    BY <1>1, ForgetMeans
  <2>2. \A id \in Ids : client_id_fd_map'[id] # fd
    <3> SUFFICES ASSUME NEW id \in Ids, client_id_fd_map'[id] = fd PROVE FALSE
      OBVIOUS
    <3>1. id # fd_client_id_map[f] /\ client_id_fd_map[id] = f
      BY <1>1, ForgetMeans, FdTypes
    <3> QED
      BY <1>0, <3>1 DEF MapsSound
  <2> QED
    BY <2>1, <2>2, FdTypes
<1>2. CASE fd # f
  <2>1. /\ fd_client_id_map'[fd] = fd_client_id_map[fd] /\ fd_result_map'[fd] = fd_result_map[fd]
        /\ socket'[fd] = socket[fd]
    BY <1>2, ForgetMeans
  <2>2. \A id \in Ids : client_id_fd_map'[id] = fd <=> client_id_fd_map[id] = fd
    <3> SUFFICES ASSUME NEW id \in Ids PROVE client_id_fd_map'[id] = fd <=> client_id_fd_map[id] = fd
      OBVIOUS
    <3>1. CASE id = fd_client_id_map[f]
      <4>1. client_id_fd_map'[id] = NoFd /\ client_id_fd_map[id] = f
        BY <1>0, <3>1, ForgetMeans DEF MapsSound
      <4> QED
        BY <1>2, <4>1, FdTypes
    <3>2. CASE id # fd_client_id_map[f]
      BY <3>2, ForgetMeans
    <3> QED
      BY <3>1, <3>2
  <2> QED
    BY <1>0, <2>1, <2>2 DEF MapsSound, Open
<1> QED
  BY <1>1, <1>2

(* A query's id leads to its connection, before or from now on. *)
LEMMA InsertMeans ==
  ASSUME LInv, PutQuery, Orderly', NEW k \in Conns, k = request[1]
  PROVE  /\ ~ InUse(ClientId(k), sockfd)
         /\ sockfd \in Fds /\ socket[sockfd] = k /\ ClientId(k) \in Ids
         /\ client_id_fd_map[ClientId(k)] \in {NoFd, sockfd}
         /\ fd_client_id_map[sockfd] \in {NoId, ClientId(k)}
         /\ client_id_fd_map' = [client_id_fd_map EXCEPT ![ClientId(k)] = sockfd]
         /\ fd_client_id_map' = [fd_client_id_map EXCEPT ![sockfd] = ClientId(k)]
<1>1. sockfd \in Fds /\ socket[sockfd] = k /\ ClientId(k) \in Ids /\ Open(sockfd)
  BY AtSocket, FdTypes DEF PutQuery, LInv, Descriptors
<1>2. ~ InUse(ClientId(k), sockfd) /\ client_id_fd_map[ClientId(k)] \in {NoFd, sockfd}
  <2>1. ~ InUse(ClientId(k), sockfd)
    BY DEF PutQuery, Orderly
  <2> QED
    BY <2>1 DEF InUse
<1>3. fd_client_id_map[sockfd] \in {NoId, ClientId(k)}
  BY <1>1 DEF LInv, MapsSound
<1>4. InsertId(ClientId(k), sockfd)
  BY DEF PutQuery
<1> QED
  BY <1>1, <1>2, <1>3, <1>4 DEF InsertId, LInv, TypeOK

(* Every step keeps the maps each other's inverse. *)
LEMMA MapsStep ==
  ASSUME LInv, Step, Orderly'
  PROVE  MapsSound'
<1>0. MapsSound /\ TypeOK /\ Orderly
  BY DEF LInv
<1>1. CASE UNCHANGED <<socket, client_id_fd_map, fd_client_id_map, fd_result_map>>
  BY <1>0, <1>1 DEF MapsSound, Open
<1>2. ASSUME NEW f \in Fds, AcceptOn(f) PROVE MapsSound'
  <2>1. /\ \A fd \in Fds \ {f} : socket'[fd] = socket[fd]
        /\ UNCHANGED <<client_id_fd_map, fd_client_id_map, fd_result_map>> /\ ~ Open(f)
    BY <1>0, <1>2 DEF TypeOK, AcceptOn
  <2>2. fd_client_id_map[f] = NoId /\ fd_result_map[f] = <<>>
    BY <1>0, <2>1 DEF MapsSound
  <2>3. \A fd \in Fds \ {f} :
           /\ \A id \in Ids : client_id_fd_map'[id] = fd <=> fd_client_id_map'[fd] = id
           /\ fd_client_id_map'[fd] # NoId =>
                 socket'[fd] # NoConn /\ ClientId(socket'[fd]) = fd_client_id_map'[fd]
           /\ fd_result_map'[fd] # <<>> => fd_client_id_map'[fd] # NoId
           /\ \A i \in 1 .. Len(fd_result_map'[fd]) : fd_result_map'[fd][i].of[1] = socket'[fd]
    BY <1>0, <2>1 DEF MapsSound, Open
  <2>4. \A id \in Ids : client_id_fd_map'[id] = f <=> fd_client_id_map'[f] = id
    BY <1>0, <2>1 DEF MapsSound
  <2>5. fd_client_id_map'[f] = NoId /\ fd_result_map'[f] = <<>>
    BY <2>1, <2>2
  <2> QED
    BY <2>3, <2>4, <2>5 DEF MapsSound, Open
<1>3. CASE TakeResult
  <2>1. CASE Fd1 = NoFd
    BY <1>1, <1>3, <2>1, TakeMeans DEF TakeResult, clientVars, socketVars, mapVars, loopVars, queueVars, processorVars
  <2>2. CASE Fd1 # NoFd
    <3>1. /\ Block1 \in BlockSet /\ Fd1 \in Fds /\ fd_client_id_map[Fd1] # NoId
          /\ socket[Fd1] = Block1.of[1]
          /\ fd_result_map' = [fd_result_map EXCEPT ![Fd1] = Append(@, Block1)]
          /\ UNCHANGED <<socket, client_id_fd_map, fd_client_id_map>>
      BY <1>3, <2>2, TakeMeans DEF TakeResult, clientVars, socketVars, mapVars, loopVars, queueVars, processorVars
    <3> DEFINE list == fd_result_map[Fd1]
    <3>2. /\ list \in Seq(BlockSet) /\ Len(list) \in Nat
          /\ Len(Append(list, Block1)) = Len(list) + 1
          /\ \A i \in 1 .. Len(list) : Append(list, Block1)[i] = list[i]
          /\ Append(list, Block1)[Len(list) + 1] = Block1
      BY <1>0, <3>1, AppendProperties, LenProperties DEF TypeOK
    <3>3. /\ fd_result_map'[Fd1] = Append(list, Block1)
          /\ \A fd \in Fds \ {Fd1} : fd_result_map'[fd] = fd_result_map[fd]
      BY <1>0, <3>1 DEF TypeOK
    <3>4. \A i \in 1 .. Len(list) : list[i].of[1] = socket[Fd1]
      BY <1>0, <3>1 DEF MapsSound
    <3>5. \A i \in 1 .. Len(list) + 1 : Append(list, Block1)[i].of[1] = socket[Fd1]
      BY <3>1, <3>2, <3>4
    <3> HIDE DEF list
    <3>6. \A fd \in Fds : \A i \in 1 .. Len(fd_result_map'[fd]) : fd_result_map'[fd][i].of[1] = socket[fd]
      BY <1>0, <3>1, <3>2, <3>3, <3>5 DEF MapsSound
    <3>7. \A fd \in Fds : fd_result_map'[fd] # <<>> => fd_client_id_map[fd] # NoId
      BY <1>0, <3>1, <3>3 DEF MapsSound
    <3> QED
      BY <1>0, <3>1, <3>6, <3>7 DEF MapsSound, Open
  <2> QED
    BY <2>1, <2>2
<1>4. CASE RecvClosed
  <2>1. sockfd \in Fds /\ Forget(sockfd) /\ socket' = [socket EXCEPT ![sockfd] = NoConn]
    BY <1>4, ClosedMeans DEF RecvClosed, Release
  <2> QED
    BY <1>0, <2>1, ForgetSound DEF TypeOK
<1>5. ASSUME NEW fd \in Fds, WriteAnswer(fd) PROVE MapsSound'
  BY <1>5, ForgetSound DEF WriteAnswer
<1>6. CASE PutQuery
  <2>1. PICK k \in Conns : k = request[1]
    BY <1>6, AtSocket DEF PutQuery, LInv, Descriptors
  <2> DEFINE id == ClientId(k)
  <2>2. /\ sockfd \in Fds /\ socket[sockfd] = k /\ id \in Ids
        /\ client_id_fd_map[id] \in {NoFd, sockfd} /\ fd_client_id_map[sockfd] \in {NoId, id}
        /\ client_id_fd_map' = [client_id_fd_map EXCEPT ![id] = sockfd]
        /\ fd_client_id_map' = [fd_client_id_map EXCEPT ![sockfd] = id]
        /\ UNCHANGED <<socket, fd_result_map>> /\ k # NoConn
    BY <1>6, <2>1, InsertMeans, ServerAssumption DEF PutQuery, clientVars, socketVars, mapVars, loopVars, queueVars, processorVars
  <2> HIDE DEF id
  <2>3. /\ \A i \in Ids : client_id_fd_map'[i] = IF i = id THEN sockfd ELSE client_id_fd_map[i]
        /\ \A fd \in Fds : fd_client_id_map'[fd] = IF fd = sockfd THEN id ELSE fd_client_id_map[fd]
    BY <1>0, <2>2 DEF TypeOK
  <2>4. \A fd \in Fds : \A i \in Ids : client_id_fd_map'[i] = fd <=> fd_client_id_map'[fd] = i
    <3> SUFFICES ASSUME NEW fd \in Fds, NEW i \in Ids
                 PROVE  client_id_fd_map'[i] = fd <=> fd_client_id_map'[fd] = i
      OBVIOUS
    <3>1. client_id_fd_map[i] = fd <=> fd_client_id_map[fd] = i
      BY <1>0 DEF MapsSound
    <3>2. client_id_fd_map[id] = fd <=> fd_client_id_map[fd] = id
      BY <1>0, <2>2 DEF MapsSound
    <3>3. client_id_fd_map[i] = sockfd <=> fd_client_id_map[sockfd] = i
      BY <1>0, <2>2 DEF MapsSound
    <3> QED
      BY <2>2, <2>3, <3>1, <3>2, <3>3, FdTypes
  <2>5. \A fd \in Fds : /\ fd_client_id_map'[fd] # NoId =>
                             socket'[fd] # NoConn /\ ClientId(socket'[fd]) = fd_client_id_map'[fd]
                        /\ fd_result_map'[fd] # <<>> => fd_client_id_map'[fd] # NoId
                        /\ \A i \in 1 .. Len(fd_result_map'[fd]) : fd_result_map'[fd][i].of[1] = socket'[fd]
    BY <1>0, <2>2, <2>3, FdTypes DEF MapsSound, Open, id
  <2> QED
    BY <2>4, <2>5 DEF MapsSound, Open
<1> QED
  BY <1>1, <1>2, <1>3, <1>4, <1>5, <1>6
     DEF Step, AcceptFails, Connect, Send, Close, WriteAck, WriteNothing, EndResults, EndAccept,
         BeginRead, Receive, RecvNothing, PutAppend, EndServe, ReadRequest,
         WriteBlock, vars, clientVars, socketVars, mapVars, loopVars, queueVars, processorVars

-----------------------------------------------------------------------------
(* The blocks on their way. *)
LEMMA ConcatBlocks ==
  ASSUME NEW s \in Seq(BlockSet), NEW t \in Seq(BlockSet), NEW m, m = Len(s), NEW n, n = Len(t)
  PROVE  /\ s \o t \in Seq(BlockSet) /\ Len(s \o t) = m + n
         /\ \A i \in 1 .. m + n : (s \o t)[i] = IF i <= m THEN s[i] ELSE t[i - m]
  BY ConcatProperties

(* The blocks in the queue come before those in log_processor's hands. *)
LEMMA FlowTypes ==
  ASSUME LInv
  PROVE  /\ result_queue \in Seq(BlockSet) /\ blocks \in Seq(BlockSet) /\ Flow \in Seq(BlockSet)
         /\ Len(result_queue) \in Nat /\ Len(blocks) \in Nat /\ Len(Flow) \in Nat
         /\ Len(Flow) = Len(result_queue) + Len(blocks)
         /\ \A i \in 1 .. Len(Flow) :
               Flow[i] = IF i <= Len(result_queue) THEN result_queue[i] ELSE blocks[i - Len(result_queue)]
         /\ (Flow = <<>> <=> Len(Flow) = 0)
<1>1. result_queue \in Seq(BlockSet) /\ blocks \in Seq(BlockSet)
  BY DEF LInv, TypeOK
<1>2. /\ Flow \in Seq(BlockSet) /\ Len(Flow) = Len(result_queue) + Len(blocks)
      /\ \A i \in 1 .. Len(result_queue) + Len(blocks) :
            Flow[i] = IF i <= Len(result_queue) THEN result_queue[i] ELSE blocks[i - Len(result_queue)]
  BY <1>1, ConcatProperties DEF Flow
<1> QED
  BY <1>1, <1>2, LenProperties, EmptySeq

(* A block on its way belongs to the answer to a query that was put. *)
LEMMA FlowBlock ==
  ASSUME LInv, NEW i \in 1 .. Len(Flow), NEW k, k = Flow[i].of[1]
  PROVE  /\ k \in Conns /\ QueryPut(k) /\ ~ Replied(k)
         /\ ResultBlocks(k) \in Nat /\ ResultBlocks(k) > 0
         /\ Place(Flow[i]) \in 1 .. ResultBlocks(k) + 1 /\ Flow[i] = Nth(k, Place(Flow[i]))
         /\ (Flow[i].n = 0 <=> Place(Flow[i]) = ResultBlocks(k) + 1)
         /\ (Flow[i].n = 1 <=> Place(Flow[i]) = 1)
<1>1. /\ k \in Conns /\ QueryPut(k) /\ ~ Replied(k)
      /\ Place(Flow[i]) \in 1 .. ResultBlocks(k) + 1 /\ Flow[i] = Nth(k, Place(Flow[i]))
  BY DEF LInv, Flowing
<1>2. ResultBlocks(k) \in Nat /\ ResultBlocks(k) > 0
  BY <1>1, ServerAssumption
<1> DEFINE p == Place(Flow[i])
           n == Flow[i].n
<1>3. n = IF p = ResultBlocks(k) + 1 THEN 0 ELSE p
  BY <1>1, NthFields
<1>4. p \in 1 .. ResultBlocks(k) + 1
  BY <1>1
<1> HIDE DEF n, p
<1>5. (n = 0 <=> p = ResultBlocks(k) + 1) /\ (n = 1 <=> p = 1)
  BY <1>2, <1>3, <1>4
<1> QED
  BY <1>1, <1>2, <1>5 DEF n, p

(* Taking a block takes the first. *)
LEMMA TakeFlow ==
  ASSUME LInv, TakeResult
  PROVE  /\ Len(Flow) > 0 /\ Flow[1] = Block1 /\ Len(Flow') = Len(Flow) - 1
         /\ \A i \in 1 .. Len(Flow) - 1 : Flow'[i] = Flow[i + 1]
<1> DEFINE q == result_queue
           t == Tail(q)
<1>1. q # <<>> /\ q' = t /\ blocks' = blocks
  BY DEF TakeResult, clientVars, socketVars, mapVars, loopVars, queueVars, processorVars
<1>2. /\ q \in Seq(BlockSet) /\ Len(q) \in Nat /\ Len(q) > 0 /\ Block1 = q[1]
      /\ t \in Seq(BlockSet) /\ Len(t) = Len(q) - 1 /\ \A i \in 1 .. Len(q) - 1 : t[i] = q[i + 1]
  BY <1>1, FlowTypes, EmptySeq, HeadTailProperties DEF Block1
<1>3. /\ blocks \in Seq(BlockSet) /\ Len(blocks) \in Nat /\ Len(Flow) = Len(q) + Len(blocks)
      /\ \A i \in 1 .. Len(Flow) : Flow[i] = IF i <= Len(q) THEN q[i] ELSE blocks[i - Len(q)]
  BY FlowTypes
<1>4. Flow' = t \o blocks
  BY <1>1 DEF Flow
<1> HIDE DEF t, q
<1>5. /\ Len(t \o blocks) = Len(t) + Len(blocks)
      /\ \A i \in 1 .. Len(t) + Len(blocks) :
            (t \o blocks)[i] = IF i <= Len(t) THEN t[i] ELSE blocks[i - Len(t)]
  <2>1. t \in Seq(BlockSet) /\ blocks \in Seq(BlockSet)
    BY <1>2, <1>3
  <2> QED
    BY ONLY <2>1, ConcatBlocks
<1>6. ASSUME NEW i \in 1 .. Len(Flow) - 1 PROVE Flow'[i] = Flow[i + 1]
  <2>1. i \in 1 .. Len(t) + Len(blocks) /\ i + 1 \in 1 .. Len(Flow)
    BY <1>2, <1>3
  <2>2. CASE i <= Len(t)
    <3>1. i \in 1 .. Len(q) - 1 /\ i + 1 <= Len(q)
      BY <1>2, <2>1, <2>2
    <3> QED
      BY <1>2, <1>3, <1>4, <1>5, <2>1, <2>2, <3>1
  <2>3. CASE ~ i <= Len(t)
    <3>1. ~ i + 1 <= Len(q) /\ i - Len(t) = i + 1 - Len(q)
      BY <1>2, <2>1, <2>3
    <3> QED
      BY <1>3, <1>4, <1>5, <2>1, <2>3, <3>1
  <2> QED
    BY <2>2, <2>3
<1> QED
  BY <1>2, <1>3, <1>4, <1>5, <1>6

(* Writing a block to the queue changes nothing of their order. *)
LEMMA WriteBlockFlow ==
  ASSUME LInv, WriteBlock
  PROVE  Flow' = Flow /\ (answering' = NoRequest <=> blocks' = <<>>)
<1>1. /\ answering # NoRequest /\ result_queue' = Append(result_queue, Head(blocks))
      /\ blocks' = Tail(blocks) /\ answering' = IF Len(blocks) = 1 THEN NoRequest ELSE answering
  BY DEF WriteBlock
<1>2. blocks # <<>> /\ blocks \in Seq(BlockSet) /\ result_queue \in Seq(BlockSet)
  BY <1>1, FlowTypes DEF LInv, Flowing
<1> DEFINE h == Head(blocks)
           t == Tail(blocks)
           q == result_queue
<1>3. /\ h \in BlockSet /\ t \in Seq(BlockSet) /\ Len(t) = Len(blocks) - 1 /\ Len(blocks) \in Nat
      /\ blocks[1] = h /\ \A i \in 1 .. Len(blocks) - 1 : t[i] = blocks[i + 1]
      /\ Len(blocks) > 0 /\ Len(q) \in Nat
  BY <1>2, EmptySeq, HeadTailProperties, LenProperties
<1> HIDE DEF h, t, q
<1>4. /\ Append(q, h) \in Seq(BlockSet) /\ Len(Append(q, h)) = Len(q) + 1
      /\ \A i \in 1 .. Len(q) : Append(q, h)[i] = q[i]
      /\ Append(q, h)[Len(q) + 1] = h
  BY <1>2, <1>3, AppendProperties DEF q
<1> DEFINE flow == Append(q, h) \o t
<1>5. /\ flow \in Seq(BlockSet) /\ Len(flow) = Len(q) + 1 + Len(t)
      /\ \A i \in 1 .. Len(q) + 1 + Len(t) :
            flow[i] = IF i <= Len(q) + 1 THEN Append(q, h)[i] ELSE t[i - (Len(q) + 1)]
  <2> DEFINE a == Append(q, h)
  <2> HIDE DEF a
  <2>1. a \in Seq(BlockSet) /\ Len(q) + 1 = Len(a) /\ t \in Seq(BlockSet)
    BY <1>3, <1>4 DEF a
  <2> QED
    BY <2>1, ConcatBlocks DEF a
<1>6. Flow' = flow
  BY <1>1 DEF Flow, h, t, q
<1>7. /\ Flow \in Seq(BlockSet) /\ Len(Flow) = Len(q) + Len(blocks)
      /\ \A i \in 1 .. Len(Flow) : Flow[i] = IF i <= Len(q) THEN q[i] ELSE blocks[i - Len(q)]
  BY FlowTypes DEF q
<1> HIDE DEF flow
<1>8. Len(flow) = Len(Flow)
  BY <1>3, <1>5, <1>7
<1>9. ASSUME NEW i \in 1 .. Len(Flow) PROVE flow[i] = Flow[i]
  <2>1. CASE i <= Len(q)
    <3>1. i \in 1 .. Len(q) /\ i <= Len(q) + 1 /\ i \in 1 .. Len(q) + 1 + Len(t)
      BY <1>3, <1>7, <2>1
    <3> QED
      <4>1. flow[i] = Append(q, h)[i] /\ Append(q, h)[i] = q[i]
        BY <1>4, <1>5, <3>1
      <4>2. Flow[i] = IF i <= Len(q) THEN q[i] ELSE blocks[i - Len(q)]
        BY ONLY <1>7, <1>9
      <4> QED
        BY ONLY <2>1, <4>1, <4>2
  <2>2. CASE i = Len(q) + 1
    <3>1. /\ i <= Len(q) + 1 /\ i \in 1 .. Len(q) + 1 + Len(t) /\ ~ i <= Len(q)
          /\ i - Len(q) = 1
      BY <1>3, <1>7, <2>2
    <3>2. flow[i] = h
      BY <1>4, <1>5, <2>2, <3>1
    <3>3. Flow[i] = blocks[1]
      BY <1>7, <3>1
    <3> QED
      BY <1>3, <3>2, <3>3
  <2>3. CASE i > Len(q) + 1
    <3>1. /\ i - (Len(q) + 1) \in 1 .. Len(blocks) - 1 /\ i - (Len(q) + 1) + 1 = i - Len(q)
          /\ ~ i <= Len(q) /\ ~ i <= Len(q) + 1 /\ i \in 1 .. Len(q) + 1 + Len(t)
      BY <1>3, <1>7, <2>3
    <3>2. flow[i] = t[i - (Len(q) + 1)] /\ Flow[i] = blocks[i - Len(q)]
      BY <1>5, <1>7, <3>1
    <3> QED
      BY <1>3, <3>1, <3>2
  <2> QED
    BY <1>3, <2>1, <2>2, <2>3
<1>10. flow = Flow
  BY <1>5, <1>7, <1>8, <1>9, SeqEqual
<1>11. blocks' = <<>> <=> Len(blocks) = 1
  BY <1>1, <1>3, EmptySeq DEF t
<1> QED
  BY <1>1, <1>6, <1>10, <1>11

(* The first request of msg_queue, and those behind it. *)
LEMMA MsgHead ==
  ASSUME LInv, msg_queue # <<>>
  PROVE  /\ Head(msg_queue) = msg_queue[1] /\ msg_queue[1] \in Requests
         /\ Len(msg_queue) \in Nat /\ Len(msg_queue) > 0
         /\ Len(Tail(msg_queue)) = Len(msg_queue) - 1
         /\ \A i \in 1 .. Len(msg_queue) - 1 : Tail(msg_queue)[i] = msg_queue[i + 1]
<1>1. msg_queue \in Seq(Requests)
  BY DEF LInv, TypeOK
<1> QED
  BY <1>1, EmptySeq, LenProperties, HeadTailProperties

(* Reading a query adds its whole answer behind the others. *)
LEMMA ReadFlow ==
  ASSUME LInv, ReadRequest, Kind(Head(msg_queue)) = "query", NEW k, k = Head(msg_queue)[1]
  PROVE  /\ k \in Conns /\ Head(msg_queue) = Query(k) /\ QueryPut(k) /\ ~ Replied(k)
         /\ ResultBlocks(k) \in Nat /\ ResultBlocks(k) > 0
         /\ Len(Flow') = Len(Flow) + ResultBlocks(k) + 1
         /\ \A i \in 1 .. Len(Flow) : Flow'[i] = Flow[i]
         /\ \A p \in 1 .. ResultBlocks(k) + 1 : Flow'[Len(Flow) + p] = Nth(k, p)
         /\ \A i \in 1 .. Len(Flow) : Flow[i].of[1] # k
         /\ answering' # NoRequest /\ blocks' # <<>>
<1> DEFINE r == Head(msg_queue)
           R == ResultBlocks(k)
           front == [i \in 1 .. R |-> Block(r, i)]
           answer == Append(front, Block(r, 0))
<1>1. /\ r \in Requests /\ r = msg_queue[1] /\ 1 \in 1 .. Len(msg_queue)
      /\ answering' = r /\ blocks' = answer /\ result_queue' = result_queue
      /\ answering = NoRequest
  <2>1. msg_queue # <<>> /\ answering = NoRequest /\ result_queue' = result_queue
    BY DEF ReadRequest, clientVars, socketVars, mapVars, loopVars, queueVars, processorVars
  <2>2. r \in Requests /\ r = msg_queue[1] /\ 1 \in 1 .. Len(msg_queue)
    BY <2>1, MsgHead
  <2>3. Kind(r) = "query"
    OBVIOUS
  <2>4. answering' = r /\ blocks' = answer
    BY <2>3 DEF ReadRequest
  <2> QED
    BY <2>1, <2>2, <2>4
<1>2. k \in Conns /\ r = Query(k) /\ r # NoRequest
  BY <1>1, RequestFields
<1>3. QueryPut(k) /\ ~ Replied(k) /\ \A i \in 1 .. Len(Flow) : Flow[i].of[1] # k
  BY <1>1 DEF LInv, Queued
<1>4. R \in Nat /\ R > 0 /\ \A n \in 0 .. R : Block(r, n) \in BlockSet
  BY <1>1, BlockTypes
<1>5. front \in Seq(BlockSet) /\ Len(front) = R /\ Block(r, 0) \in BlockSet
  <2>1. \A n \in 1 .. R : Block(r, n) \in BlockSet
    BY <1>4
  <2> HIDE DEF r, R
  <2>2. front \in Seq(BlockSet)
    BY <1>4, <2>1, IsASeq
  <2> QED
    BY <1>4, <2>2
<1>6. \A i \in 1 .. R : front[i] = Block(r, i)
  OBVIOUS
<1> HIDE DEF front, R, r
<1>7. /\ answer \in Seq(BlockSet) /\ Len(answer) = R + 1
      /\ \A i \in 1 .. R : answer[i] = front[i]
      /\ answer[R + 1] = Block(r, 0)
  BY <1>4, <1>5, AppendProperties
<1> HIDE DEF answer
<1>8. \A p \in 1 .. R + 1 : answer[p] = Nth(k, p)
  <2> SUFFICES ASSUME NEW p \in 1 .. R + 1 PROVE answer[p] = Nth(k, p)
    OBVIOUS
  <2>1. CASE p = R + 1
    BY <1>2, <1>7, <2>1 DEF Nth, R
  <2>2. CASE p # R + 1
    <3>1. p \in 1 .. R
      BY <1>4, <2>2
    <3>2. Nth(k, p) = Block(Query(k), p)
      BY <2>2 DEF Nth, R
    <3> QED
      BY <1>2, <1>6, <1>7, <3>1, <3>2
  <2> QED
    BY <2>1, <2>2
<1>9. /\ Len(Flow) = Len(result_queue) /\ Len(Flow) \in Nat /\ result_queue \in Seq(BlockSet)
      /\ \A i \in 1 .. Len(Flow) : Flow[i] = result_queue[i]
  <2>1. blocks = <<>> /\ Len(blocks) = 0
    BY <1>1, EmptySeq DEF LInv, Flowing
  <2> QED
    BY <2>1, FlowTypes
<1>10. Flow' = result_queue \o answer
  BY <1>1 DEF Flow
<1> DEFINE m == Len(Flow)
           flow == result_queue \o answer
<1> HIDE DEF m
<1>11. /\ Len(flow) = m + (R + 1)
       /\ \A i \in 1 .. m + (R + 1) : flow[i] = IF i <= m THEN result_queue[i] ELSE answer[i - m]
  <2>1. answer \in Seq(BlockSet) /\ R + 1 = Len(answer) /\ result_queue \in Seq(BlockSet) /\ m = Len(result_queue)
    BY <1>7, <1>9 DEF m
  <2> QED
    BY ONLY <2>1, ConcatBlocks
<1>12. m \in Nat /\ \A i \in 1 .. m : Flow[i] = result_queue[i]
  BY <1>9 DEF m
<1> HIDE DEF flow
<1>13. \A i \in 1 .. m : flow[i] = Flow[i]
  BY <1>4, <1>11, <1>12
<1>14. ASSUME NEW p \in 1 .. R + 1 PROVE flow[m + p] = Nth(k, p)
  <2> DEFINE j == m + p
  <2>1. j \in 1 .. m + (R + 1) /\ ~ j <= m /\ j - m = p
    BY <1>4, <1>12
  <2> HIDE DEF j
  <2>2. flow[j] = answer[j - m]
    BY <1>11, <2>1
  <2> QED
    BY <1>8, <2>1, <2>2 DEF j
<1>15. Len(flow) = m + R + 1
  BY <1>4, <1>11, <1>12
<1>16. answer # <<>>
  BY <1>4, <1>7, EmptySeq
<1> QED
  BY <1>1, <1>2, <1>3, <1>4, <1>10, <1>13, <1>14, <1>15, <1>16 DEF flow, m, R, r

Reads == ReadRequest /\ Kind(Head(msg_queue)) = "query"

(* No other step changes the blocks on their way. *)
LEMMA FlowSame ==
  ASSUME LInv, Step, ~ TakeResult, ~ Reads
  PROVE  Flow' = Flow /\ (answering' = NoRequest <=> blocks' = <<>>)
<1>1. CASE UNCHANGED <<result_queue, answering, blocks>>
  BY <1>1 DEF Flow, LInv, Flowing
<1>2. CASE WriteBlock
  BY <1>2, WriteBlockFlow
<1>3. CASE ReadRequest
  <2>1. Kind(Head(msg_queue)) # "query"
    BY <1>3 DEF Reads
  <2> QED
    BY <1>1, <1>3, <2>1 DEF ReadRequest, clientVars, socketVars, mapVars, loopVars, queueVars, processorVars
<1> QED
  BY <1>1, <1>2, <1>3
     DEF Step, AcceptFails, Connect, Send, Close, AcceptOn, WriteAck, WriteNothing, WriteAnswer, EndResults, EndAccept,
         BeginRead, Receive, RecvNothing, RecvClosed, PutQuery, PutAppend, EndServe, vars, clientVars, socketVars, mapVars, loopVars, queueVars, processorVars

(* What taking a block leaves alone. *)
LEMMA TakeKeeps ==
  ASSUME TakeResult
  PROVE  /\ answering' = answering /\ blocks' = blocks /\ msg_queue' = msg_queue
         /\ UNCHANGED <<link, sent, replies, socket, mode, unread, fd_client_id_map,
                        client_id_fd_map, fd_ack_set, request>>
  BY DEF TakeResult, clientVars, socketVars, mapVars, loopVars, queueVars, processorVars

(* The answer that is written has been taken whole. *)
LEMMA WriteAnswerLast ==
  ASSUME LInv, NEW fd \in Fds, WriteAnswer(fd)
  PROVE  /\ Open(fd) /\ socket[fd] \in Conns /\ ~ Begins(socket[fd])
         /\ \A i \in 1 .. Len(Flow) : Flow[i].of[1] # socket[fd]
         /\ \A i \in 1 .. Len(msg_queue) :
               Kind(msg_queue[i]) = "query" => msg_queue[i][1] # socket[fd]
<1>1. socket[fd] \in Conns => ResultBlocks(socket[fd]) \in Nat
  BY ServerAssumption
<1>2. Taken(fd) # 0 /\ fd_result_map[fd] # <<>>
  <2>1. fd_result_map[fd] # <<>>
    <3>1. SUFFICES ASSUME fd_result_map[fd] = <<>> PROVE FALSE
      OBVIOUS
    <3>2. Taken(fd) = 0
      BY <3>1, TakenMeans
    <3>4. Taken(fd) = ResultBlocks(socket[fd]) + 1
      BY DEF WriteAnswer
    <3>3. socket[fd] \in Conns
      BY FdTypes DEF WriteAnswer, LInv, Descriptors, TypeOK, Open
    <3> QED
      BY <1>1, <3>2, <3>3, <3>4
  <2> QED
    BY <2>1, TakenMeans
<1>3. Taken(fd) > 0
  BY <1>2, TakenMeans
<1>4. Open(fd) /\ socket[fd] \in Conns
  BY <1>3, TakenMeans
<1>5. ~ Begins(socket[fd]) /\ \A i \in 1 .. Len(Flow) : Flow[i].of[1] # socket[fd]
  BY <1>3 DEF WriteAnswer, LInv, Kept, KeptAt
<1> QED
  BY <1>4, <1>5 DEF Begins

(* A client is replied to when its answer is written, and stays so. *)
LEMMA RepliedStep ==
  ASSUME LInv, Step, NEW k \in Conns
  PROVE  Replied(k)' <=> Replied(k) \/ \E fd \in Fds : socket[fd] = k /\ WriteAnswer(fd)
<1>1. CASE replies'[k] = replies[k]
  <2>1. ASSUME NEW fd \in Fds, socket[fd] = k, WriteAnswer(fd) PROVE FALSE
    <3>1. Replied(k)' /\ ~ Replied(k)
      BY <2>1, WriteAnswerCounts
    <3> QED
      BY <1>1, <3>1, RepliesSame
  <2> QED
    BY <1>1, <2>1, RepliesSame
<1>2. ASSUME NEW fd \in Fds, socket[fd] = k, WriteAck(fd)
      PROVE  ~ Replied(k)' /\ ~ Replied(k) /\ ~ \E other \in Fds : socket[other] = k /\ WriteAnswer(other)
  <2>1. ~ Replied(k)' /\ ~ Replied(k)
    BY <1>2, WriteAckCounts, AckOwed DEF WriteAck
  <2>2. ASSUME NEW other \in Fds, socket[other] = k, WriteAnswer(other) PROVE FALSE
    BY <2>1, <2>2, WriteAnswerCounts
  <2> QED
    BY <2>1, <2>2
<1>3. ASSUME NEW fd \in Fds, socket[fd] = k, WriteAnswer(fd) PROVE Replied(k)'
  BY <1>3, WriteAnswerCounts
<1> QED
  BY <1>1, <1>2, <1>3, WhoReplies

(* Who has been replied to, among those with blocks or queries on the way. *)
LEMMA StillWaits ==
  ASSUME LInv, Step, NEW k \in Conns, QueryPut(k), ~ Replied(k),
         \/ \E i \in 1 .. Len(Flow) : Flow[i].of[1] = k
         \/ \E i \in 1 .. Len(msg_queue) : Kind(msg_queue[i]) = "query" /\ msg_queue[i][1] = k
  PROVE  QueryPut(k)' /\ ~ Replied(k)'
<1>1. QueryPut(k)'
  BY PutGrows
<1>2. ~ \E fd \in Fds : socket[fd] = k /\ WriteAnswer(fd)
  BY WriteAnswerLast
<1> QED
  BY <1>1, <1>2, RepliedStep

(* Every step keeps the answers one behind the other. *)
LEMMA FlowingStep ==
  ASSUME LInv, Step
  PROVE  Flowing'
<1>0. Flowing /\ Len(Flow) \in Nat
  BY FlowTypes DEF LInv
<1>1. ASSUME ~ TakeResult, ~ Reads PROVE Flowing'
  <2>1. Flow' = Flow /\ (answering' = NoRequest <=> blocks' = <<>>)
    BY <1>1, FlowSame
  <2>2. ASSUME NEW i \in 1 .. Len(Flow), NEW k, k = Flow[i].of[1]
        PROVE  k \in Conns /\ QueryPut(k)' /\ ~ Replied(k)'
    BY <2>2, FlowBlock, StillWaits
  <2> QED
    BY <1>0, <2>1, <2>2 DEF Flowing
<1>2. CASE TakeResult
  <2>1. /\ Len(Flow) > 0 /\ Len(Flow') = Len(Flow) - 1
        /\ \A i \in 1 .. Len(Flow) - 1 : Flow'[i] = Flow[i + 1]
    BY <1>2, TakeFlow
  <2>2. answering' = NoRequest <=> blocks' = <<>>
    BY <1>0, <1>2, TakeKeeps DEF Flowing
  <2>3. ASSUME NEW i \in 1 .. Len(Flow'), NEW k, k = Flow'[i].of[1]
        PROVE  /\ k \in Conns /\ QueryPut(k)' /\ ~ Replied(k)'
               /\ Place(Flow'[i]) \in 1 .. ResultBlocks(k) + 1
               /\ Flow'[i] = Nth(k, Place(Flow'[i]))
    <3>1. i + 1 \in 1 .. Len(Flow) /\ Flow'[i] = Flow[i + 1]
      BY <1>0, <2>1
    <3> QED
      BY <2>3, <3>1, FlowBlock, StillWaits
  <2>4. ASSUME NEW i \in 1 .. Len(Flow') - 1
        PROVE  IF Flow'[i].n = 0 THEN Flow'[i + 1].n = 1
               ELSE Flow'[i + 1] = Nth(Flow'[i].of[1], Place(Flow'[i]) + 1)
    <3>1. /\ i + 1 \in 1 .. Len(Flow) - 1 /\ Flow'[i] = Flow[i + 1] /\ Flow'[i + 1] = Flow[(i + 1) + 1]
      BY <1>0, <2>1
    <3> DEFINE j == i + 1
    <3>2. IF Flow[j].n = 0 THEN Flow[j + 1].n = 1
          ELSE Flow[j + 1] = Nth(Flow[j].of[1], Place(Flow[j]) + 1)
      BY <1>0, <3>1 DEF Flowing
    <3> QED
      BY <3>1, <3>2
  <2>5. Len(Flow') > 0 => Flow'[Len(Flow')].n = 0
    <3> SUFFICES ASSUME Len(Flow') > 0 PROVE Flow'[Len(Flow')].n = 0
      OBVIOUS
    <3>1. Len(Flow') \in 1 .. Len(Flow) - 1 /\ Len(Flow') + 1 = Len(Flow)
      BY <1>0, <2>1
    <3>2. Flow'[Len(Flow')] = Flow[Len(Flow)]
      BY <2>1, <3>1
    <3> QED
      BY <1>0, <2>1, <3>2 DEF Flowing
  <2>6. ASSUME NEW i \in 1 .. Len(Flow'), NEW j \in 1 .. Len(Flow'), i < j, Flow'[i].of[1] = Flow'[j].of[1]
        PROVE  Place(Flow'[i]) < Place(Flow'[j])
    <3>1. /\ i + 1 \in 1 .. Len(Flow) /\ j + 1 \in 1 .. Len(Flow) /\ i + 1 < j + 1
          /\ Flow'[i] = Flow[i + 1] /\ Flow'[j] = Flow[j + 1]
      BY <1>0, <2>1, <2>6
    <3> QED
      BY <1>0, <2>6, <3>1 DEF Flowing
  <2> QED
    BY <2>2, <2>3, <2>4, <2>5, <2>6 DEF Flowing
<1>3. CASE Reads
  <2>1. PICK k \in Conns :
           /\ QueryPut(k) /\ ~ Replied(k) /\ ResultBlocks(k) \in Nat /\ ResultBlocks(k) > 0
           /\ Len(Flow') = Len(Flow) + ResultBlocks(k) + 1
           /\ \A i \in 1 .. Len(Flow) : Flow'[i] = Flow[i]
           /\ \A p \in 1 .. ResultBlocks(k) + 1 : Flow'[Len(Flow) + p] = Nth(k, p)
           /\ \A i \in 1 .. Len(Flow) : Flow[i].of[1] # k
           /\ answering' # NoRequest /\ blocks' # <<>>
           /\ k = Head(msg_queue)[1]
    BY <1>3, ReadFlow DEF Reads
  <2> DEFINE m == Len(Flow)
             R == ResultBlocks(k)
             f == Flow'
  <2>2. /\ m \in Nat /\ R \in Nat /\ R > 0 /\ Len(f) = m + R + 1
        /\ \A i \in 1 .. m : f[i] = Flow[i] /\ Flow[i].of[1] # k
        /\ \A p \in 1 .. R + 1 : f[m + p] = Nth(k, p)
    BY <1>0, <2>1
  <2>3. QueryPut(k)' /\ ~ Replied(k)'
    <3>1. msg_queue[1][1] = k /\ Kind(msg_queue[1]) = "query" /\ 1 \in 1 .. Len(msg_queue)
      BY <1>3, <2>1, MsgHead DEF Reads, ReadRequest
    <3> QED
      BY <2>1, <3>1, StillWaits
  <2>4. \A p \in 1 .. R + 1 :
           /\ Nth(k, p).of[1] = k /\ Place(Nth(k, p)) = p
           /\ Nth(k, p).n = IF p = R + 1 THEN 0 ELSE p
    BY NthFields
  <2> HIDE DEF m, R, f
  <2>5. ASSUME NEW i \in 1 .. m + R + 1
        PROVE  \/ i \in 1 .. m /\ f[i] = Flow[i]
               \/ /\ i \notin 1 .. m /\ i - m \in 1 .. R + 1 /\ f[i] = Nth(k, i - m)
                  /\ f[i].of[1] = k /\ Place(f[i]) = i - m
                  /\ f[i].n = IF i = m + R + 1 THEN 0 ELSE i - m
    <3>1. CASE i \in 1 .. m
      BY <2>2, <3>1
    <3>2. CASE i \notin 1 .. m
      <4> DEFINE p == i - m
      <4>1. p \in 1 .. R + 1 /\ m + p = i /\ (p = R + 1 <=> i = m + R + 1)
        BY <2>2, <3>2
      <4> HIDE DEF p
      <4>2. f[i] = Nth(k, p)
        BY <2>2, <4>1
      <4>3. f[i].of[1] = k /\ Place(f[i]) = p /\ f[i].n = IF i = m + R + 1 THEN 0 ELSE p
        BY <2>4, <4>1, <4>2
      <4> QED
        BY <3>2, <4>1, <4>2, <4>3 DEF p
    <3> QED
      BY <3>1, <3>2
  <2>6. ASSUME NEW i \in 1 .. m + R + 1, NEW l, l = f[i].of[1]
        PROVE  /\ l \in Conns /\ QueryPut(l)' /\ ~ Replied(l)'
               /\ Place(f[i]) \in 1 .. ResultBlocks(l) + 1
               /\ f[i] = Nth(l, Place(f[i]))
    <3>1. CASE i \in 1 .. m /\ f[i] = Flow[i]
      BY <2>6, <3>1, FlowBlock, StillWaits DEF m
    <3>2. CASE i - m \in 1 .. R + 1 /\ f[i] = Nth(k, i - m) /\ f[i].of[1] = k /\ Place(f[i]) = i - m
      BY <2>1, <2>3, <2>6, <3>2 DEF R
    <3> QED
      BY <2>5, <3>1, <3>2
  <2>7. ASSUME NEW i \in 1 .. m + R
        PROVE  IF f[i].n = 0 THEN f[i + 1].n = 1
               ELSE f[i + 1] = Nth(f[i].of[1], Place(f[i]) + 1)
    <3>1. CASE i \in 1 .. m - 1
      <4>1. f[i] = Flow[i] /\ f[i + 1] = Flow[i + 1]
        BY <2>2, <3>1
      <4> QED
        BY <1>0, <3>1, <4>1 DEF Flowing, m
    <3>2. CASE i = m
      <4>1. f[i] = Flow[m] /\ Flow[m].n = 0
        BY <1>0, <2>2, <3>2 DEF Flowing, m
      <4>2. f[i + 1] = Nth(k, 1)
        BY <2>2, <3>2
      <4> QED
        BY <2>2, <2>4, <4>1, <4>2, SMTT(30)
    <3>3. CASE i > m
      <4>1. i \in 1 .. m + R + 1 /\ i \notin 1 .. m /\ i + 1 \in 1 .. m + R + 1 /\ i + 1 \notin 1 .. m
        BY <2>2, <3>3
      <4>2. f[i].n = i - m /\ f[i].of[1] = k /\ Place(f[i]) = i - m /\ f[i + 1] = Nth(k, i + 1 - m)
        BY <2>2, <2>5, <4>1
      <4>3. i - m # 0 /\ i + 1 - m = i - m + 1
        BY <2>2, <3>3
      <4> QED
        BY <4>2, <4>3
    <3> QED
      BY <2>2, <3>1, <3>2, <3>3
  <2>8. f[m + R + 1].n = 0
    <3>1. m + R + 1 \in 1 .. m + R + 1 /\ m + R + 1 \notin 1 .. m
      BY <2>2
    <3> QED
      BY <2>5, <3>1
  <2>9. ASSUME NEW i \in 1 .. m + R + 1, NEW j \in 1 .. m + R + 1, i < j, f[i].of[1] = f[j].of[1]
        PROVE  Place(f[i]) < Place(f[j])
    <3>1. CASE i \in 1 .. m /\ j \in 1 .. m
      <4>1. f[i] = Flow[i] /\ f[j] = Flow[j]
        BY <2>2, <3>1
      <4> QED
        BY <1>0, <2>9, <3>1, <4>1 DEF Flowing, m
    <3>2. CASE i \in 1 .. m /\ j \notin 1 .. m
      <4>1. f[i].of[1] # k
        BY <2>2, <3>2
      <4>2. f[j].of[1] = k
        BY <2>5, <3>2
      <4> QED
        BY <2>9, <4>1, <4>2
    <3>3. CASE i \notin 1 .. m
      <4>1. j \notin 1 .. m
        BY <2>2, <2>9, <3>3
      <4>2. Place(f[i]) = i - m /\ Place(f[j]) = j - m
        BY <2>5, <3>3, <4>1
      <4>3. i - m < j - m
        BY <2>2, <2>9
      <4> QED
        BY <4>2, <4>3
    <3> QED
      BY <3>1, <3>2, <3>3
  <2>10. /\ Len(f) = m + R + 1 /\ Len(f) - 1 = m + R /\ Flow' = f
         /\ answering' # NoRequest /\ blocks' # <<>>
    <3>1. Len(f) = m + R + 1 /\ Len(f) - 1 = m + R
      BY <2>2
    <3>2. Flow' = f
      BY DEF f
    <3> QED
      BY <2>1, <3>1, <3>2
  <2> QED
    BY <2>6, <2>7, <2>8, <2>9, <2>10 DEF Flowing
<1> QED
  BY <1>1, <1>2, <1>3

(* Every step keeps the queries of msg_queue unanswered. *)
LEMMA QueuedStep ==
  ASSUME LInv, Step
  PROVE  Queued'
<1>0. Queued /\ Len(msg_queue) \in Nat /\ msg_queue \in Seq(Requests) /\ Len(Flow) \in Nat
  BY FlowTypes, LenProperties DEF LInv, TypeOK
<1>1. ASSUME msg_queue' = msg_queue, Flow' = Flow PROVE Queued'
  <2>1. ASSUME NEW i \in 1 .. Len(msg_queue), Kind(msg_queue[i]) = "query", NEW k, k = msg_queue[i][1]
        PROVE  QueryPut(k)' /\ ~ Replied(k)'
    <3>1. k \in Conns
      BY <1>0, <2>1, ElementOfSeq, RequestFields
    <3>2. QueryPut(k) /\ ~ Replied(k)
      BY <1>0, <2>1 DEF Queued
    <3> QED
      BY <2>1, <3>1, <3>2, StillWaits
  <2> QED
    BY <1>0, <1>1, <2>1 DEF Queued
<1>2. CASE TakeResult
  <2>1. /\ Len(Flow') = Len(Flow) - 1 /\ msg_queue' = msg_queue
        /\ \A i \in 1 .. Len(Flow) - 1 : Flow'[i] = Flow[i + 1]
    BY <1>2, TakeFlow, TakeKeeps
  <2>2. ASSUME NEW i \in 1 .. Len(msg_queue), Kind(msg_queue[i]) = "query", NEW k, k = msg_queue[i][1]
        PROVE  /\ QueryPut(k)' /\ ~ Replied(k)'
               /\ \A j \in 1 .. Len(Flow') : Flow'[j].of[1] # k
    <3>1. k \in Conns
      BY <1>0, <2>2, ElementOfSeq, RequestFields
    <3>2. QueryPut(k) /\ ~ Replied(k) /\ \A j \in 1 .. Len(Flow) : Flow[j].of[1] # k
      BY <1>0, <2>2 DEF Queued
    <3>3. \A j \in 1 .. Len(Flow') : Flow'[j].of[1] # k
      <4> SUFFICES ASSUME NEW j \in 1 .. Len(Flow') PROVE Flow'[j].of[1] # k
        OBVIOUS
      <4>1. j + 1 \in 1 .. Len(Flow) /\ Flow'[j] = Flow[j + 1]
        BY <1>0, <2>1
      <4> QED
        BY <3>2, <4>1
    <3> QED
      BY <2>2, <3>1, <3>2, <3>3, StillWaits
  <2> QED
    BY <1>0, <2>1, <2>2 DEF Queued
<1>3. CASE PutQuery \/ PutAppend
  <2> DEFINE q == msg_queue
             n == Len(q)
  <2>1. request \in Requests /\ request[1] \in Conns /\ msg_queue' = Append(q, request)
    BY <1>3, RequestFields DEF PutQuery, PutAppend, LInv, TypeOK, Descriptors
  <2>2. /\ Len(msg_queue') = n + 1 /\ \A i \in 1 .. n : msg_queue'[i] = q[i]
        /\ msg_queue'[n + 1] = request
    BY <1>0, <2>1, AppendProperties
  <2>3. ~ TakeResult /\ ~ Reads
    BY <1>3 DEF PutQuery, PutAppend, TakeResult, Reads, ReadRequest, clientVars, socketVars, mapVars, loopVars, queueVars, processorVars
  <2>4. Flow' = Flow
    BY <2>3, FlowSame
  <2>5. ASSUME Kind(request) = "query", NEW k, k = request[1]
        PROVE  /\ request = Query(k) /\ QueryPut(k)' /\ ~ Replied(k)'
               /\ \A j \in 1 .. Len(Flow) : Flow[j].of[1] # k
               /\ \A i \in 1 .. n : Kind(q[i]) = "query" => q[i][1] # k
    <3>1. PutQuery /\ k \in Conns /\ Puts(k)
      BY <1>3, <2>1, <2>5 DEF PutAppend, Puts
    <3>2. request = Query(k) /\ QueryPut(k)' /\ ~ QueryPut(k)
      BY <2>5, <3>1, PutGrows
    <3>3. ~ \E fd \in Fds : socket[fd] = k /\ WriteAnswer(fd)
      BY <3>1 DEF PutQuery, WriteAnswer
    <3>4. ~ Replied(k)'
      BY <3>1, <3>2, <3>3, RepliedStep, ReplyCounts
    <3>5. \A j \in 1 .. Len(Flow) : Flow[j].of[1] # k
      BY <3>2, FlowBlock
    <3>6. \A i \in 1 .. n : Kind(q[i]) = "query" => q[i][1] # k
      BY <1>0, <3>2 DEF Queued
    <3> QED
      BY <3>2, <3>4, <3>5, <3>6
  <2> HIDE DEF n, q
  <2>6. ASSUME NEW i \in 1 .. n, Kind(q[i]) = "query", NEW k, k = q[i][1]
        PROVE  /\ q[i] = Query(k) /\ QueryPut(k)' /\ ~ Replied(k)'
               /\ \A j \in 1 .. Len(Flow) : Flow[j].of[1] # k
    <3>1. k \in Conns
      BY <1>0, <2>6, ElementOfSeq, RequestFields DEF n, q
    <3>2. q[i] = Query(k) /\ QueryPut(k) /\ ~ Replied(k) /\ \A j \in 1 .. Len(Flow) : Flow[j].of[1] # k
      BY <1>0, <2>6 DEF Queued, n, q
    <3> QED
      BY <2>6, <3>1, <3>2, StillWaits DEF n, q
  <2>7. ASSUME NEW i \in 1 .. n + 1, NEW j \in 1 .. n + 1, i # j, Kind(msg_queue'[i]) = "query"
        PROVE  msg_queue'[i] # msg_queue'[j]
    <3>0. n \in Nat
      BY <1>0 DEF n, q
    <3>1. CASE i \in 1 .. n /\ j \in 1 .. n
      BY <1>0, <2>2, <2>7, <3>1 DEF Queued, n, q
    <3>2. CASE i = n + 1 /\ j \in 1 .. n
      BY <2>2, <2>5, <2>7, <3>2
    <3>3. CASE i \in 1 .. n /\ j = n + 1
      BY <2>2, <2>5, <2>7, <3>3
    <3> QED
      BY <2>7, <3>0, <3>1, <3>2, <3>3
  <2>8. ASSUME NEW i \in 1 .. n + 1, Kind(msg_queue'[i]) = "query", NEW k, k = msg_queue'[i][1]
        PROVE  /\ msg_queue'[i] = Query(k) /\ QueryPut(k)' /\ ~ Replied(k)'
               /\ \A j \in 1 .. Len(Flow) : Flow[j].of[1] # k
    <3>0. n \in Nat
      BY <1>0 DEF n, q
    <3>1. CASE i \in 1 .. n
      BY <2>2, <2>6, <2>8, <3>1
    <3>2. CASE i = n + 1
      BY <2>2, <2>5, <2>8, <3>2
    <3> QED
      BY <3>0, <3>1, <3>2
  <2> QED
    BY <2>2, <2>4, <2>7, <2>8 DEF Queued
<1>4. CASE ReadRequest
  <2>1. /\ msg_queue # <<>> /\ Len(msg_queue') = Len(msg_queue) - 1
        /\ \A i \in 1 .. Len(msg_queue) - 1 : msg_queue'[i] = msg_queue[i + 1]
        /\ Len(msg_queue) > 0
    BY <1>4, MsgHead DEF ReadRequest
  <2>2. ASSUME NEW i \in 1 .. Len(msg_queue'), Kind(msg_queue'[i]) = "query", NEW k, k = msg_queue'[i][1]
        PROVE  /\ msg_queue'[i] = Query(k) /\ QueryPut(k)' /\ ~ Replied(k)'
               /\ \A j \in 1 .. Len(Flow') : Flow'[j].of[1] # k
    <3>1. /\ i + 1 \in 1 .. Len(msg_queue) /\ msg_queue'[i] = msg_queue[i + 1] /\ i + 1 # 1
          /\ 1 \in 1 .. Len(msg_queue)
      BY <1>0, <2>1
    <3>2. k \in Conns
      BY <1>0, <2>2, <3>1, ElementOfSeq, RequestFields
    <3>3. /\ msg_queue'[i] = Query(k) /\ QueryPut(k) /\ ~ Replied(k)
          /\ \A j \in 1 .. Len(Flow) : Flow[j].of[1] # k
      BY <1>0, <2>2, <3>1 DEF Queued
    <3>4. QueryPut(k)' /\ ~ Replied(k)'
      BY <2>2, <3>1, <3>2, <3>3, StillWaits
    <3>5. CASE ~ Reads
      <4>1. Flow' = Flow
        BY <1>4, <3>5, FlowSame DEF ReadRequest, TakeResult, clientVars, socketVars, mapVars, loopVars, queueVars, processorVars
      <4> QED
        BY <3>3, <3>4, <4>1
    <3>6. CASE Reads
      <4>1. PICK l \in Conns :
               /\ l = Head(msg_queue)[1] /\ Head(msg_queue) = Query(l)
               /\ ResultBlocks(l) \in Nat /\ ResultBlocks(l) > 0
               /\ Len(Flow') = Len(Flow) + ResultBlocks(l) + 1
               /\ \A j \in 1 .. Len(Flow) : Flow'[j] = Flow[j]
               /\ \A p \in 1 .. ResultBlocks(l) + 1 : Flow'[Len(Flow) + p] = Nth(l, p)
        BY <3>6, ReadFlow DEF Reads
      <4>2. l # k
        BY <1>0, <2>1, <2>2, <3>1, <3>3, <4>1, MsgHead DEF Queued
      <4>3. ASSUME NEW j \in 1 .. Len(Flow') PROVE Flow'[j].of[1] # k
        <5>1. CASE j \in 1 .. Len(Flow)
          BY <3>3, <4>1, <5>1
        <5>2. CASE j \notin 1 .. Len(Flow)
          <6> DEFINE p == j - Len(Flow)
          <6>1. p \in 1 .. ResultBlocks(l) + 1 /\ Len(Flow) + p = j
            BY <1>0, <4>1, <5>2
          <6> HIDE DEF p
          <6>2. Flow'[j] = Nth(l, p)
            BY <4>1, <6>1
          <6> QED
            BY <4>2, <6>1, <6>2, NthFields
        <5> QED
          BY <5>1, <5>2
      <4> QED
        BY <3>3, <3>4, <4>3
    <3> QED
      BY <3>5, <3>6
  <2>3. ASSUME NEW i \in 1 .. Len(msg_queue'), NEW j \in 1 .. Len(msg_queue'), i # j,
               Kind(msg_queue'[i]) = "query"
        PROVE  msg_queue'[i] # msg_queue'[j]
    <3>1. /\ i + 1 \in 1 .. Len(msg_queue) /\ msg_queue'[i] = msg_queue[i + 1]
          /\ j + 1 \in 1 .. Len(msg_queue) /\ msg_queue'[j] = msg_queue[j + 1] /\ i + 1 # j + 1
      BY <1>0, <2>1, <2>3
    <3> QED
      BY <1>0, <2>3, <3>1 DEF Queued
  <2> QED
    BY <2>2, <2>3 DEF Queued
<1>5. CASE msg_queue' = msg_queue /\ ~ TakeResult /\ ~ Reads
  BY <1>1, <1>5, FlowSame
<1> QED
  BY <1>2, <1>3, <1>4, <1>5
     DEF Step, AcceptFails, Connect, Send, Close, AcceptOn, WriteAck, WriteNothing, WriteAnswer, EndResults, EndAccept,
         BeginRead, Receive, RecvNothing, RecvClosed, EndServe, WriteBlock, vars, Reads, clientVars, socketVars, mapVars, loopVars, queueVars, processorVars

(* The answer to the next query, behind the others'. *)
LEMMA ReadsFirst ==
  ASSUME LInv, Reads
  PROVE  /\ Len(Flow) > 0 => Len(Flow') > 0 /\ Flow'[1] = Flow[1]
         /\ Len(Flow) = 0 => /\ Flow'[1].n = 1 /\ Place(Flow'[1]) = 1
                             /\ Flow'[1].of[1] = Head(msg_queue)[1]
<1> DEFINE k == Head(msg_queue)[1]
<1>1. /\ k \in Conns /\ ResultBlocks(k) \in Nat /\ ResultBlocks(k) > 0
      /\ Len(Flow') = Len(Flow) + ResultBlocks(k) + 1
      /\ \A i \in 1 .. Len(Flow) : Flow'[i] = Flow[i]
      /\ \A p \in 1 .. ResultBlocks(k) + 1 : Flow'[Len(Flow) + p] = Nth(k, p)
  BY ReadFlow DEF Reads
<1>2. Len(Flow) \in Nat
  BY FlowTypes
<1> HIDE DEF k
<1>3. Len(Flow) > 0 => Len(Flow') > 0 /\ Flow'[1] = Flow[1]
  BY <1>1, <1>2
<1>4. ASSUME Len(Flow) = 0
      PROVE  Flow'[1].n = 1 /\ Place(Flow'[1]) = 1 /\ Flow'[1].of[1] = k
  <2>1. 1 \in 1 .. ResultBlocks(k) + 1 /\ Len(Flow) + 1 = 1 /\ 1 # ResultBlocks(k) + 1
    BY <1>1, <1>4
  <2>2. Flow'[1] = Nth(k, 1)
    BY <1>1, <2>1
  <2> QED
    BY <1>1, <2>1, <2>2, NthFields
<1> QED
  BY <1>3, <1>4 DEF k

(* and the other answers stay where they are. *)
LEMMA ReadsOthers ==
  ASSUME LInv, Reads, NEW k \in Conns, ~ Begins(k), NEW i \in 1 .. Len(Flow'), Flow'[i].of[1] = k
  PROVE  i \in 1 .. Len(Flow) /\ Flow'[i] = Flow[i]
<1>1. PICK l \in Conns :
         /\ l = Head(msg_queue)[1] /\ ResultBlocks(l) \in Nat
         /\ Len(Flow') = Len(Flow) + ResultBlocks(l) + 1
         /\ \A j \in 1 .. Len(Flow) : Flow'[j] = Flow[j]
         /\ \A p \in 1 .. ResultBlocks(l) + 1 : Flow'[Len(Flow) + p] = Nth(l, p)
  BY ReadFlow DEF Reads
<1>2. l # k
  BY <1>1, MsgHead DEF Begins, Reads, ReadRequest
<1>3. Len(Flow) \in Nat
  BY FlowTypes
<1>4. ASSUME i \notin 1 .. Len(Flow) PROVE FALSE
  <2> DEFINE p == i - Len(Flow)
  <2>1. p \in 1 .. ResultBlocks(l) + 1 /\ Len(Flow) + p = i
    BY <1>1, <1>3, <1>4
  <2> HIDE DEF p
  <2>2. Flow'[i] = Nth(l, p)
    BY <1>1, <2>1
  <2> QED
    BY <1>2, <2>1, <2>2, NthFields
<1> QED
  BY <1>1, <1>4

-----------------------------------------------------------------------------
(* The queries in msg_queue were there before, or the last has been put.   *)
LEMMA QueriesStep ==
  ASSUME LInv, Step, NEW i \in 1 .. Len(msg_queue'), Kind(msg_queue'[i]) = "query"
  PROVE  \/ \E j \in 1 .. Len(msg_queue) : msg_queue'[i] = msg_queue[j]
         \/ PutQuery /\ msg_queue'[i] = request
<1>0. Len(msg_queue) \in Nat /\ msg_queue \in Seq(Requests)
  BY LenProperties DEF LInv, TypeOK
<1>1. CASE msg_queue' = msg_queue
  BY <1>1
<1>2. CASE ReadRequest
  <2>1. /\ Len(msg_queue') = Len(msg_queue) - 1
        /\ \A m \in 1 .. Len(msg_queue) - 1 : msg_queue'[m] = msg_queue[m + 1]
    BY <1>2, MsgHead DEF ReadRequest
  <2>2. i + 1 \in 1 .. Len(msg_queue) /\ msg_queue'[i] = msg_queue[i + 1]
    BY <1>0, <2>1
  <2> QED
    BY <2>2
<1>3. CASE PutQuery \/ PutAppend
  <2>1. request \in Requests /\ msg_queue' = Append(msg_queue, request)
    BY <1>3 DEF PutQuery, PutAppend, LInv, TypeOK, Descriptors
  <2>2. /\ Len(msg_queue') = Len(msg_queue) + 1
        /\ \A m \in 1 .. Len(msg_queue) : msg_queue'[m] = msg_queue[m]
        /\ msg_queue'[Len(msg_queue) + 1] = request
    BY <1>0, <2>1, AppendProperties
  <2>3. CASE i \in 1 .. Len(msg_queue)
    BY <2>2, <2>3
  <2>4. CASE i = Len(msg_queue) + 1
    BY <1>3, <2>2, <2>4 DEF PutAppend
  <2> QED
    BY <1>0, <2>2, <2>3, <2>4
<1> QED
  BY <1>1, <1>2, <1>3
     DEF Step, AcceptFails, Connect, Send, Close, AcceptOn, WriteAck, WriteNothing, WriteAnswer, TakeResult, EndResults,
         EndAccept, BeginRead, Receive, RecvNothing, RecvClosed, EndServe, WriteBlock, vars, clientVars, socketVars, mapVars, loopVars, queueVars, processorVars

(* An answer that has begun does not begin again. *)
LEMMA BeginsStep ==
  ASSUME LInv, Step, NEW k \in Conns, QueryPut(k), ~ Begins(k)
  PROVE  ~ Begins(k)'
<1>0. /\ \A i \in 1 .. Len(msg_queue) : ~ (Kind(msg_queue[i]) = "query" /\ msg_queue[i][1] = k)
      /\ \A i \in 1 .. Len(Flow) : ~ (Flow[i].of[1] = k /\ Flow[i].n = 1)
      /\ Len(Flow) \in Nat
  BY FlowTypes DEF Begins
<1>1. \A i \in 1 .. Len(msg_queue') : ~ (Kind(msg_queue'[i]) = "query" /\ msg_queue'[i][1] = k)
  <2> SUFFICES ASSUME NEW i \in 1 .. Len(msg_queue'),
                      Kind(msg_queue'[i]) = "query", msg_queue'[i][1] = k
               PROVE  FALSE
    OBVIOUS
  <2>1. PutQuery /\ request[1] = k
    BY <1>0, QueriesStep
  <2> QED
    BY <2>1, PutGrows DEF Puts
<1>2. \A i \in 1 .. Len(Flow') : ~ (Flow'[i].of[1] = k /\ Flow'[i].n = 1)
  <2>1. CASE ~ TakeResult /\ ~ Reads
    BY <1>0, <2>1, FlowSame
  <2>2. CASE TakeResult
    <3>1. Len(Flow') = Len(Flow) - 1 /\ \A i \in 1 .. Len(Flow) - 1 : Flow'[i] = Flow[i + 1]
      BY <2>2, TakeFlow
    <3>2. ASSUME NEW i \in 1 .. Len(Flow') PROVE i + 1 \in 1 .. Len(Flow) /\ Flow'[i] = Flow[i + 1]
      BY <1>0, <3>1
    <3> QED
      BY <1>0, <3>2
  <2>3. CASE Reads
    BY <1>0, <2>3, ReadsOthers
  <2> QED
    BY <2>1, <2>2, <2>3
<1> QED
  BY <1>1, <1>2 DEF Begins

(* Which answers are to come: those that were, and that of the query put.  *)
LEMMA ToComeStep ==
  ASSUME LInv, Step, NEW k \in Conns, ToCome(k)'
  PROVE  ToCome(k) \/ (PutQuery /\ request[1] = k)
<1> SUFFICES ASSUME ~ ToCome(k) PROVE PutQuery /\ request[1] = k
  OBVIOUS
<1>0. /\ \A i \in 1 .. Len(msg_queue) : ~ (Kind(msg_queue[i]) = "query" /\ msg_queue[i][1] = k)
      /\ \A i \in 1 .. Len(Flow) : Flow[i].of[1] # k
      /\ Len(Flow) \in Nat /\ ~ Begins(k)
  BY FlowTypes DEF ToCome, Begins
<1>1. \A i \in 1 .. Len(Flow') : Flow'[i].of[1] # k
  <2>1. CASE ~ TakeResult /\ ~ Reads
    BY <1>0, <2>1, FlowSame
  <2>2. CASE TakeResult
    <3>1. Len(Flow') = Len(Flow) - 1 /\ \A i \in 1 .. Len(Flow) - 1 : Flow'[i] = Flow[i + 1]
      BY <2>2, TakeFlow
    <3>2. ASSUME NEW i \in 1 .. Len(Flow') PROVE i + 1 \in 1 .. Len(Flow) /\ Flow'[i] = Flow[i + 1]
      BY <1>0, <3>1
    <3> QED
      BY <1>0, <3>2
  <2>3. CASE Reads
    BY <1>0, <2>3, ReadsOthers
  <2> QED
    BY <2>1, <2>2, <2>3
<1>2. PICK i \in 1 .. Len(msg_queue') : Kind(msg_queue'[i]) = "query" /\ msg_queue'[i][1] = k
  BY <1>1 DEF ToCome
<1> QED
  BY <1>0, <1>2, QueriesStep

(* Every step leaves each answer to come a way to its client, or to none.  *)
LEMMA AddressedStep ==
  ASSUME LInv, Step, Orderly'
  PROVE  Addressed'
<1> DEFINE fd(k) == client_id_fd_map[ClientId(k)]
<1> SUFFICES ASSUME NEW k \in Conns, ToCome(k)' PROVE LeadsTo(k)'
  BY DEF Addressed
<1>0. /\ ToCome(k) \/ (PutQuery /\ request[1] = k)
      /\ ToCome(k) => LeadsTo(k)
      /\ ClientId(k) \in Ids /\ fd(k) \in Fds \cup {NoFd}
  BY ToComeStep, FdTypes DEF LInv, Addressed, TypeOK
<1>1. fd(k) # NoFd => Open(fd(k)) /\ fd_client_id_map[fd(k)] = ClientId(k)
  BY <1>0, FdTypes DEF LInv, MapsSound
<1> HIDE DEF fd
<1>2. CASE UNCHANGED <<socket, client_id_fd_map>> /\ ~ PutQuery
  BY <1>0, <1>2 DEF LeadsTo
<1>3. ASSUME NEW f \in Fds, AcceptOn(f) PROVE LeadsTo(k)'
  <2>1. /\ client_id_fd_map' = client_id_fd_map /\ ~ Open(f) /\ LeadsTo(k)
        /\ \A other \in Fds \ {f} : socket'[other] = socket[other]
    BY <1>0, <1>3 DEF AcceptOn, PutQuery, LInv, TypeOK
  <2> QED
    BY <1>0, <1>1, <2>1 DEF LeadsTo, fd
<1>4. ASSUME NEW f \in Fds, Forget(f), LeadsTo(k), \A other \in Fds \ {f} : socket'[other] = socket[other]
      PROVE  LeadsTo(k)'
  <2>1. client_id_fd_map'[ClientId(k)] =
          IF ClientId(k) = fd_client_id_map[f] THEN NoFd ELSE client_id_fd_map[ClientId(k)]
    BY <1>0, <1>4, ForgetMeans
  <2> QED
    BY <1>0, <1>1, <1>4, <2>1 DEF LeadsTo, fd
<1>5. CASE RecvClosed
  <2>1. sockfd \in Fds /\ Forget(sockfd) /\ socket' = [socket EXCEPT ![sockfd] = NoConn] /\ ~ PutQuery
    BY <1>5, ClosedMeans DEF RecvClosed, Release, PutQuery
  <2> QED
    BY <1>0, <1>4, <2>1 DEF LInv, TypeOK
<1>6. ASSUME NEW f \in Fds, WriteAnswer(f) PROVE LeadsTo(k)'
  BY <1>0, <1>4, <1>6 DEF WriteAnswer, PutQuery
<1>7. CASE PutQuery
  <2>1. PICK l \in Conns : l = request[1]
    BY <1>7, AtSocket DEF PutQuery, LInv, Descriptors
  <2>2. /\ ~ InUse(ClientId(l), sockfd) /\ sockfd \in Fds /\ socket[sockfd] = l
        /\ client_id_fd_map' = [client_id_fd_map EXCEPT ![ClientId(l)] = sockfd]
        /\ socket' = socket /\ ClientId(l) \in Ids
    BY <1>7, <2>1, InsertMeans DEF PutQuery, socketVars
  <2>3. CASE k = l
    BY <2>2, <2>3 DEF LeadsTo, LInv, TypeOK
  <2>4. CASE k # l /\ ClientId(k) # ClientId(l)
    BY <1>0, <2>1, <2>2, <2>4 DEF LeadsTo, LInv, TypeOK
  <2>5. CASE k # l /\ ClientId(k) = ClientId(l)
    <3>1. ToCome(k)
      BY <1>0, <2>1, <2>5
    <3>2. ASSUME NEW i \in 1 .. Len(msg_queue), Kind(msg_queue[i]) = "query", msg_queue[i][1] = k
          PROVE  FALSE
      <4>1. msg_queue[i] \in ToSet(msg_queue)
        BY DEF ToSet, LInv, TypeOK
      <4> QED
        BY <2>1, <2>2, <2>5, <3>2, <4>1 DEF InUse
    <3>3. ASSUME NEW i \in 1 .. Len(Flow), Flow[i].of[1] = k PROVE FALSE
      <4>1. Flow[i] \in ToSet(result_queue) \cup ToSet(blocks)
        <5>1. /\ result_queue \in Seq(BlockSet) /\ blocks \in Seq(BlockSet)
              /\ Len(result_queue) \in Nat /\ Len(blocks) \in Nat
              /\ Len(Flow) = Len(result_queue) + Len(blocks)
              /\ Flow[i] = IF i <= Len(result_queue) THEN result_queue[i]
                                                   ELSE blocks[i - Len(result_queue)]
          BY FlowTypes
        <5>2. CASE i <= Len(result_queue)
          BY <5>1, <5>2 DEF ToSet
        <5>3. CASE ~ i <= Len(result_queue)
          <6>1. i - Len(result_queue) \in 1 .. Len(blocks)
            BY <5>1, <5>3
          <6> QED
            BY <5>1, <5>3, <6>1 DEF ToSet
        <5> QED
          BY <5>2, <5>3
      <4>2. Flow[i] \in BlockSet
        BY FlowTypes, ElementOfSeq
      <4>3. Flow[i].client_id_ = ClientId(k)
        BY <3>3, <4>2, BlockSetFields
      <4> QED
        BY <2>1, <2>2, <2>5, <3>3, <4>1, <4>3 DEF InUse
    <3> QED
      BY <3>1, <3>2, <3>3 DEF ToCome
  <2> QED
    BY <2>3, <2>4, <2>5
<1> QED
  BY <1>2, <1>3, <1>5, <1>6, <1>7
     DEF Step, AcceptFails, Connect, Send, Close, WriteAck, WriteNothing, TakeResult, EndResults, EndAccept,
         BeginRead, Receive, RecvNothing, PutQuery, PutAppend, EndServe, ReadRequest,
         WriteBlock, vars, clientVars, socketVars, mapVars, loopVars, queueVars, processorVars

(* What is kept of an answer stays right when its descriptor is left alone. *)
LEMMA StillKept ==
  ASSUME LInv, Step, ~ TakeResult, NEW fd \in Fds, NEW k, socket[fd] = k, socket'[fd] = k,
         fd_result_map'[fd] = fd_result_map[fd], ~ WriteAnswer(fd),
         fd_client_id_map'[fd] = fd_client_id_map[fd] \/ (k \in Conns /\ ~ QueryPut(k)),
         fd \in fd_list' => fd \in fd_list,
         mode'[fd] = "write" /\ fd \notin fd_ack_set' =>
             \/ mode[fd] = "write" /\ fd \notin fd_ack_set
             \/ fd \in fd_list
  PROVE  KeptAt(fd, k)'
<1>0. KeptAt(fd, k) /\ Len(Flow) \in Nat /\ Taken(fd) \in Nat
  BY FlowTypes, TakenMeans DEF LInv, Kept
<1>1. Taken(fd)' = Taken(fd)
  BY DEF Taken
<1>2. \A i \in 1 .. Taken(fd) : fd_result_map'[fd][i] = Nth(k, i)
  BY <1>0 DEF KeptAt
<1>3. /\ Len(Flow) > 0 => Len(Flow') > 0 /\ Flow'[1] = Flow[1]
      /\ Len(Flow') > 0 =>
            \/ Len(Flow) > 0 /\ Flow'[1] = Flow[1]
            \/ /\ Len(Flow) = 0 /\ Reads /\ Flow'[1].n = 1 /\ Place(Flow'[1]) = 1
               /\ Flow'[1].of[1] = Head(msg_queue)[1]
  <2>1. CASE ~ Reads
    BY <1>0, <2>1, FlowSame
  <2>2. CASE Reads
    BY <1>0, <2>2, ReadsFirst
  <2> QED
    BY <2>1, <2>2
<1>4. ASSUME Taken(fd) > 0
      PROVE  /\ QueryPut(k)' /\ ~ Replied(k)' /\ ~ Begins(k)'
             /\ Taken(fd) <= ResultBlocks(k) + 1
             /\ IF Taken(fd) = ResultBlocks(k) + 1
                  THEN \A i \in 1 .. Len(Flow') : Flow'[i].of[1] # k
                  ELSE Len(Flow') > 0 /\ Flow'[1].of[1] = k
  <2>1. k \in Conns /\ QueryPut(k) /\ ~ Replied(k) /\ ~ Begins(k) /\ Open(fd)
    BY <1>0, <1>4, TakenMeans DEF KeptAt
  <2>2. QueryPut(k)' /\ ~ Begins(k)'
    BY <2>1, PutGrows, BeginsStep
  <2>3. ~ Replied(k)'
    <3>1. ASSUME NEW other \in Fds, socket[other] = k, WriteAnswer(other) PROVE FALSE
      BY <2>1, <3>1 DEF LInv, Links
    <3> QED
      BY <2>1, <3>1, RepliedStep
  <2>4. CASE Taken(fd) = ResultBlocks(k) + 1
    <3>1. \A i \in 1 .. Len(Flow) : Flow[i].of[1] # k
      BY <1>0, <1>4, <2>4 DEF KeptAt
    <3>2. \A i \in 1 .. Len(Flow') : Flow'[i].of[1] # k
      <4>1. CASE ~ Reads
        BY <3>1, <4>1, FlowSame
      <4>2. CASE Reads
        BY <2>1, <3>1, <4>2, ReadsOthers
      <4> QED
        BY <4>1, <4>2
    <3> QED
      BY <1>0, <1>4, <2>2, <2>3, <2>4, <3>2 DEF KeptAt
  <2>5. CASE Taken(fd) # ResultBlocks(k) + 1
    <3>1. Len(Flow) > 0 /\ Flow[1].of[1] = k /\ Taken(fd) <= ResultBlocks(k) + 1
      BY <1>0, <1>4, <2>5 DEF KeptAt
    <3> QED
      BY <1>3, <2>2, <2>3, <2>5, <3>1
  <2> QED
    BY <2>4, <2>5
<1>5. ASSUME Len(Flow') > 0, Flow'[1].of[1] = k, fd_client_id_map'[fd] # NoId
      PROVE  Taken(fd) = Place(Flow'[1]) - 1
  <2>1. CASE Len(Flow) > 0 /\ Flow'[1] = Flow[1]
    <3>1. 1 \in 1 .. Len(Flow)
      BY <1>0, <2>1
    <3>2. QueryPut(k)
      BY <1>5, <2>1, <3>1, FlowBlock
    <3> QED
      BY <1>0, <1>5, <2>1, <3>2 DEF KeptAt
  <2>2. CASE /\ Len(Flow) = 0 /\ Reads /\ Flow'[1].n = 1 /\ Place(Flow'[1]) = 1
             /\ Flow'[1].of[1] = Head(msg_queue)[1]
    <3>1. Begins(k)
      BY <1>5, <2>2, MsgHead DEF Begins, Reads, ReadRequest
    <3>2. Taken(fd) = 0
      BY <1>0, <3>1 DEF KeptAt
    <3> QED
      BY <2>2, <3>2
  <2> QED
    BY <1>3, <1>5, <2>1, <2>2
<1>6. fd \in fd_list' => Taken(fd) = ResultBlocks(k) + 1
  BY <1>0 DEF KeptAt
<1>7. ASSUME Open(fd)', mode'[fd] = "write", fd \notin fd_ack_set'
      PROVE  Replied(k)' \/ Taken(fd) = ResultBlocks(k) + 1
  <2>1. Open(fd) /\ k \in Conns
    BY <1>7 DEF Open, LInv, TypeOK
  <2>2. Replied(k) \/ Taken(fd) = ResultBlocks(k) + 1
    BY <1>0, <1>7, <2>1 DEF KeptAt
  <2> QED
    BY <2>1, <2>2, RepliedStep
<1> QED
  BY <1>1, <1>2, <1>4, <1>5, <1>6, <1>7 DEF KeptAt

(* A connection for which nothing is kept. *)
LEMMA NothingKept ==
  ASSUME NEW fd \in Fds, NEW k, fd_result_map'[fd] = <<>>, fd_client_id_map'[fd] = NoId,
         fd \notin fd_list',
         Open(fd)' /\ mode'[fd] = "write" /\ fd \notin fd_ack_set' => Replied(k)'
  PROVE  KeptAt(fd, k)'
<1>1. Taken(fd)' = 0
  BY EmptySeq DEF Taken
<1> QED
  BY <1>1 DEF KeptAt

(* The block that is taken is the next of its answer, for the descriptor   *)
(* that has what came before.                                              *)
LEMMA TakenFirst ==
  ASSUME LInv, TakeResult, Step, NEW k \in Conns, k = Block1.of[1]
  PROVE  /\ QueryPut(k) /\ ~ Replied(k) /\ QueryPut(k)' /\ ~ Replied(k)' /\ ~ Begins(k)'
         /\ ResultBlocks(k) \in Nat /\ ResultBlocks(k) > 0
         /\ Place(Block1) \in 1 .. ResultBlocks(k) + 1 /\ Block1 = Nth(k, Place(Block1))
         /\ (Block1.n = 0 <=> Place(Block1) = ResultBlocks(k) + 1)
         /\ IF Block1.n = 0 THEN \A i \in 1 .. Len(Flow') : Flow'[i].of[1] # k
            ELSE /\ Len(Flow') > 0 /\ Flow'[1].of[1] = k
                 /\ Place(Flow'[1]) = Place(Block1) + 1
         /\ Block1.n = 0 /\ Len(Flow') > 0 => Flow'[1].n = 1 /\ Place(Flow'[1]) = 1
<1>1. /\ Len(Flow) > 0 /\ Flow[1] = Block1 /\ Len(Flow') = Len(Flow) - 1 /\ Len(Flow) \in Nat
      /\ \A i \in 1 .. Len(Flow) - 1 : Flow'[i] = Flow[i + 1]
      /\ 1 \in 1 .. Len(Flow)
  <2>1. /\ Len(Flow) > 0 /\ Flow[1] = Block1 /\ Len(Flow') = Len(Flow) - 1 /\ Len(Flow) \in Nat
        /\ \A i \in 1 .. Len(Flow) - 1 : Flow'[i] = Flow[i + 1]
    BY TakeFlow, FlowTypes
  <2> QED
    BY <2>1
<1>2. /\ QueryPut(k) /\ ~ Replied(k) /\ ResultBlocks(k) \in Nat /\ ResultBlocks(k) > 0
      /\ Place(Block1) \in 1 .. ResultBlocks(k) + 1 /\ Block1 = Nth(k, Place(Block1))
      /\ (Block1.n = 0 <=> Place(Block1) = ResultBlocks(k) + 1)
  BY <1>1, FlowBlock
<1>3. QueryPut(k)' /\ ~ Replied(k)'
  BY <1>1, <1>2, StillWaits
<1>4. ASSUME NEW i \in 1 .. Len(Flow'), Flow'[i].of[1] = k
      PROVE  Place(Block1) < Place(Flow'[i]) /\ Place(Flow'[i]) \in 1 .. ResultBlocks(k) + 1
             /\ (Flow'[i].n = 1 <=> Place(Flow'[i]) = 1)
  <2>1. i + 1 \in 1 .. Len(Flow) /\ Flow'[i] = Flow[i + 1] /\ 1 < i + 1
    BY <1>1
  <2> DEFINE j == i + 1
  <2>2. Place(Flow[j]) \in 1 .. ResultBlocks(k) + 1 /\ (Flow[j].n = 1 <=> Place(Flow[j]) = 1)
    BY <1>4, <2>1, FlowBlock
  <2>3. Place(Flow[1]) < Place(Flow[j])
    BY <1>1, <1>4, <2>1 DEF LInv, Flowing
  <2> QED
    BY <1>1, <2>1, <2>2, <2>3
<1>5. ~ Begins(k)'
  <2>1. \A i \in 1 .. Len(msg_queue) : ~ (Kind(msg_queue[i]) = "query" /\ msg_queue[i][1] = k)
    BY <1>1 DEF LInv, Queued
  <2>2. \A i \in 1 .. Len(Flow') : ~ (Flow'[i].of[1] = k /\ Flow'[i].n = 1)
    BY <1>2, <1>4
  <2> QED
    BY <2>1, <2>2, TakeKeeps DEF Begins
<1>6. CASE Block1.n = 0
  <2>1. \A i \in 1 .. Len(Flow') : Flow'[i].of[1] # k
    BY <1>2, <1>4, <1>6
  <2>2. ASSUME Len(Flow') > 0 PROVE Flow'[1].n = 1 /\ Place(Flow'[1]) = 1
    <3>1. 1 \in 1 .. Len(Flow) - 1 /\ 1 + 1 \in 1 .. Len(Flow) /\ Flow'[1] = Flow[1 + 1]
      BY <1>1, <2>2
    <3>2. Flow[1 + 1].n = 1
      BY <1>1, <1>6, <3>1 DEF LInv, Flowing
    <3> QED
      BY <3>1, <3>2, FlowBlock
  <2> QED
    BY <1>2, <1>3, <1>5, <1>6, <2>1, <2>2
<1>7. CASE Block1.n # 0
  <2>1. Len(Flow) # 1
    BY <1>1, <1>7 DEF LInv, Flowing
  <2>2. 1 \in 1 .. Len(Flow) - 1 /\ Flow'[1] = Flow[1 + 1] /\ Len(Flow') > 0
    BY <1>1, <2>1
  <2>3. Flow[1 + 1] = Nth(k, Place(Block1) + 1)
    BY <1>1, <1>7, <2>2 DEF LInv, Flowing
  <2>4. Place(Block1) + 1 \in 1 .. ResultBlocks(k) + 1
    BY <1>2, <1>7
  <2>5. Flow'[1].of[1] = k /\ Place(Flow'[1]) = Place(Block1) + 1
    BY <2>2, <2>3, <2>4, NthFields
  <2> QED
    BY <1>2, <1>3, <1>5, <1>7, <2>2, <2>5
<1> QED
  BY <1>6, <1>7

(* Taking a block keeps what is kept right. *)
LEMMA TakeKept ==
  ASSUME LInv, TakeResult, Step
  PROVE  Kept'
<1>1. PICK k \in Conns : k = Block1.of[1]
  BY TakeMeans, BlockSetFields
<1> DEFINE R == ResultBlocks(k)
           p == Place(Block1)
<1>2. /\ QueryPut(k)' /\ ~ Replied(k)' /\ ~ Begins(k)' /\ R \in Nat /\ R > 0 /\ ~ Replied(k)
      /\ p \in 1 .. R + 1 /\ Block1 = Nth(k, p) /\ (Block1.n = 0 <=> p = R + 1)
      /\ IF Block1.n = 0 THEN \A i \in 1 .. Len(Flow') : Flow'[i].of[1] # k
         ELSE Len(Flow') > 0 /\ Flow'[1].of[1] = k /\ Place(Flow'[1]) = p + 1
      /\ (Block1.n = 0 /\ Len(Flow') > 0 => Flow'[1].n = 1 /\ Place(Flow'[1]) = 1)
  BY <1>1, TakenFirst
<1>3. /\ Len(Flow) > 0 /\ Flow[1] = Block1 /\ Len(Flow') = Len(Flow) - 1 /\ Len(Flow) \in Nat
      /\ \A i \in 1 .. Len(Flow) - 1 : Flow'[i] = Flow[i + 1]
  BY TakeFlow, FlowTypes
<1>4. /\ spc = "results" /\ fd_result_map \in [Fds -> Seq(BlockSet)]
      /\ UNCHANGED <<socket, mode, fd_client_id_map, fd_ack_set, replies>>
  BY TakeKeeps DEF LInv, TypeOK, TakeResult
<1> HIDE DEF R, p
<1>5. ASSUME NEW fd \in Fds, fd # Fd1 \/ Fd1 = NoFd, NEW l, l = socket[fd]
      PROVE  KeptAt(fd, l)'
  <2>1. fd_result_map'[fd] = fd_result_map[fd] /\ (fd \in fd_list' <=> fd \in fd_list)
    BY <1>4, <1>5, TakeMeans
  <2>2. Taken(fd)' = Taken(fd) /\ Taken(fd) \in Nat /\ KeptAt(fd, l)
    BY <1>5, <2>1, TakenMeans DEF Taken, LInv, Kept
  <2>3. l = k => fd_client_id_map[fd] = NoId
    <3> SUFFICES ASSUME l = k, fd_client_id_map[fd] # NoId PROVE FALSE
      OBVIOUS
    <3>1. Open(fd) /\ fd_client_id_map[fd] = ClientId(k)
      BY <1>5 DEF LInv, MapsSound
    <3>2. ClientId(k) \in Ids /\ Block1.client_id_ = ClientId(k)
      BY <1>1, FdTypes, TakeMeans, BlockSetFields
    <3>3. client_id_fd_map[ClientId(k)] = fd
      BY <3>1, <3>2 DEF LInv, MapsSound
    <3>4. Fd1 = fd
      BY <3>2, <3>3 DEF Fd1
    <3> QED
      BY <1>5, <3>4, FdTypes
  <2>4. l = k => Taken(fd) = 0
    BY <2>2, <2>3, TakenMeans
  <2>5. \A i \in 1 .. Taken(fd) : fd_result_map'[fd][i] = Nth(l, i)
    BY <2>1, <2>2 DEF KeptAt
  <2>6. ASSUME Taken(fd) > 0
        PROVE  /\ QueryPut(l)' /\ ~ Replied(l)' /\ ~ Begins(l)'
               /\ Taken(fd) = ResultBlocks(l) + 1
               /\ \A i \in 1 .. Len(Flow') : Flow'[i].of[1] # l
    <3>1. l \in Conns /\ QueryPut(l) /\ ~ Replied(l) /\ ~ Begins(l) /\ l # k
      BY <1>5, <2>2, <2>4, <2>6, TakenMeans DEF KeptAt
    <3>2. Taken(fd) = ResultBlocks(l) + 1 /\ \A i \in 1 .. Len(Flow) : Flow[i].of[1] # l
      BY <1>1, <1>3, <2>2, <2>6, <3>1 DEF KeptAt
    <3>3. QueryPut(l)' /\ ~ Begins(l)'
      BY <3>1, PutGrows, BeginsStep
    <3>4. ~ Replied(l)'
      BY <1>4, <3>1, RepliesSame
    <3>5. ASSUME NEW i \in 1 .. Len(Flow') PROVE Flow'[i].of[1] # l
      <4>1. i + 1 \in 1 .. Len(Flow) /\ Flow'[i] = Flow[i + 1]
        BY <1>3
      <4> QED
        BY <3>2, <4>1
    <3> QED
      BY <3>2, <3>3, <3>4, <3>5
  <2>7. ASSUME Len(Flow') > 0, Flow'[1].of[1] = l, fd_client_id_map[fd] # NoId
        PROVE  Taken(fd) = Place(Flow'[1]) - 1
    <3>1. l # k /\ Block1.n = 0
      BY <1>2, <2>3, <2>7
    <3>2. Place(Flow'[1]) = 1
      BY <1>2, <2>7, <3>1
    <3>3. ~ Taken(fd) > 0
      <4>1. 1 \in 1 .. Len(Flow')
        BY <1>3, <2>7
      <4> QED
        BY <2>6, <2>7, <4>1
    <3> QED
      BY <2>2, <3>2, <3>3
  <2>8. fd \in fd_list' => Taken(fd) = ResultBlocks(l) + 1
    BY <2>1, <2>2 DEF KeptAt
  <2>9. ASSUME Open(fd)', mode'[fd] = "write", fd \notin fd_ack_set'
        PROVE  Replied(l)' \/ Taken(fd) = ResultBlocks(l) + 1
    <3>1. Open(fd) /\ l \in Conns
      BY <1>4, <1>5, <2>9 DEF Open, LInv, TypeOK
    <3>2. Replied(l) \/ Taken(fd) = ResultBlocks(l) + 1
      BY <1>4, <2>2, <2>9, <3>1 DEF KeptAt
    <3> QED
      BY <1>4, <3>1, <3>2, RepliesSame
  <2>10. /\ \A i \in 1 .. Taken(fd)' : fd_result_map'[fd][i] = Nth(l, i)
         /\ Taken(fd)' > 0 =>
              /\ QueryPut(l)' /\ ~ Replied(l)' /\ ~ Begins(l)'
              /\ Taken(fd)' <= ResultBlocks(l) + 1
              /\ IF Taken(fd)' = ResultBlocks(l) + 1
                   THEN \A i \in 1 .. Len(Flow') : Flow'[i].of[1] # l
                   ELSE Len(Flow') > 0 /\ Flow'[1].of[1] = l
    BY <2>2, <2>5, <2>6
  <2> QED
    BY <1>4, <2>2, <2>7, <2>8, <2>9, <2>10 DEF KeptAt
<1>6. ASSUME NEW fd \in Fds, fd = Fd1
      PROVE  KeptAt(fd, k)' /\ socket[fd] = k
  <2> DEFINE list == fd_result_map[fd]
  <2>1. /\ fd_client_id_map[fd] # NoId /\ Open(fd) /\ socket[fd] = k
        /\ fd_result_map' = [fd_result_map EXCEPT ![fd] = Append(@, Block1)]
        /\ fd_list' = IF Block1.n = 0 THEN fd_list \cup {fd} ELSE fd_list
        /\ Block1 \in BlockSet
    BY <1>1, <1>6, TakeMeans, FdTypes
  <2>2. list \in Seq(BlockSet) /\ Taken(fd) = Len(list) /\ Taken(fd) \in Nat /\ KeptAt(fd, k)
    BY <2>1, TakenMeans DEF LInv, Kept, Taken
  <2>3. Taken(fd) = p - 1
    BY <1>1, <1>3, <2>1, <2>2 DEF KeptAt, p
  <2>4. /\ Len(Append(list, Block1)) = Len(list) + 1
        /\ \A i \in 1 .. Len(list) : Append(list, Block1)[i] = list[i]
        /\ Append(list, Block1)[Len(list) + 1] = Block1
    BY <2>1, <2>2, AppendProperties
  <2>5. fd_result_map'[fd] = Append(list, Block1)
    BY <1>4, <2>1
  <2> HIDE DEF list
  <2>6. Taken(fd)' = p
    <3>1. Taken(fd)' = Len(list) + 1
      BY <2>4, <2>5 DEF Taken
    <3>2. p \in Int /\ Len(list) = p - 1
      BY <1>2, <2>2, <2>3
    <3> QED
      BY ONLY <3>1, <3>2
  <2>7. \A i \in 1 .. p : fd_result_map'[fd][i] = Nth(k, i)
    <3> SUFFICES ASSUME NEW i \in 1 .. p PROVE Append(list, Block1)[i] = Nth(k, i)
      BY <2>5
    <3>1. CASE i = p
      BY <1>2, <2>2, <2>3, <2>4, <3>1
    <3>2. CASE i # p
      <4>1. i \in 1 .. Taken(fd)
        BY <1>2, <2>3, <3>2
      <4>2. list[i] = Nth(k, i)
        BY <2>2, <4>1 DEF KeptAt, list
      <4> QED
        BY <2>2, <2>4, <4>1, <4>2
    <3> QED
      BY <3>1, <3>2
  <2>8. Taken(fd) # R + 1
    BY <1>2, <2>3
  <2>9. /\ fd \in fd_list' => p = R + 1
        /\ ~ (Open(fd)' /\ mode'[fd] = "write" /\ fd \notin fd_ack_set')
    <3>1. fd \notin fd_list
      BY <2>2, <2>8 DEF KeptAt, R
    <3>2. ~ (mode[fd] = "write" /\ fd \notin fd_ack_set)
      BY <1>2, <2>1, <2>2, <2>8 DEF KeptAt, R
    <3> QED
      BY <1>2, <1>4, <2>1, <3>1, <3>2
  <2>10. /\ p <= R + 1 /\ p > 0
         /\ IF p = R + 1 THEN \A i \in 1 .. Len(Flow') : Flow'[i].of[1] # k
                         ELSE Len(Flow') > 0 /\ Flow'[1].of[1] = k
         /\ Len(Flow') > 0 /\ Flow'[1].of[1] = k => p = Place(Flow'[1]) - 1
    <3>1. p \in Nat /\ p <= R + 1 /\ p > 0
      BY <1>2
    <3>2. CASE Block1.n = 0
      <4>1. Len(Flow') > 0 => 1 \in 1 .. Len(Flow')
        BY <1>3
      <4> QED
        BY <1>2, <3>1, <3>2, <4>1
    <3>3. CASE Block1.n # 0
      <4>1. p + 1 - 1 = p
        BY <3>1
      <4> QED
        BY <1>2, <3>1, <3>3, <4>1
    <3> QED
      BY <3>2, <3>3
  <2> QED
    BY <1>2, <2>1, <2>6, <2>7, <2>9, <2>10 DEF KeptAt, R
<1>7. ASSUME NEW fd \in Fds PROVE \A l : l = socket[fd] => KeptAt(fd, l)'
  <2>1. CASE fd # Fd1 \/ Fd1 = NoFd
    BY <1>5, <2>1
  <2>2. CASE fd = Fd1
    BY <1>6, <2>2
  <2> QED
    BY <2>1, <2>2
<1> QED
  BY <1>4, <1>7 DEF Kept

(* Every step keeps what is kept right. *)
LEMMA KeptStep ==
  ASSUME LInv, Step, Orderly'
  PROVE  Kept'
<1> SUFFICES ASSUME ~ TakeResult, NEW fd \in Fds, NEW l, l = socket'[fd]
             PROVE  KeptAt(fd, l)'
  BY TakeKept DEF Kept
<1>1. ASSUME fd_result_map'[fd] = fd_result_map[fd] PROVE ~ WriteAnswer(fd)
  <2> SUFFICES ASSUME WriteAnswer(fd) PROVE FALSE
    OBVIOUS
  <2>1. fd_result_map'[fd] = <<>> /\ socket[fd] \in Conns
    BY ForgetMeans, WriteAnswerLast DEF WriteAnswer
  <2>2. Taken(fd) = 0
    BY <1>1, <2>1, EmptySeq DEF Taken
  <2> QED
    BY <2>1, <2>2, ServerAssumption DEF WriteAnswer
<1>2. socket \in [Fds -> Conns \cup {NoConn}] /\ mode \in [Fds -> {"read", "write"}]
  BY DEF LInv, TypeOK
<1>3. ASSUME socket'[fd] = socket[fd], fd_result_map'[fd] = fd_result_map[fd],
             fd_client_id_map'[fd] = fd_client_id_map[fd], fd \in fd_list' => fd \in fd_list,
             mode'[fd] = "write" /\ fd \notin fd_ack_set' =>
                 (mode[fd] = "write" /\ fd \notin fd_ack_set) \/ fd \in fd_list
      PROVE  KeptAt(fd, l)'
  BY <1>1, <1>3, StillKept
<1>4. ASSUME UNCHANGED <<socket, mode, fd_client_id_map, fd_ack_set, fd_result_map, fd_list>>
      PROVE  KeptAt(fd, l)'
  BY <1>3, <1>4
<1>5. CASE \E k \in Conns : Connect(k) \/ Send(k) \/ Close(k)
  <2>1. UNCHANGED <<socket, mode, fd_client_id_map, fd_ack_set, fd_result_map, fd_list>>
    BY <1>5 DEF Connect, Send, Close, clientVars, socketVars, mapVars, loopVars, queueVars, processorVars
  <2> QED
    BY <1>4, <2>1
<1>6. CASE \/ EndAccept \/ BeginRead \/ Receive \/ RecvNothing \/ EndServe \/ ReadRequest
           \/ WriteBlock \/ UNCHANGED vars \/ AcceptFails \/ \E f \in Fds : WriteNothing(f)
  <2>1. UNCHANGED <<socket, mode, fd_client_id_map, fd_ack_set, fd_result_map, fd_list>>
    BY <1>6 DEF EndAccept, BeginRead, Receive, RecvNothing, EndServe, ReadRequest, WriteBlock,
                AcceptFails, WriteNothing, vars, clientVars, socketVars, mapVars, loopVars, queueVars, processorVars
  <2> QED
    BY <1>4, <2>1
<1>7. ASSUME NEW f \in Fds, AcceptOn(f)
      PROVE  KeptAt(fd, l)'
  <2>1. CASE fd # f
    BY <1>2, <1>3, <1>7, <2>1 DEF AcceptOn
  <2>2. CASE fd = f
    <3>1. fd_client_id_map[fd] = NoId /\ fd_result_map[fd] = <<>> /\ fd \notin fd_list
      BY <1>7, <2>2 DEF AcceptOn, LInv, MapsSound, Descriptors
    <3> QED
      BY <1>2, <1>7, <2>2, <3>1, NothingKept DEF AcceptOn
  <2> QED
    BY <2>1, <2>2
<1>8. ASSUME NEW f \in Fds, WriteAck(f)
      PROVE  KeptAt(fd, l)'
  <2>1. CASE fd # f
    BY <1>2, <1>3, <1>8, <2>1 DEF WriteAck
  <2>2. CASE fd = f
    BY <1>2, <1>3, <1>8, <2>2 DEF WriteAck
  <2> QED
    BY <2>1, <2>2
<1>9. ASSUME NEW f \in Fds, WriteAnswer(f)
      PROVE  KeptAt(fd, l)'
  <2>0. spc = "serve" /\ UNCHANGED <<socket, mode, fd_ack_set, fd_list>> /\ Forget(f)
    BY <1>9 DEF WriteAnswer
  <2>1. CASE fd # f
    BY <1>3, <2>0, <2>1, ForgetMeans
  <2>2. CASE fd = f
    <3>1. l \in Conns /\ l = socket[f]
      BY <1>9, <2>0, <2>2, WriteAnswerLast
    <3>2. Replied(l)'
      BY <1>9, <3>1, WriteAnswerCounts
    <3>3. fd_result_map'[fd] = <<>> /\ fd_client_id_map'[fd] = NoId
      BY <2>0, <2>2, ForgetMeans
    <3>4. fd \notin fd_list'
      BY <2>0 DEF LInv, Descriptors
    <3> QED
      BY <3>2, <3>3, <3>4, NothingKept
  <2> QED
    BY <2>1, <2>2
<1>10. CASE EndResults
  <2>1. /\ UNCHANGED <<socket, fd_client_id_map, fd_ack_set, fd_result_map>> /\ fd_list' = {}
        /\ mode'[fd] = "write" => mode[fd] = "write" \/ fd \in fd_list
    BY <1>10 DEF EndResults, mapVars
  <2> QED
    BY <1>3, <2>1
<1>11. CASE RecvClosed
  <2>0. /\ sockfd \in Fds /\ spc = "recv" /\ Forget(sockfd) /\ Release(sockfd)
        /\ UNCHANGED <<mode, fd_ack_set, fd_list>>
    BY <1>11, ClosedMeans DEF RecvClosed
  <2>1. CASE fd # sockfd
    BY <1>2, <1>3, <2>0, <2>1, ForgetMeans DEF Release
  <2>2. CASE fd = sockfd
    <3>1. fd_result_map'[fd] = <<>> /\ fd_client_id_map'[fd] = NoId
      BY <2>0, <2>2, ForgetMeans
    <3>2. ~ Open(fd)'
      BY <1>2, <2>0, <2>2 DEF Release, Open
    <3>3. fd \notin fd_list'
      BY <2>0 DEF LInv, Descriptors
    <3> QED
      BY <3>1, <3>2, <3>3, NothingKept
  <2> QED
    BY <2>1, <2>2
<1>12. CASE PutQuery
  <2>0. /\ UNCHANGED <<socket, mode, fd_ack_set, fd_result_map, fd_list>>
        /\ spc = "put"
    BY <1>12 DEF PutQuery, socketVars
  <2>1. PICK k \in Conns : k = request[1]
    BY <2>0, RequestFields DEF LInv, TypeOK, Descriptors
  <2>2. /\ sockfd \in Fds /\ socket[sockfd] = k
        /\ fd_client_id_map' = [fd_client_id_map EXCEPT ![sockfd] = ClientId(k)]
    BY <1>12, <2>1, InsertMeans
  <2>3. CASE fd # sockfd
    BY <1>3, <2>0, <2>2, <2>3 DEF LInv, TypeOK
  <2>4. CASE fd = sockfd
    <3>1. ~ QueryPut(k)
      BY <1>12, <2>1, PutGrows DEF Puts
    <3>2. socket[fd] = k /\ socket'[fd] = k /\ l = k
      BY <2>0, <2>2, <2>4
    <3> QED
      BY <1>1, <2>0, <3>1, <3>2, StillKept
  <2> QED
    BY <2>3, <2>4
<1>13. CASE PutAppend
  <2>1. /\ UNCHANGED <<socket, fd_client_id_map, fd_result_map, fd_list>>
        /\ fd_ack_set' = fd_ack_set \cup {sockfd} /\ mode' = [mode EXCEPT ![sockfd] = "write"]
    BY <1>13 DEF PutAppend
  <2>2. mode'[fd] = "write" /\ fd \notin fd_ack_set' => mode[fd] = "write" /\ fd \notin fd_ack_set
    BY <1>2, <2>1
  <2> QED
    BY <1>3, <2>1, <2>2
<1> QED
  BY <1>5, <1>6, <1>7, <1>8, <1>9, <1>10, <1>11, <1>12, <1>13 DEF Step

-----------------------------------------------------------------------------
(* The invariant holds at the start and goes on holding.                   *)
LEMMA LInvInit ==
  ASSUME Init
  PROVE  LInv /\ Shape
<1> USE DEF Init
<1>1. TypeOK
  <2>1. cutShort \in BOOLEAN /\ idShared \in BOOLEAN
    OBVIOUS
  <2> QED
    BY <2>1, ServerAssumption, EmptySeq DEF TypeOK
<1>2. MapsSound /\ Exits /\ Orderly
  BY FdTypes, EmptySeq DEF MapsSound, Exits, Orderly
<1>3. Links /\ Descriptors
  BY EmptySeq, ServerAssumption DEF Links, Descriptors, Open
<1>4. Counts
  BY EmptySeq, ServerAssumption DEF Counts, Put, InHand, NoRequest
<1>5. \A k \in Conns : Acked(k) = 0 /\ Len(replies[k]) = 0 /\ ~ Replied(k)
  BY EmptySeq, FS_EmptySet DEF Acked, Replied
<1>6. Replies
  BY <1>5 DEF Replies
<1>7. Flow = <<>> /\ Len(Flow) = 0
  BY EmptySeq, ConcatProperties DEF Flow
<1>8. Flowing /\ Queued
  BY <1>7, EmptySeq DEF Flowing, Queued
<1>9. Owing
  <2> SUFFICES ASSUME NEW k \in Conns
               PROVE  /\ Acked(k) + Owed(k) <= Put(k) - (IF QueryPut(k) THEN 1 ELSE 0)
                      /\ sent[k] <= Acked(k) + 1
    BY DEF Owing
  <2>1. Put(k) = 0 /\ Owed(k) = 0
    BY EmptySeq DEF Put, InHand, NoRequest, Owed
  <2>2. ~ QueryPut(k)
    <3> SUFFICES ASSUME EndsInQuery(k), Len(Script(k)) = 0 PROVE FALSE
      BY <2>1 DEF QueryPut
    <3> QED
      BY ServerAssumption, EmptySeq DEF EndsInQuery
  <2> QED
    BY <1>5, <2>1, <2>2
<1>10. Kept
  BY <1>7, EmptySeq DEF Kept, KeptAt, Taken, Open
<1>11. Addressed
  BY <1>7, EmptySeq DEF Addressed, ToCome
<1>12. Shape
  BY EmptySeq DEF Shape
<1> QED
  BY <1>1, <1>2, <1>3, <1>4, <1>6, <1>8, <1>9, <1>10, <1>11, <1>12 DEF LInv

(* Every step keeps the invariant, unless it cuts a client short or lets   *)
(* it share an id.                                                         *)
LEMMA LInvStep ==
  ASSUME LInv, [Next]_vars, Shape, Orderly'
  PROVE  LInv'
<1>1. Step
  BY StepMeans
<1>2. TypeOK'
  BY TypeStep DEF LInv
<1> QED
  BY <1>1, <1>2, MapsStep, DescriptorsStep, LinksStep, CountsStep, RepliesStep, OwingStep,
     FlowingStep, QueuedStep, KeptStep, AddressedStep DEF LInv

(* What has happened has happened. *)
LEMMA HistoryMeans ==
  ASSUME [Next]_vars
  PROVE  history' = history \/ Recv \/ PutQuery
<1>1. ASSUME NEW k \in Conns, Client(k) PROVE history' = history
  BY <1>1 DEF Client, Connect, Send, Close
<1>2. CASE Processor
  BY <1>2 DEF Processor, ReadRequest, WriteBlock
<1>3. CASE TakeResult \/ EndResults \/ Accept \/ EndAccept
  BY <1>3 DEF TakeResult, EndResults, Accept, EndAccept
<1>4. CASE BeginRead \/ RecvNothing \/ RecvClosed \/ PutAppend \/ WriteFd \/ EndServe
  BY <1>4 DEF BeginRead, RecvNothing, RecvClosed, PutAppend, WriteFd, EndServe
<1>5. CASE UNCHANGED vars
  BY <1>5 DEF vars
<1> QED
  BY <1>1, <1>2, <1>3, <1>4, <1>5 DEF Next, Server

LEMMA OrderlyBefore ==
  ASSUME TypeOK, [Next]_vars, Orderly'
  PROVE  Orderly
<1>0. cutShort \in BOOLEAN /\ idShared \in BOOLEAN
  BY DEF TypeOK
<1>1. CASE history' = history
  BY <1>1 DEF history, Orderly
<1>2. CASE Recv
  BY <1>0, <1>2 DEF Recv, Orderly
<1>3. CASE PutQuery
  BY <1>0, <1>3 DEF PutQuery, Orderly
<1> QED
  BY <1>1, <1>2, <1>3, HistoryMeans

(* Until a client is cut short, and whether or not ids are shared: a       *)
(* client id leads to an open connection of a client that used it, and     *)
(* log_server has no closed descriptor in hand.                            *)
Serving ==
    /\ \A id \in Ids : client_id_fd_map[id] # NoFd =>
          Open(client_id_fd_map[id]) /\ fd_client_id_map[client_id_fd_map[id]] = id
    /\ \A fd \in Fds : fd_client_id_map[fd] # NoId =>
          Open(fd) /\ fd_client_id_map[fd] = ClientId(socket[fd])
    /\ \A fd \in fd_list : Open(fd)
    /\ spc # "results" => fd_list = {}
    /\ spc = "put" => Open(sockfd) /\ request[1] = socket[sockfd]
    /\ Exits

(* A descriptor that is forgotten may be closed.                           *)
LEMMA ForgetServes ==
  ASSUME TypeOK, Serving, NEW fd \in Fds, Forget(fd),
         socket' = socket \/ socket' = [socket EXCEPT ![fd] = NoConn]
  PROVE  /\ \A id \in Ids : client_id_fd_map'[id] # NoFd =>
               Open(client_id_fd_map[id])' /\ fd_client_id_map'[client_id_fd_map'[id]] = id
         /\ \A f \in Fds : fd_client_id_map'[f] # NoId =>
               Open(f)' /\ fd_client_id_map'[f] = ClientId(socket'[f])
<1>1. /\ \A id \in Ids : /\ client_id_fd_map[id] \in Fds \cup {NoFd}
                         /\ client_id_fd_map'[id] = IF id = fd_client_id_map[fd] THEN NoFd
                                                    ELSE client_id_fd_map[id]
      /\ \A f \in Fds : fd_client_id_map'[f] = IF f = fd THEN NoId ELSE fd_client_id_map[f]
      /\ \A f \in Fds : f # fd => socket'[f] = socket[f]
  BY DEF TypeOK, Forget, ForgetId
<1>2. ASSUME NEW id \in Ids, client_id_fd_map'[id] # NoFd
      PROVE  Open(client_id_fd_map[id])' /\ fd_client_id_map'[client_id_fd_map'[id]] = id
  <2>1. client_id_fd_map'[id] = client_id_fd_map[id] /\ id # fd_client_id_map[fd]
    BY <1>1, <1>2
  <2>2. client_id_fd_map[id] \in Fds /\ client_id_fd_map[id] # fd
    BY <1>1, <1>2, <2>1 DEF Serving
  <2> QED
    BY <1>1, <1>2, <2>1, <2>2 DEF Serving, Open
<1>3. ASSUME NEW f \in Fds, fd_client_id_map'[f] # NoId
      PROVE  Open(f)' /\ fd_client_id_map'[f] = ClientId(socket'[f])
  BY <1>1, <1>3 DEF Serving, Open
<1> QED
  BY <1>2, <1>3

(* Every step keeps it, one that cuts a client short excepted.             *)
LEMMA ServingStep ==
  ASSUME TypeOK, Shape, Serving, [Next]_vars, ~ cutShort'
  PROVE  Serving'
<1> USE FdTypes
<1>0. TypeOK /\ Shape /\ Serving
  OBVIOUS
<1>1. CASE UNCHANGED <<socket, client_id_fd_map, fd_client_id_map, fd_list, spc, sockfd, request>>
  BY <1>0, <1>1 DEF Serving, Exits, Open
<1>2. CASE TakeResult
  <2>1. PICK block \in BlockSet : block = Head(result_queue)
    BY <1>0, <1>2, HeadTailProperties DEF TypeOK, TakeResult
  <2>2. block.client_id_ \in Ids
    BY BlockSetFields
  <2>3. /\ \A fd \in fd_list' : Open(fd)
        /\ spc = "results"
        /\ UNCHANGED <<socket, client_id_fd_map, fd_client_id_map, spc, sockfd, request>>
    BY <1>0, <1>2, <2>1, <2>2 DEF TakeResult, Writable, Serving, socketVars
  <2> QED
    BY <1>0, <2>3 DEF Serving, Exits, Open
<1>3. CASE EndResults
  <2>1. spc' = "serve" /\ fd_list' = {}
    BY <1>0, <1>3 DEF EndResults, Serving
  <2> QED
    BY <1>0, <1>3, <2>1 DEF EndResults, Serving, Exits, Open, mapVars
<1>4. CASE Accept
  <2>1. backlog \in Seq(Conns) /\ backlog # <<>> /\ spc = "serve"
    BY <1>0, <1>4 DEF TypeOK, Accept
  <2>2. Head(backlog) # NoConn
    BY <2>1, HeadTailProperties, ServerAssumption
  <2>3. CASE {fd \in Fds : ~ Open(fd)} = {}
    BY <1>0, <1>4, <2>1, <2>3 DEF Accept, Serving, Exits, Open, mapVars
  <2>4. CASE {fd \in Fds : ~ Open(fd)} # {}
    <3> DEFINE fd == Min({x \in Fds : ~ Open(x)})
    <3>1. fd \in Fds /\ ~ Open(fd)
      BY <2>4, LeastFd
    <3>2. /\ socket' = [socket EXCEPT ![fd] = Head(backlog)]
          /\ UNCHANGED <<client_id_fd_map, fd_client_id_map, fd_list, spc, sockfd, request>>
      BY <1>4, <2>4 DEF Accept, mapVars
    <3> HIDE DEF fd
    <3>3. \A f \in Fds : Open(f) => f # fd /\ Open(f)' /\ socket'[f] = socket[f]
      BY <1>0, <3>1, <3>2 DEF TypeOK, Open
    <3>4. \A id \in Ids : client_id_fd_map[id] \in Fds \cup {NoFd}
      BY <1>0 DEF TypeOK
    <3> QED
      BY <1>0, <2>1, <3>2, <3>3, <3>4 DEF Serving, Exits, Open
  <2> QED
    BY <2>3, <2>4
<1>5. CASE BeginRead \/ EndAccept \/ RecvNothing \/ EndServe
  BY <1>0, <1>5 DEF BeginRead, EndAccept, RecvNothing, EndServe, Serving, Exits, Open,
                    socketVars, mapVars
<1>6. CASE Recv
  <2> DEFINE k == socket[sockfd]
             s == unread[k]
  <2>1. sockfd \in Fds /\ k \in Conns /\ Open(sockfd)
    BY <1>0, <1>6 DEF Shape, Open, Recv, TypeOK
  <2>2. s \in Seq(Requests) /\ s # <<>> /\ request' = Head(s)
    BY <1>0, <1>6, <2>1 DEF Recv, TypeOK
  <2>3. Head(s) = s[1] /\ Len(s) \in Nat /\ Len(s) > 0
    BY <2>2, EmptySeq, HeadTailProperties, LenProperties
  <2>4. request'[1] = k
    BY <1>0, <2>1, <2>2, <2>3 DEF Shape
  <2>5. /\ spc = "recv" /\ spc' = "put"
        /\ UNCHANGED <<socket, client_id_fd_map, fd_client_id_map, fd_list, sockfd>>
    BY <1>6 DEF Recv
  <2> QED
    BY <1>0, <2>1, <2>4, <2>5 DEF Serving, Exits, Open
<1>7. CASE RecvClosed
  <2>1. /\ sockfd \in Fds /\ spc = "recv" /\ spc' = "serve" /\ Forget(sockfd)
        /\ socket' = [socket EXCEPT ![sockfd] = NoConn] /\ fd_list' = fd_list
    BY <1>0, <1>7 DEF Shape, RecvClosed, Release
  <2> QED
    BY <1>0, <2>1, ForgetServes DEF Serving, Exits
<1>8. CASE PutQuery
  <2>1. sockfd \in Fds /\ Open(sockfd) /\ request[1] = socket[sockfd] /\ request[1] \in Conns
    BY <1>0, <1>8, RequestFields DEF Shape, TypeOK, PutQuery, Serving
  <2> DEFINE i == ClientId(request[1])
  <2>2. i \in Ids /\ InsertId(i, sockfd)
    BY <1>8, <2>1 DEF PutQuery
  <2>3. /\ UNCHANGED <<socket, fd_list>> /\ spc = "put" /\ spc' \in {"serve", "recv"}
    BY <1>8 DEF PutQuery, AfterRequest, socketVars
  <2> HIDE DEF i
  <2>4. /\ \A id \in Ids : /\ client_id_fd_map[id] \in Fds \cup {NoFd}
                           /\ client_id_fd_map'[id] =
                                  IF id = i /\ client_id_fd_map[id] = NoFd THEN sockfd
                                  ELSE client_id_fd_map[id]
        /\ \A fd \in Fds : fd_client_id_map'[fd] =
                               IF fd = sockfd /\ fd_client_id_map[fd] = NoId THEN i
                               ELSE fd_client_id_map[fd]
    BY <1>0, <2>1, <2>2 DEF TypeOK, InsertId
  <2>5. fd_client_id_map'[sockfd] = i
    BY <1>0, <2>1, <2>4 DEF Serving, i
  <2>6. \A fd \in Fds : fd_client_id_map'[fd] # NoId =>
            Open(fd) /\ fd_client_id_map'[fd] = ClientId(socket[fd])
    BY <1>0, <2>1, <2>4, <2>5 DEF Serving, i
  <2>7. \A id \in Ids : client_id_fd_map'[id] # NoFd =>
            Open(client_id_fd_map'[id]) /\ fd_client_id_map'[client_id_fd_map'[id]] = id
    BY <1>0, <2>1, <2>4, <2>5 DEF Serving
  <2> QED
    BY <1>0, <2>3, <2>6, <2>7 DEF Serving, Exits, Open
<1>9. CASE PutAppend
  <2>1. /\ UNCHANGED <<socket, client_id_fd_map, fd_client_id_map, fd_list>>
        /\ spc = "put" /\ spc' \in {"serve", "recv"}
    BY <1>0, <1>9 DEF PutAppend, AfterRequest, Serving
  <2> QED
    BY <1>0, <2>1 DEF Serving, Exits, Open
<1>10. CASE WriteFd
  <2>1. PICK fd \in batch \ {Listen} :
           \/ Forget(fd) /\ (socket' = socket \/ socket' = [socket EXCEPT ![fd] = NoConn])
           \/ UNCHANGED <<socket, client_id_fd_map, fd_client_id_map>>
    BY <1>10 DEF WriteFd, Release, CloseAfter
  <2>2. spc = "serve" /\ UNCHANGED <<spc, fd_list, sockfd, request>>
    BY <1>10 DEF WriteFd
  <2>3. fd \in Fds
    BY <1>0 DEF TypeOK
  <2>4. CASE UNCHANGED <<socket, client_id_fd_map, fd_client_id_map>>
    BY <1>1, <2>2, <2>4
  <2>5. CASE Forget(fd) /\ (socket' = socket \/ socket' = [socket EXCEPT ![fd] = NoConn])
    BY <1>0, <2>2, <2>3, <2>5, ForgetServes DEF Serving, Exits
  <2> QED
    BY <2>1, <2>4, <2>5
<1>11. CASE ReadRequest \/ WriteBlock \/ UNCHANGED vars \/ \E k \in Conns : Client(k)
  BY <1>1, <1>11 DEF ReadRequest, WriteBlock, Client, Connect, Send, Close, vars, socketVars,
                     mapVars, loopVars
<1> QED
  BY <1>2, <1>3, <1>4, <1>5, <1>6, <1>7, <1>8, <1>9, <1>10, <1>11 DEF Next, Server, Processor

(* What has been cut short stays so. *)
LEMMA CutShortBefore ==
  ASSUME [Next]_vars, ~ cutShort'
  PROVE  ~ cutShort
<1>1. CASE history' = history
  BY <1>1 DEF history
<1>2. CASE Recv
  BY <1>2 DEF Recv
<1>3. CASE PutQuery
  BY <1>3 DEF PutQuery
<1> QED
  BY <1>1, <1>2, <1>3, HistoryMeans

(* In every behaviour. *)
THEOREM ServerInvariant == Spec => [](TypeOK /\ Shape /\ (Orderly => LInv))
<1>1. Init => TypeOK /\ Shape /\ (Orderly => LInv)
  BY LInvInit DEF LInv
<1>2. TypeOK /\ Shape /\ (Orderly => LInv) /\ [Next]_vars => (TypeOK /\ Shape /\ (Orderly => LInv))'
  BY TypeStep, ShapeStep, LInvStep, OrderlyBefore
<1> QED
  BY <1>1, <1>2, PTL DEF Spec

(* Every variable stays within what the program can hold in it, the two    *)
(* queues within their rooms (MsgQueue's ring, log_server.cpp:181),        *)
(* whatever the clients do.                                                *)
THEOREM ServerTypes == Spec => []TypeOK
  BY ServerInvariant, PTL

(* No client id leads to a connection that has been closed, or to the      *)
(* client that has got its descriptor since (log_server.cpp:54): what      *)
(* waits on a connection is for the client behind it.                      *)
THEOREM MapsStaySound == Spec => []MapsSound
<1>1. (Orderly => LInv) => MapsSound
  BY DEF LInv, MapsSound
<1> QED
  BY <1>1, ServerInvariant, PTL

(* log_server ends in two ways alone, shared ids or not: after it has      *)
(* closed a connection before it passed on its request, and at a           *)
(* connection for which there is no descriptor (log_server.cpp:261, 402).  *)
THEOREM ServerExits == Spec => []ExitsExplained
<1>1. Init => (~ cutShort => Serving)
  BY FdTypes DEF Init, Serving, Exits
<1>2. TypeOK /\ Shape /\ (~ cutShort => Serving) /\ [Next]_vars => (~ cutShort => Serving)'
  BY ServingStep, CutShortBefore
<1>3. (~ cutShort => Serving) => ExitsExplained
  BY DEF Serving, Exits, ExitsExplained
<1> QED
  BY <1>1, <1>2, <1>3, ServerInvariant, PTL DEF Spec

(* An answer arrives at the client that asked, whole, in order and once,   *)
(* behind the ACKs of the requests before it, with the block of the count  *)
(* in front (log_server.cpp:352-363, 475).                                 *)
THEOREM AnswersArriveWhole == Spec => []AnswersWhole
<1>1. ASSUME Orderly => LInv PROVE AnswersWhole
  <2> SUFFICES ASSUME LInv, NEW k \in Conns
               PROVE  \E acks \in 0 .. Len(replies[k]) :
                        /\ \A i \in 1 .. acks : replies[k][i] = Ack
                        /\ \/ Len(replies[k]) = acks
                           \/ \E r \in Requests :
                                 /\ r[1] = k /\ Len(replies[k]) = acks + ResultBlocks(k) + 1
                                 /\ \A n \in 0 .. ResultBlocks(k) : replies[k][acks + n + 1] = Block(r, n)
    BY <1>1 DEF AnswersWhole
  <2>1. Acked(k) \in 0 .. Len(replies[k]) /\ \A i \in 1 .. Acked(k) : replies[k][i] = Ack
    BY <1>1 DEF LInv, Replies
  <2>2. CASE ~ Replied(k)
    <3>1. Len(replies[k]) = Acked(k)
      BY <1>1, <2>2, ReplyCounts DEF Replied
    <3> QED
      BY <2>1, <3>1
  <2>3. CASE Replied(k)
    <3>1. Query(k) \in Requests /\ Query(k)[1] = k
      BY <1>1, <2>3, QueryIsRequest DEF LInv, Replies, QueryPut, Query
    <3>2. /\ Len(replies[k]) = Acked(k) + ResultBlocks(k) + 1
          /\ \A n \in 0 .. ResultBlocks(k) : replies[k][Acked(k) + n + 1] = Block(Query(k), n)
      BY <1>1, <2>3 DEF LInv, Replies
    <3> QED
      BY <2>1, <3>1, <3>2
  <2> QED
    BY <2>2, <2>3
<1> QED
  BY <1>1, ServerInvariant, PTL
=============================================================================

