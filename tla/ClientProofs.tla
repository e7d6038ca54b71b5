---------------------------- MODULE ClientProofs ----------------------------
(***************************************************************************)
(* Proofs about Client: the state of the connection, the streams that ride *)
(* on it and the exported state the application reads, for any number of   *)
(* server starts, connections, streams and failures.                       *)
(*                                                                         *)
(* The invariant is inductive only as a whole.  ClientOK relates the parts *)
(* of struct cras_client to the state of its machine at every step, also   *)
(* between two calls of server_fd_dispatch, where the properties do not    *)
(* hold; Linked and Served tie the connections to the client's descriptor  *)
(* and to the server that runs; AllReported follows a stream request to    *)
(* the server: whatever the client has given up is still ahead of the      *)
(* removal in the same queue; ShmOK and ReadOK are the argument behind the *)
(* update count: it is odd exactly inside an update, and a reader that     *)
(* sees the even count it started with has copied fields nobody wrote.     *)
(* That the mapped memory is that of the server at the other end of the    *)
(* connection is a second invariant (MapOK), proved from the first.        *)
(***************************************************************************)
EXTENDS Client, FiniteSetTheorems, WellFoundedInduction, SequenceTheorems, TLAPS

\* Types of the records the model is made of.
Ids == Nat \cup {Unknown}

StreamId == [client : Ids, n : Nat]

Stream == [id : StreamId, thread : {"warmup", "running", "stopped"}, conn : Slots]

Request == [type : {"connect", "disconnect"}, id : StreamId]

Reply == {[type |-> "connected"]} \cup [type : {"stream"}, id : StreamId, ok : BOOLEAN]

Conn == [inc : 0..MaxStarts, cid : Ids, srvOpen : BOOLEAN, cliOpen : BOOLEAN,
         toServer : Seq(Request), toClient : Seq(Reply), streams : SUBSET StreamId,
         lost : SUBSET Reply]

ServerState == [phase : {"down", "unlinked", "bound", "up"}, inc : 0..MaxStarts,
                next : Nat, update : {"none", "due", "a", "b", "end"}]

SocketFile == [exists : BOOLEAN, events : Seq({"created", "deleted"})]

ClientState ==
    [state : {Disconnected, WaitForSocket, WaitForWritable, FirstMessage, Connected, ErrorDelay},
     fd : Slots \cup {NoFd, Timer, Socket}, id : Ids, mapped : 0..MaxStarts \cup {MapFailed},
     event : BOOLEAN, exists : BOOLEAN, streams : SUBSET Stream, next : Nat,
     todo : {"none", "go", "hup"}, loop : {"none", "poll", "connect"},
     running : BOOLEAN, missed : BOOLEAN]

Memory == [count : Nat, a : Nat, b : Nat]

Reader == [at : {"idle", "begin", "a", "b", "end"}, count : Nat, a : Nat, b : Nat]

Connections == [Slots -> Conn]

Memories == [1..MaxStarts -> Memory]

\* The types of all variables, in full.
Types ==
    /\ srv \in ServerState
    /\ file \in SocketFile
    /\ conns \in Connections
    /\ cl \in ClientState
    /\ IsFiniteSet(cl.streams)
    /\ rd \in Reader
    /\ shm \in Memories

\* The parts of struct cras_client agree with the state of its machine.  A
\* failed step leaves the id or the mapping behind only until the hang-up that
\* is due, and no call without events is due while a connection is open.
ClientOK(c) ==
    /\ c.event <=> c.state = Connected
    /\ c.state = Connected => c.id # Unknown /\ c.mapped # 0
    /\ c.fd \in Slots <=> c.state \in {FirstMessage, Connected}
    /\ c.fd = Timer => c.state = ErrorDelay
    /\ c.fd = Socket => c.state = WaitForWritable
    /\ c.todo = "none" /\ c.state = ErrorDelay => c.fd = Timer
    /\ c.state \notin {FirstMessage, Connected} => c.id = Unknown /\ c.mapped = 0
    /\ c.state = FirstMessage /\ c.todo = "none" => c.id = Unknown /\ c.mapped = 0
    /\ c.todo = "go" => c.state \notin {FirstMessage, Connected} /\ c.fd # Timer

\* Every stream rides on the open connection; before the first message the
\* client does not know the id its streams should carry.
StreamsOK(c) ==
    \A s \in c.streams :
        /\ s.conn = c.fd /\ c.fd \in Slots
        /\ s.id.n < c.next
        /\ c.state = FirstMessage => s.id.client = Unknown

\* A connection that the server holds open is one of the server that runs; it
\* carries messages and streams only once the client has its id.
ConnOK(c, s) ==
    /\ c.srvOpen => c.inc = s.inc /\ s.phase = "up"
    /\ c.toClient # <<>> => c.cid # Unknown
    /\ \A id \in c.streams : id.client = c.cid /\ c.cid # Unknown

Served(cn, s) == \A i \in Slots : ConnOK(cn[i], s)

\* The client holds one connection open, the one its descriptor names.
Linked(cn, fd) == \A i \in Slots : cn[i].cliOpen <=> fd = i

\* The id of one of the streams ss, and the message that gives a stream up.
Listed(ss, id) == \E s \in ss : s.id = id

Removal(id) == [type |-> "disconnect", id |-> id]

\* Of the streams that the server runs or is still asked for, those the client
\* does not list are followed by a removal in the queue.  Requests without an
\* id will be refused.
Reported(c, ss) ==
    /\ \A id \in c.streams :
          \/ Listed(ss, id)
          \/ \E k \in 1..Len(c.toServer) : c.toServer[k] = Removal(id)
    /\ \A k \in 1..Len(c.toServer) :
          c.toServer[k].type = "connect" /\ c.toServer[k].id.client # Unknown =>
              \/ Listed(ss, c.toServer[k].id)
              \/ \E j \in 1..Len(c.toServer) :
                    j > k /\ c.toServer[j] = Removal(c.toServer[k].id)

AllReported(cn, c) ==
    c.fd \in Slots /\ cn[c.fd].srvOpen => Reported(cn[c.fd], c.streams)

\* A server that runs was started, and updates the exported state only when up.
ServerOK(s) ==
    /\ s.phase # "down" => s.inc # 0
    /\ s.update # "none" => s.phase = "up"

\* Outside an update the fields agree; a server to come finds zeroed memory.
RegionOK(region, i, s) ==
    /\ region.count % 2 = 0 => region.a = region.b
    /\ i > s.inc => region = Zeroed

\* What a step of the update has written: the count is odd in between.
UpdateOK(region, step) ==
    /\ step \in {"a", "b", "end"} <=> region.count % 2 = 1
    /\ step \in {"b", "end"} => region.a = region.count
    /\ step = "end" => region.b = region.count

ShmOK(mem, s) ==
    /\ \A i \in 1..MaxStarts : RegionOK(mem[i], i, s)
    /\ s.phase # "down" => UpdateOK(mem[s.inc], s.update)

\* The reader holds the mapping.  The count it started with is even and not
\* ahead of the memory; as long as they are equal its copies are current.
ReadOK(r, mem, m) ==
    /\ r.at # "idle" => m # 0
    /\ r.at \in {"a", "b", "end"} =>
          m \in 1..MaxStarts /\ r.count % 2 = 0 /\ r.count <= mem[m].count
    /\ r.at \in {"b", "end"} /\ r.count = mem[m].count => r.a = mem[m].a
    /\ r.at = "end" /\ r.count = mem[m].count => r.b = mem[m].b

\* The inductive invariant.
IInv ==
    /\ Types
    /\ ClientOK(cl)
    /\ StreamsOK(cl)
    /\ Served(conns, srv)
    /\ Linked(conns, cl.fd)
    /\ AllReported(conns, cl)
    /\ ServerOK(srv)
    /\ ShmOK(shm, srv)
    /\ ReadOK(rd, shm, cl.mapped)

-----------------------------------------------------------------------------
\* No descriptor of a connection is mistaken for another.
LEMMA SlotsAreNat ==
  Slots \subseteq Nat \ {0} /\ NoFd \notin Slots /\ Timer \notin Slots /\ Socket \notin Slots
  BY ClientAssumption DEF Slots, NoFd, Timer, Socket

\* The empty slot.
LEMMA FreeConnOK ==
  /\ NoConn \in Conn /\ ~NoConn.srvOpen /\ ~NoConn.cliOpen
  /\ NoConn.streams = {} /\ NoConn.toServer = <<>> /\ NoConn.toClient = <<>>
  BY ClientAssumption DEF NoConn, Conn, Ids, Unknown

\* It holds initially.
LEMMA InitOK == Init => IInv
  <1> SUFFICES ASSUME Init PROVE IInv OBVIOUS
  <1> USE DEF Init
  <1>1. Types
    <2>1. srv \in ServerState /\ file \in SocketFile
      BY ClientAssumption DEF ServerState, SocketFile
    <2>2. conns \in Connections BY FreeConnOK DEF Connections
    <2>3. cl \in ClientState BY ClientAssumption DEF ClientState, Ids, Unknown
    <2>4. IsFiniteSet(cl.streams) BY FS_EmptySet
    <2>5. rd \in Reader BY DEF Reader
    <2>6. shm \in Memories BY DEF Memory, Zeroed, Memories
    <2> QED BY <2>1, <2>2, <2>3, <2>4, <2>5, <2>6 DEF Types
  <1>2. ClientOK(cl)
    BY SlotsAreNat
      DEF ClientOK, NoFd, Timer, Socket, Disconnected, FirstMessage, Connected, ErrorDelay,
          WaitForWritable
  <1>3. StreamsOK(cl) BY DEF StreamsOK
  <1>4. Served(conns, srv) BY FreeConnOK DEF Served, ConnOK
  <1>5. Linked(conns, cl.fd) BY FreeConnOK, SlotsAreNat DEF Linked
  <1>6. AllReported(conns, cl) BY SlotsAreNat DEF AllReported
  <1>7. ServerOK(srv) BY DEF ServerOK
  <1>8. ShmOK(shm, srv) BY DEF ShmOK, RegionOK, Zeroed
  <1>9. ReadOK(rd, shm, cl.mapped) BY DEF ReadOK
  <1> QED BY <1>1, <1>2, <1>3, <1>4, <1>5, <1>6, <1>7, <1>8, <1>9 DEF IInv

-----------------------------------------------------------------------------
\* Narrows(d, c): d keeps less of the connection c.
Narrows(d, c) ==
    /\ d \in Conn
    /\ d.srvOpen => c.srvOpen /\ d.inc = c.inc
    /\ d.toClient # <<>> => c.toClient # <<>> /\ d.cid = c.cid
    /\ d.streams # {} => d.streams \subseteq c.streams /\ d.cid = c.cid

\* A connection that keeps less of one that is in order is in order.
LEMMA NarrowedConn ==
  ASSUME NEW c, NEW d, NEW s, ConnOK(c, s), Narrows(d, c)
  PROVE  ConnOK(d, s)
  BY DEF ConnOK, Narrows

LEMMA NarrowedConns ==
  ASSUME NEW cn, NEW dn, NEW s, Served(cn, s), \A i \in Slots : Narrows(dn[i], cn[i])
  PROVE  Served(dn, s)
  BY NarrowedConn DEF Served

LEMMA SameNarrows == \A c \in Conn : Narrows(c, c)
  BY DEF Narrows

\* write() on the connection adds to its queue and changes nothing else.
LEMMA WrittenFields ==
  ASSUME NEW cn \in Connections, NEW fd, NEW msgs \in Seq(Request)
  PROVE  LET n == Written(cn, fd, msgs)
         IN  /\ n \in Connections
             /\ \A i \in Slots : i # fd => n[i] = cn[i]
             /\ \A i \in Slots : /\ n[i].inc = cn[i].inc
                                 /\ n[i].cid = cn[i].cid
                                 /\ n[i].srvOpen = cn[i].srvOpen
                                 /\ n[i].cliOpen = cn[i].cliOpen
                                 /\ n[i].toClient = cn[i].toClient
                                 /\ n[i].streams = cn[i].streams
             /\ fd \in Slots /\ cn[fd].srvOpen => n[fd].toServer = cn[fd].toServer \o msgs
  <1> USE DEF Connections
  <1>1. CASE Live(cn, fd)
    <2>1. fd \in Slots BY <1>1 DEF Live
    <2> DEFINE q == cn[fd].toServer \o msgs
               d == [cn[fd] EXCEPT !.toServer = q]
    <2>2. q \in Seq(Request)
      <3>1. cn[fd].toServer \in Seq(Request) BY <2>1 DEF Conn
      <3> QED BY <3>1
    <2>3. Written(cn, fd, msgs) = [cn EXCEPT ![fd] = d]
      BY <1>1, <2>1 DEF Written
    <2> HIDE DEF q
    <2>4. /\ d \in Conn
          /\ d.inc = cn[fd].inc /\ d.cid = cn[fd].cid /\ d.srvOpen = cn[fd].srvOpen
          /\ d.cliOpen = cn[fd].cliOpen /\ d.toClient = cn[fd].toClient
          /\ d.streams = cn[fd].streams /\ d.toServer = q
      BY <2>1, <2>2 DEF Conn
    <2> HIDE DEF d
    <2> QED BY <2>1, <2>3, <2>4 DEF q
  <1>2. CASE ~Live(cn, fd)
    BY <1>2 DEF Written, Live
  <1> QED BY <1>1, <1>2

\* close() by the client, and by the server.
LEMMA ClosedByClientFields ==
  ASSUME NEW cn \in Connections, NEW fd
  PROVE  LET n == ClosedByClient(cn, fd)
         IN  /\ n \in Connections
             /\ \A i \in Slots : i # fd => n[i] = cn[i]
             /\ fd \in Slots => ~n[fd].cliOpen /\ Narrows(n[fd], cn[fd])
  <1> USE DEF Connections
  <1>1. CASE fd \notin Slots BY <1>1 DEF ClosedByClient
  <1>2. CASE fd \in Slots /\ cn[fd].srvOpen
    <2> DEFINE no == FALSE
               none == <<>>
               d == [cn[fd] EXCEPT !.cliOpen = no, !.toClient = none]
    <2>1. ClosedByClient(cn, fd) = [cn EXCEPT ![fd] = d] BY <1>2 DEF ClosedByClient
    <2>a. no \in BOOLEAN /\ none \in Seq(Reply) OBVIOUS
    <2>b. cn[fd] \in Conn BY <1>2
    <2> HIDE DEF no, none
    <2>2. /\ d \in Conn /\ d.cliOpen = no /\ d.toClient = none /\ d.inc = cn[fd].inc
          /\ d.cid = cn[fd].cid /\ d.streams = cn[fd].streams /\ d.srvOpen = cn[fd].srvOpen
      BY <2>a, <2>b DEF Conn
    <2> HIDE DEF d
    <2>3. Narrows(d, cn[fd]) BY <2>2 DEF Narrows, none
    <2> QED BY <1>2, <2>1, <2>2, <2>3 DEF no
  <1>3. CASE fd \in Slots /\ ~cn[fd].srvOpen
    <2>1. ClosedByClient(cn, fd) = [cn EXCEPT ![fd] = NoConn] BY <1>3 DEF ClosedByClient
    <2>2. Narrows(NoConn, cn[fd]) BY FreeConnOK DEF Narrows
    <2> QED BY <1>3, <2>1, <2>2, FreeConnOK
  <1> QED BY <1>1, <1>2, <1>3

LEMMA ClosedByServerFields ==
  ASSUME NEW cn \in Connections, NEW i \in Slots
  PROVE  LET n == ClosedByServer(cn, i)
         IN  /\ n \in Connections
             /\ \A j \in Slots : j # i => n[j] = cn[j]
             /\ n[i].cliOpen = cn[i].cliOpen
             /\ ~n[i].srvOpen
             /\ cn[i].cliOpen => n[i].inc = cn[i].inc
             /\ Narrows(n[i], cn[i])
  <1> USE DEF Connections
  <1> DEFINE n == ClosedByServer(cn, i)
  <1>1. CASE ~cn[i].cliOpen
    <2>1. n = [cn EXCEPT ![i] = NoConn] BY <1>1 DEF ClosedByServer
    <2>2. Narrows(NoConn, cn[i]) BY FreeConnOK DEF Narrows
    <2>3. cn[i].cliOpen = FALSE BY <1>1 DEF Conn
    <2>4. NoConn.cliOpen = FALSE BY DEF NoConn
    <2> QED BY <2>1, <2>2, <2>3, <2>4, FreeConnOK
  <1>2. CASE cn[i].cliOpen
    <2> DEFINE no == FALSE
               none == <<>>
               d == [cn[i] EXCEPT !.srvOpen = no, !.toServer = none, !.streams = {}]
    <2>1. n = [cn EXCEPT ![i] = d] BY <1>2 DEF ClosedByServer
    <2>a. no \in BOOLEAN /\ none \in Seq(Request) OBVIOUS
    <2>b. cn[i] \in Conn OBVIOUS
    <2> HIDE DEF no, none
    <2>2. /\ d \in Conn /\ d.cliOpen = cn[i].cliOpen /\ d.toClient = cn[i].toClient
          /\ d.cid = cn[i].cid /\ d.streams = {} /\ d.srvOpen = no /\ d.inc = cn[i].inc
      BY <2>a, <2>b DEF Conn
    <2> HIDE DEF d
    <2>3. Narrows(d, cn[i]) BY <2>2 DEF Narrows, no
    <2> QED BY <2>1, <2>2, <2>3 DEF no
  <1> QED BY <1>1, <1>2

\* SetToSeq enumerates a finite set.
LEMMA SeqOfSet ==
  ASSUME NEW S, IsFiniteSet(S)
  PROVE  /\ SetToSeq(S) \in Seq(S)
         /\ \A x \in S : \E k \in 1..Len(SetToSeq(S)) : SetToSeq(S)[k] = x
  <1> DEFINE n == Cardinality(S)
             f == SetToSeq(S)
  <1>1. n \in Nat /\ ExistsBijection(1..n, S) BY FS_CardinalityType
  <1>2. \E g \in [1..n -> S] : IsInjective(g)
    BY <1>1 DEF ExistsBijection, Bijection, Injection
  <1>3. f \in [1..n -> S] /\ IsInjective(f)
    <2> HIDE DEF n
    <2>1. f = CHOOSE g \in [1..n -> S] : IsInjective(g) BY DEF SetToSeq, n
    <2> QED BY <1>2, <2>1
  <1> HIDE DEF f
  <1>4. f \in Injection(1..n, S)
    BY <1>3 DEF Injection
  <1>5. IsFiniteSet(1..n) /\ Cardinality(1..n) = n
    BY <1>1, FS_Interval
  <1>6. f \in Surjection(1..n, S)
    BY <1>4, <1>5, FS_Injection
  <1>7. f \in Seq(S) /\ Len(f) = n
    BY <1>1, <1>3
  <1> QED BY <1>6, <1>7 DEF Surjection, f

\* The messages of client_thread_rm_stream.
Removals(ss) == {[type |-> "disconnect", id |-> s.id] : s \in ss}

LEMMA FiniteRemovals ==
  ASSUME NEW ss, IsFiniteSet(ss)
  PROVE  IsFiniteSet(Removals(ss))
  <1> DEFINE f == [s \in ss |-> [type |-> "disconnect", id |-> s.id]]
  <1>1. f \in Surjection(ss, Removals(ss))
    BY DEF Surjection, Removals
  <1> QED BY <1>1, FS_Surjection

\* Every stream is named by one of them.
LEMMA RemovalMessages ==
  ASSUME NEW ss, ss \subseteq Stream, IsFiniteSet(ss)
  PROVE  /\ SetToSeq(Removals(ss)) \in Seq(Request)
         /\ \A k \in 1..Len(SetToSeq(Removals(ss))) :
               SetToSeq(Removals(ss))[k].type = "disconnect"
         /\ \A s \in ss : \E k \in 1..Len(SetToSeq(Removals(ss))) :
               SetToSeq(Removals(ss))[k] = Removal(s.id)
  <1> DEFINE q == SetToSeq(Removals(ss))
  <1>1. /\ q \in Seq(Removals(ss))
        /\ \A x \in Removals(ss) : \E k \in 1..Len(q) : q[k] = x
    <2>1. IsFiniteSet(Removals(ss)) BY FiniteRemovals
    <2> QED BY <2>1, SeqOfSet
  <1> HIDE DEF q
  <1>2. Removals(ss) \subseteq Request
    BY DEF Removals, Request, Stream
  <1>3. \A x \in Removals(ss) : x.type = "disconnect"
    BY DEF Removals
  <1>4. \A s \in ss : Removal(s.id) \in Removals(ss)
    BY DEF Removals, Removal
  <1>5. q \in Seq(Request)
    BY <1>1, <1>2
  <1>6. \A k \in 1..Len(q) : q[k].type = "disconnect"
    BY <1>1, <1>3
  <1>7. \A s \in ss : \E k \in 1..Len(q) : q[k] = Removal(s.id)
    BY <1>1, <1>4
  <1> QED BY <1>5, <1>6, <1>7 DEF q

-----------------------------------------------------------------------------
\* The server is told only in the state CONNECTED.
LEMMA ToldFields ==
  ASSUME NEW cn \in Connections, NEW c \in ClientState, NEW ss,
         ss \subseteq Stream, IsFiniteSet(ss)
  PROVE  LET n == ToldOfRemoval(cn, c, ss)
         IN  /\ n \in Connections
             /\ \A i \in Slots : i # c.fd => n[i] = cn[i]
             /\ \A i \in Slots : /\ n[i].inc = cn[i].inc
                                 /\ n[i].cid = cn[i].cid
                                 /\ n[i].srvOpen = cn[i].srvOpen
                                 /\ n[i].cliOpen = cn[i].cliOpen
                                 /\ n[i].toClient = cn[i].toClient
                                 /\ n[i].streams = cn[i].streams
             /\ c.state = Connected /\ c.fd \in Slots /\ cn[c.fd].srvOpen =>
                   n[c.fd].toServer = cn[c.fd].toServer \o SetToSeq(Removals(ss))
             /\ c.state # Connected => n = cn
  <1> DEFINE q == SetToSeq(Removals(ss))
  <1>1. q \in Seq(Request) BY RemovalMessages
  <1>2. CASE c.state = Connected
    <2>1. ToldOfRemoval(cn, c, ss) = Written(cn, c.fd, q)
      BY <1>2 DEF ToldOfRemoval, Removals
    <2> DEFINE n == Written(cn, c.fd, q)
    <2> HIDE DEF q
    <2>2. /\ n \in Connections
          /\ \A i \in Slots : i # c.fd => n[i] = cn[i]
          /\ \A i \in Slots : /\ n[i].inc = cn[i].inc
                              /\ n[i].cid = cn[i].cid
                              /\ n[i].srvOpen = cn[i].srvOpen
                              /\ n[i].cliOpen = cn[i].cliOpen
                              /\ n[i].toClient = cn[i].toClient
                              /\ n[i].streams = cn[i].streams
          /\ c.fd \in Slots /\ cn[c.fd].srvOpen => n[c.fd].toServer = cn[c.fd].toServer \o q
      BY <1>1, WrittenFields
    <2> HIDE DEF n
    <2> QED BY <1>2, <2>1, <2>2 DEF q, n
  <1>3. CASE c.state # Connected
    BY <1>3 DEF ToldOfRemoval
  <1> QED BY <1>2, <1>3

\* After the disconnect the client holds no connection open.
LEMMA DisconnectedConns ==
  ASSUME NEW cn \in Connections, NEW c \in ClientState, IsFiniteSet(c.streams), NEW s,
         Served(cn, s), Linked(cn, c.fd)
  PROVE  LET n == ConnsAfterDisconnect(cn, c)
         IN  /\ n \in Connections
             /\ Served(n, s)
             /\ \A i \in Slots : ~n[i].cliOpen
  <1> DEFINE t == ToldOfRemoval(cn, c, c.streams)
             n == ConnsAfterDisconnect(cn, c)
  <1>1. c.streams \subseteq Stream BY DEF ClientState
  <1>2. /\ t \in Connections
        /\ \A i \in Slots : i # c.fd => t[i] = cn[i]
        /\ \A i \in Slots : /\ t[i].inc = cn[i].inc
                            /\ t[i].cid = cn[i].cid
                            /\ t[i].srvOpen = cn[i].srvOpen
                            /\ t[i].cliOpen = cn[i].cliOpen
                            /\ t[i].toClient = cn[i].toClient
                            /\ t[i].streams = cn[i].streams
    BY <1>1, ToldFields
  <1>3. n = ClosedByClient(t, c.fd) BY DEF ConnsAfterDisconnect
  <1> HIDE DEF t, n
  <1>4. Served(t, s)
    <2>1. \A i \in Slots : Narrows(t[i], cn[i]) BY <1>2 DEF Narrows, Connections
    <2> QED BY <2>1, NarrowedConns
  <1>5. /\ n \in Connections
        /\ \A i \in Slots : i # c.fd => n[i] = t[i]
        /\ c.fd \in Slots => ~n[c.fd].cliOpen /\ Narrows(n[c.fd], t[c.fd])
    BY <1>2, <1>3, ClosedByClientFields
  <1>6. Served(n, s)
    <2>1. \A i \in Slots : Narrows(n[i], t[i])
      <3> TAKE i \in Slots
      <3>1. CASE i = c.fd BY <3>1, <1>5
      <3>2. CASE i # c.fd BY <3>2, <1>2, <1>5, SameNarrows DEF Connections
      <3> QED BY <3>1, <3>2
    <2> QED BY <1>4, <2>1, NarrowedConns
  <1>7. \A i \in Slots : ~n[i].cliOpen
    BY <1>2, <1>5 DEF Linked
  <1> QED BY <1>5, <1>6, <1>7 DEF n

\* What disconnect_transition_action leaves of the client.
LEMMA DisconnectedFields ==
  ASSUME NEW c \in ClientState
  PROVE  LET n == disconnect_transition_action(c)
         IN  /\ n \in ClientState
             /\ n.streams = {} /\ n.mapped = 0 /\ n.id = Unknown /\ n.fd = NoFd
             /\ ~n.event /\ n.next = c.next /\ n.todo = c.todo /\ n.loop = c.loop
             /\ n.state \in {WaitForSocket, Disconnected, ErrorDelay}
  <1> DEFINE no == FALSE
             unknown == Unknown
             st == IF c.state = Connected THEN WaitForSocket
                   ELSE IF c.state \in {ErrorDelay, Disconnected} THEN Disconnected
                   ELSE ErrorDelay
             n == [c EXCEPT !.streams = {}, !.mapped = 0, !.id = unknown, !.fd = NoFd,
                            !.event = no, !.missed = no, !.state = st]
  <1>1. disconnect_transition_action(c) = n BY DEF disconnect_transition_action
  <1>2. no \in BOOLEAN /\ unknown \in Ids /\ st \in {WaitForSocket, Disconnected, ErrorDelay}
    BY DEF Ids
  <1>3. 0 \in 0..MaxStarts BY ClientAssumption
  <1> HIDE DEF no, unknown, st
  <1>4. /\ n \in ClientState
        /\ n.streams = {} /\ n.mapped = 0 /\ n.id = unknown /\ n.fd = NoFd
        /\ n.event = no /\ n.next = c.next /\ n.todo = c.todo /\ n.loop = c.loop
        /\ n.state = st
    BY <1>2, <1>3 DEF ClientState
  <1> HIDE DEF n
  <1> QED BY <1>1, <1>2, <1>4 DEF no, unknown

\* Freed memory is zeroed, and only that of a server nobody uses.
LEMMA FreedFields ==
  ASSUME NEW mem \in Memories, NEW m, NEW users
  PROVE  /\ Freed(mem, m, users) \in Memories
         /\ \A i \in 1..MaxStarts : i # m \/ i \in users => Freed(mem, m, users)[i] = mem[i]
         /\ \A i \in 1..MaxStarts : Freed(mem, m, users)[i] \in {mem[i], Zeroed}
         /\ m \notin 1..MaxStarts => Freed(mem, m, users) = mem
  BY DEF Freed, Memory, Zeroed, Memories

\* The client gives its mapping up.
LEMMA UnmappedShm ==
  ASSUME Types, ServerOK(srv), ShmOK(shm, srv)
  PROVE  /\ Freed(shm, cl.mapped, Alive) \in Memories
         /\ ShmOK(Freed(shm, cl.mapped, Alive), srv)
  <1> DEFINE mem == Freed(shm, cl.mapped, Alive)
  <1>1. shm \in Memories /\ srv \in ServerState BY DEF Types
  <1>2. /\ mem \in Memories
        /\ \A i \in 1..MaxStarts : i \in Alive => mem[i] = shm[i]
        /\ \A i \in 1..MaxStarts : mem[i] \in {shm[i], Zeroed}
    BY <1>1, FreedFields
  <1>3. Zeroed.count % 2 = 0 /\ Zeroed.a = Zeroed.b BY DEF Zeroed
  <1>4. srv.phase # "down" => srv.inc \in 1..MaxStarts /\ mem[srv.inc] = shm[srv.inc]
    <2>1. srv.phase # "down" => srv.inc \in 1..MaxStarts
      BY <1>1, ClientAssumption DEF ServerState, ServerOK
    <2>2. srv.phase # "down" => srv.inc \in Alive BY DEF Alive
    <2> QED BY <2>1, <2>2, <1>2
  <1> HIDE DEF mem
  <1>5. ShmOK(mem, srv)
    <2>1. \A i \in 1..MaxStarts : RegionOK(mem[i], i, srv)
      <3>1. \A i \in 1..MaxStarts : RegionOK(Zeroed, i, srv) BY <1>3 DEF RegionOK
      <3> QED BY <3>1, <1>2 DEF ShmOK
    <2>2. srv.phase # "down" => UpdateOK(mem[srv.inc], srv.update)
      BY <1>4 DEF ShmOK
    <2> QED BY <2>1, <2>2 DEF ShmOK
  <1> QED BY <1>2, <1>5 DEF mem

\* Nothing of the client's memory is read while the write lock is held.
LEMMA IdleReads ==
  ASSUME NEW r, NEW mem, NEW m, r.at = "idle"
  PROVE  ReadOK(r, mem, m)
  BY DEF ReadOK

\* A step of the control thread that touches neither the connections nor the memory.
Keeps(d, c) ==
    /\ d \in ClientState
    /\ d.streams = c.streams /\ d.next = c.next /\ d.mapped = c.mapped
    /\ d.fd = c.fd \/ (d.fd \notin Slots /\ c.fd \notin Slots)
    /\ d.state = FirstMessage => c.state = FirstMessage

LEMMA ClientOnly ==
  ASSUME IInv, file' \in SocketFile, UNCHANGED <<srv, conns, rd, shm>>,
         Keeps(cl', cl), ClientOK(cl')
  PROVE  IInv'
  <1> USE DEF Keeps
  <1>1. Types' BY DEF IInv, Types
  <1>2. StreamsOK(cl') 
    BY DEF IInv, StreamsOK
  <1>3. Served(conns, srv)' BY DEF IInv, Served
  <1>4. Linked(conns', cl'.fd) BY DEF IInv, Linked
  <1>5. AllReported(conns', cl') BY DEF IInv, AllReported
  <1>6. ServerOK(srv)' /\ ShmOK(shm, srv)' /\ ReadOK(rd', shm', cl'.mapped)
    BY DEF IInv
  <1> QED BY <1>1, <1>2, <1>3, <1>4, <1>5, <1>6 DEF IInv

-----------------------------------------------------------------------------
\* What the control thread waits for moves from one state to another that has no connection.
Moved(d, c) ==
    /\ d \in ClientState
    /\ d.id = c.id /\ d.mapped = c.mapped /\ d.event = c.event /\ d.streams = c.streams
    /\ d.next = c.next

LEMMA MovedAway ==
  ASSUME NEW c \in ClientState, NEW d, Moved(d, c), ClientOK(c),
         c.state \notin {FirstMessage, Connected}, d.state \notin {FirstMessage, Connected},
         d.fd \notin Slots,
         d.fd = Timer => d.state = ErrorDelay /\ d.todo # "go",
         d.fd = Socket => d.state = WaitForWritable,
         d.state = ErrorDelay /\ d.todo = "none" => d.fd = Timer
  PROVE  ClientOK(d) /\ Keeps(d, c)
  BY DEF ClientOK, Moved, Keeps

\* The lemmas named after an action say that it preserves the invariant.
LEMMA error_delay_next_actionOK ==
  ASSUME IInv, error_delay_next_action PROVE IInv'
  <1> USE DEF error_delay_next_action, Goes
  <1>1. cl \in ClientState /\ ClientOK(cl) /\ file \in SocketFile BY DEF IInv, Types
  <1>2. cl.fd \notin Slots /\ cl.fd # Timer /\ cl.fd # Socket
    BY <1>1 DEF ClientOK, ErrorDelay, WaitForWritable, FirstMessage, Connected
  <1>3. CASE cl' = [cl EXCEPT !.fd = Timer, !.todo = "none"]
    <2>1. Moved(cl', cl) /\ cl'.fd = Timer /\ cl'.todo = "none" /\ cl'.state = cl.state
      BY <1>1, <1>3 DEF Moved, ClientState
    <2>2. ClientOK(cl') /\ Keeps(cl', cl)
      BY <1>1, <2>1, MovedAway, SlotsAreNat
        DEF ErrorDelay, WaitForWritable, FirstMessage, Connected, Timer, Socket
    <2> QED BY <1>1, <2>2, ClientOnly
  <1>4. CASE cl' = [cl EXCEPT !.todo = "hup"]
    <2>1. Moved(cl', cl) /\ cl'.fd = cl.fd /\ cl'.todo = "hup" /\ cl'.state = cl.state
      BY <1>1, <1>4 DEF Moved, ClientState
    <2>2. ClientOK(cl') /\ Keeps(cl', cl)
      BY <1>1, <1>2, <2>1, MovedAway DEF ErrorDelay, WaitForWritable, FirstMessage, Connected
    <2> QED BY <1>1, <2>2, ClientOnly
  <1> QED BY <1>3, <1>4

LEMMA TimerExpiresOK ==
  ASSUME IInv, TimerExpires PROVE IInv'
  <1> USE DEF TimerExpires
  <1>1. cl \in ClientState /\ ClientOK(cl) /\ file' \in SocketFile BY DEF IInv, Types
  <1>2. Moved(cl', cl) /\ cl'.fd = NoFd /\ cl'.todo = "go" /\ cl'.state = WaitForSocket
    BY <1>1 DEF Moved, ClientState
  <1>3. ClientOK(cl') /\ Keeps(cl', cl)
    <2>1. NoFd \notin Slots /\ NoFd # Timer /\ NoFd # Socket
      BY SlotsAreNat DEF NoFd, Timer, Socket
    <2>2. cl.state = ErrorDelay OBVIOUS
    <2> QED BY <1>1, <1>2, <2>1, <2>2, MovedAway
        DEF Disconnected, WaitForSocket, WaitForWritable, FirstMessage, Connected, ErrorDelay
  <1> QED BY <1>1, <1>3, ClientOnly

LEMMA wait_for_socket_next_actionOK ==
  ASSUME IInv, wait_for_socket_next_action PROVE IInv'
  <1> USE DEF wait_for_socket_next_action, Goes
  <1>1. cl \in ClientState /\ ClientOK(cl) /\ file' \in SocketFile BY DEF IInv, Types
  <1>2. cl.fd \notin Slots /\ cl.fd # Timer /\ cl.fd # Socket
    BY <1>1
      DEF ClientOK, Disconnected, WaitForSocket, WaitForWritable, FirstMessage, Connected,
          ErrorDelay
  <1>3. /\ Moved(cl', cl) /\ cl'.fd = cl.fd
        /\ cl'.state \in {WaitForSocket, WaitForWritable}
    <2>1. CASE cl.exists BY <1>1, <2>1 DEF Moved, ClientState
    <2>2. CASE ~cl.exists BY <1>1, <2>2 DEF Moved, ClientState
    <2> QED BY <2>1, <2>2
  <1>4. ClientOK(cl') /\ Keeps(cl', cl)
    BY <1>1, <1>2, <1>3, MovedAway
      DEF Disconnected, WaitForSocket, WaitForWritable, FirstMessage, Connected, ErrorDelay
  <1> QED BY <1>1, <1>4, ClientOnly

LEMMA NothingToDoOK ==
  ASSUME IInv, NothingToDo PROVE IInv'
  <1> USE DEF NothingToDo, Goes
  <1>1. cl \in ClientState /\ ClientOK(cl) /\ file' \in SocketFile BY DEF IInv, Types
  <1>2. /\ cl.state \in {Disconnected, WaitForWritable}
        /\ cl.fd \notin Slots /\ cl.fd # Timer /\ (cl.fd = Socket => cl.state = WaitForWritable)
    BY <1>1
      DEF ClientOK, Disconnected, WaitForSocket, WaitForWritable, FirstMessage, Connected,
          ErrorDelay
  <1>3. /\ Moved(cl', cl) /\ cl'.fd = cl.fd /\ cl'.state = cl.state
    BY <1>1 DEF Moved, ClientState
  <1>4. ClientOK(cl') /\ Keeps(cl', cl)
    BY <1>1, <1>2, <1>3, MovedAway
      DEF Disconnected, WaitForSocket, WaitForWritable, FirstMessage, Connected, ErrorDelay
  <1> QED BY <1>1, <1>4, ClientOnly

\* The loop or the record of the file changes, and nothing the connection depends on.
LEMMA Unmoved ==
  ASSUME NEW c \in ClientState, NEW d, Moved(d, c), ClientOK(c), d.fd = c.fd, d.state = c.state,
         d.todo = c.todo
  PROVE  ClientOK(d) /\ Keeps(d, c)
  BY DEF ClientOK, Moved, Keeps

LEMMA cras_client_run_threadOK ==
  ASSUME IInv, cras_client_run_thread PROVE IInv'
  <1> USE DEF cras_client_run_thread
  <1>1. cl \in ClientState /\ ClientOK(cl) /\ file' \in SocketFile BY DEF IInv, Types
  <1>2. Moved(cl', cl) /\ cl'.fd = cl.fd /\ cl'.todo = cl.todo /\ cl'.state = cl.state
    BY <1>1 DEF Moved, ClientState
  <1>3. ClientOK(cl') /\ Keeps(cl', cl)
    BY <1>1, <1>2, Unmoved
  <1> QED BY <1>1, <1>3, ClientOnly

\* The end of the loop changes nothing the connection depends on.
LEMMA AfterConnectFields ==
  ASSUME NEW c \in ClientState
  PROVE  /\ Moved(AfterConnect(c), c)
         /\ AfterConnect(c).fd = c.fd /\ AfterConnect(c).todo = c.todo
         /\ AfterConnect(c).state = c.state
  <1> DEFINE lp == IF c.running THEN "poll" ELSE "none"
  <1>1. lp \in {"none", "poll"} OBVIOUS
  <1>2. AfterConnect(c) = [c EXCEPT !.loop = lp] BY DEF AfterConnect
  <1> HIDE DEF lp
  <1> QED BY <1>1, <1>2 DEF Moved, ClientState

LEMMA ConnectGivesUpOK ==
  ASSUME IInv, ConnectGivesUp PROVE IInv'
  <1> USE DEF ConnectGivesUp
  <1>1. cl \in ClientState /\ ClientOK(cl) /\ file' \in SocketFile BY DEF IInv, Types
  <1>2. Moved(cl', cl) /\ cl'.fd = cl.fd /\ cl'.todo = cl.todo /\ cl'.state = cl.state
    BY <1>1, AfterConnectFields
  <1>3. ClientOK(cl') /\ Keeps(cl', cl)
    BY <1>1, <1>2, Unmoved
  <1> QED BY <1>1, <1>3, ClientOnly

\* Starting over from DISCONNECTED.
LEMMA server_connectFields ==
  ASSUME NEW c \in ClientState, ClientOK(c)
  PROVE  LET d == server_connect(c) IN Moved(d, c) /\ ClientOK(d) /\ Keeps(d, c)
  <1> DEFINE d == server_connect(c)
  <1>1. CASE c.state = Disconnected
    <2>1. d = [c EXCEPT !.state = WaitForSocket, !.todo = "go"] BY <1>1 DEF server_connect
    <2>2. Moved(d, c) /\ d.fd = c.fd /\ d.state = WaitForSocket
      BY <2>1 DEF Moved, ClientState
    <2>3. c.fd \notin Slots /\ c.fd # Timer /\ c.fd # Socket
      BY <1>1
        DEF ClientOK, Disconnected, WaitForSocket, WaitForWritable, FirstMessage, Connected,
            ErrorDelay
    <2> HIDE DEF d
    <2>4. ClientOK(d) /\ Keeps(d, c)
      BY <1>1, <2>2, <2>3, MovedAway
        DEF Disconnected, WaitForSocket, WaitForWritable, FirstMessage, Connected, ErrorDelay
    <2> QED BY <2>2, <2>4 DEF d
  <1>2. CASE c.state # Disconnected
    <2>1. d = c BY <1>2 DEF server_connect
    <2> QED BY <2>1 DEF Moved, Keeps
  <1> QED BY <1>1, <1>2

LEMMA cras_client_connect_asyncOK ==
  ASSUME IInv, cras_client_connect_async PROVE IInv'
  <1> USE DEF cras_client_connect_async
  <1>1. cl \in ClientState /\ ClientOK(cl) /\ file' \in SocketFile BY DEF IInv, Types
  <1>2. ClientOK(cl') /\ Keeps(cl', cl)
    BY <1>1, server_connectFields
  <1> QED BY <1>1, <1>2, ClientOnly

LEMMA connect_to_serverOK ==
  ASSUME IInv, connect_to_server PROVE IInv'
  <1> USE DEF connect_to_server
  <1> DEFINE d == server_connect(cl)
  <1>1. cl \in ClientState /\ ClientOK(cl) /\ file' \in SocketFile BY DEF IInv, Types
  <1>2. Moved(d, cl) /\ ClientOK(d) /\ Keeps(d, cl)
    BY <1>1, server_connectFields
  <1>3. cl' = [d EXCEPT !.loop = "connect"] OBVIOUS
  <1> HIDE DEF d
  <1>4. d \in ClientState BY <1>2 DEF Moved
  <1>5. Moved(cl', d) /\ cl'.fd = d.fd /\ cl'.todo = d.todo /\ cl'.state = d.state
    BY <1>3, <1>4 DEF Moved, ClientState
  <1>6. ClientOK(cl') /\ Keeps(cl', d)
    BY <1>2, <1>4, <1>5, Unmoved
  <1>7. Keeps(cl', cl) BY <1>2, <1>6, <1>5 DEF Keeps
  <1> QED BY <1>1, <1>6, <1>7, ClientOnly

\* The socket file appears.
LEMMA CreatedFields ==
  ASSUME NEW c \in ClientState, ClientOK(c)
  PROVE  ClientOK(Created(c)) /\ Keeps(Created(c), c)
  <1> DEFINE yes == TRUE
             td == IF c.state \in {WaitForSocket, WaitForWritable} THEN "go" ELSE c.todo
             d == [c EXCEPT !.exists = yes, !.todo = td]
  <1>1. Created(c) = d BY DEF Created
  <1>2. yes \in BOOLEAN OBVIOUS
  <1>3. td \in {"none", "go", "hup"} BY DEF ClientState
  <1> HIDE DEF yes, td
  <1>4. Moved(d, c) /\ d.fd = c.fd /\ d.state = c.state /\ d.todo = td
    BY <1>2, <1>3 DEF Moved, ClientState
  <1> HIDE DEF d
  <1>5. CASE c.state \in {WaitForSocket, WaitForWritable}
    <2>1. c.fd \notin Slots /\ c.fd # Timer /\ (c.fd = Socket => c.state = WaitForWritable)
      BY <1>5
        DEF ClientOK, Disconnected, WaitForSocket, WaitForWritable, FirstMessage, Connected,
            ErrorDelay
    <2> QED BY <1>1, <1>4, <1>5, <2>1, MovedAway
        DEF Disconnected, WaitForSocket, WaitForWritable, FirstMessage, Connected, ErrorDelay
  <1>6. CASE c.state \notin {WaitForSocket, WaitForWritable}
    <2>1. td = c.todo BY <1>6 DEF td
    <2> QED BY <1>1, <1>4, <2>1, Unmoved
  <1> QED BY <1>5, <1>6

\* The slot of a new connection is free.
LEMMA FirstFreeSlot ==
  ASSUME FreeSlots # {}
  PROVE  (CHOOSE j \in FreeSlots : \A k \in FreeSlots : j <= k) \in FreeSlots
  <1> DEFINE R == {p \in Nat \X Nat : p[1] < p[2]}
  <1>1. FreeSlots \subseteq Nat BY SlotsAreNat DEF FreeSlots
  <1>2. IsWellFoundedOn(R, Nat) BY NatLessThanWellFounded DEF OpToRel
  <1>3. PICK j \in FreeSlots : \A k \in FreeSlots : ~(<<k, j>> \in R)
    <2> HIDE DEF R
    <2> QED BY <1>1, <1>2, WFMin
  <1>4. ASSUME NEW k \in FreeSlots PROVE j <= k
    <2>1. <<k, j>> \in Nat \X Nat /\ ~(<<k, j>> \in R) BY <1>1, <1>3
    <2>2. ~(<<k, j>>[1] < <<k, j>>[2]) BY <2>1
    <2> QED BY <1>1, <2>2
  <1> QED BY <1>4

\* A new connection starts empty, and the client has no streams yet.
LEMMA ConnectSucceedsOK ==
  ASSUME IInv, cl.state = WaitForWritable, srv.phase = "up", FreeSlots # {}, ConnectSucceeds,
         UNCHANGED <<srv, file, rd, shm>>
  PROVE  IInv'
  <1> DEFINE i == CHOOSE j \in FreeSlots : \A k \in FreeSlots : j <= k
             yes == TRUE
             no == FALSE
             d == [NoConn EXCEPT !.inc = srv.inc, !.srvOpen = yes, !.cliOpen = yes]
  <1>1. cl' = [cl EXCEPT !.fd = i, !.state = FirstMessage, !.todo = "none", !.missed = no]
    BY DEF ConnectSucceeds
  <1>2. conns' = [conns EXCEPT ![i] = d]
    BY DEF ConnectSucceeds
  <1>3. i \in Slots /\ conns[i] = NoConn BY FirstFreeSlot DEF FreeSlots
  <1>4. yes \in BOOLEAN /\ no \in BOOLEAN /\ yes OBVIOUS
  <1> HIDE DEF i, yes, no
  <1>5. /\ cl \in ClientState /\ ClientOK(cl) /\ StreamsOK(cl) /\ conns \in Connections
        /\ srv \in ServerState /\ Served(conns, srv) /\ Linked(conns, cl.fd)
        /\ rd \in Reader /\ ReadOK(rd, shm, cl.mapped)
    BY DEF IInv, Types
  <1>6. /\ d \in Conn /\ d.inc = srv.inc /\ d.srvOpen = yes /\ d.cliOpen = yes
        /\ d.toClient = <<>> /\ d.toServer = <<>> /\ d.streams = {}
    <2>1. srv.inc \in 0..MaxStarts BY <1>5 DEF ServerState
    <2> QED BY <1>4, <2>1, FreeConnOK DEF Conn, NoConn
  <1> HIDE DEF d
  <1>7. /\ cl' \in ClientState /\ cl'.fd = i /\ cl'.state = FirstMessage /\ cl'.todo = "none"
        /\ cl'.id = cl.id /\ cl'.mapped = cl.mapped /\ cl'.event = cl.event
        /\ cl'.streams = cl.streams /\ cl'.next = cl.next
    BY <1>1, <1>3, <1>4, <1>5 DEF ClientState
  <1>8. cl.fd \notin Slots /\ cl.streams = {}
    BY <1>5
      DEF ClientOK, StreamsOK, Disconnected, WaitForSocket, WaitForWritable, FirstMessage,
          Connected, ErrorDelay
  <1>9. conns' \in Connections /\ conns'[i] = d /\ \A j \in Slots : j # i => conns'[j] = conns[j]
    BY <1>2, <1>3, <1>5, <1>6 DEF Connections
  <1>10. Types' BY <1>7, <1>9 DEF IInv, Types
  <1>11. ClientOK(cl')
    <2>1. i # Timer /\ i # Socket BY <1>3, SlotsAreNat
    <2>2. cl.event <=> cl.state = Connected BY <1>5 DEF ClientOK
    <2>3. cl.id = Unknown /\ cl.mapped = 0
      BY <1>5
        DEF ClientOK, Disconnected, WaitForSocket, WaitForWritable, FirstMessage, Connected,
            ErrorDelay
    <2> QED BY <1>3, <1>7, <2>1, <2>2, <2>3
        DEF ClientOK, Disconnected, WaitForSocket, WaitForWritable, FirstMessage, Connected,
            ErrorDelay
  <1>12. StreamsOK(cl') BY <1>7, <1>8 DEF StreamsOK
  <1>13. Served(conns', srv')
    <2>1. ConnOK(d, srv) BY <1>6 DEF ConnOK
    <2> QED BY <1>5, <1>9, <2>1 DEF Served
  <1>14. Linked(conns', cl'.fd)
    <2>1. \A j \in Slots : ~conns[j].cliOpen BY <1>5, <1>8 DEF Linked
    <2> QED BY <1>3, <1>4, <1>6, <1>7, <1>9, <2>1 DEF Linked
  <1>15. AllReported(conns', cl')
    <2>1. Reported(d, {}) BY <1>6 DEF Reported
    <2> QED BY <1>7, <1>8, <1>9, <2>1 DEF AllReported
  <1>16. ServerOK(srv') /\ ShmOK(shm', srv') /\ ReadOK(rd', shm', cl'.mapped)
    BY <1>7 DEF IInv
  <1> QED BY <1>10, <1>11, <1>12, <1>13, <1>14, <1>15, <1>16 DEF IInv

LEMMA wait_for_writable_next_actionOK ==
  ASSUME IInv, wait_for_writable_next_action PROVE IInv'
  <1> USE DEF wait_for_writable_next_action
  <1>1. cl \in ClientState /\ ClientOK(cl) /\ file' \in SocketFile BY DEF IInv, Types
  <1>2. cl.state = WaitForWritable BY DEF Goes
  <1>3. NoFd \notin Slots /\ NoFd # Timer /\ NoFd # Socket /\ Socket \notin Slots /\ Socket # Timer
    BY SlotsAreNat DEF NoFd, Timer, Socket
  <1>4. CASE srv.phase = "up" /\ FreeSlots # {} /\ ConnectSucceeds
    BY <1>2, <1>4, ConnectSucceedsOK
  <1>5. CASE ConnectAgain
    <2>1. Moved(cl', cl) /\ cl'.fd = Socket /\ cl'.state = cl.state
      BY <1>1, <1>5 DEF ConnectAgain, Moved, ClientState
    <2>2. ClientOK(cl') /\ Keeps(cl', cl)
      BY <1>1, <1>2, <1>3, <2>1, MovedAway
        DEF Disconnected, WaitForSocket, WaitForWritable, FirstMessage, Connected, ErrorDelay
    <2> QED BY <1>1, <1>5, <2>2, ClientOnly DEF ConnectAgain
  <1>6. CASE ConnectRefused
    <2> DEFINE ms == srv.phase # "down"
    <2>1. cl' = [cl EXCEPT !.fd = NoFd, !.todo = "none", !.missed = ms]
      BY <1>6 DEF ConnectRefused
    <2>2. ms \in BOOLEAN OBVIOUS
    <2> HIDE DEF ms
    <2>3. Moved(cl', cl) /\ cl'.fd = NoFd /\ cl'.state = cl.state
      BY <1>1, <2>1, <2>2 DEF Moved, ClientState
    <2>4. ClientOK(cl') /\ Keeps(cl', cl)
      BY <1>1, <1>2, <1>3, <2>3, MovedAway
        DEF Disconnected, WaitForSocket, WaitForWritable, FirstMessage, Connected, ErrorDelay
    <2> QED BY <1>1, <1>6, <2>4, ClientOnly DEF ConnectRefused
  <1>7. CASE ConnectError
    <2>1. Moved(cl', cl) /\ cl'.fd = Socket /\ cl'.state = cl.state
      BY <1>1, <1>7 DEF ConnectError, Moved, ClientState
    <2>2. ClientOK(cl') /\ Keeps(cl', cl)
      BY <1>1, <1>2, <1>3, <2>1, MovedAway
        DEF Disconnected, WaitForSocket, WaitForWritable, FirstMessage, Connected, ErrorDelay
    <2> QED BY <1>1, <1>7, <2>2, ClientOnly DEF ConnectError
  <1> QED BY <1>4, <1>5, <1>6, <1>7

\* A disconnect, however it came about.
LEMMA AfterHangUp ==
  ASSUME IInv, UNCHANGED <<srv, rd>>, file' \in SocketFile, rd.at = "idle",
         cl' \in ClientState, cl'.streams = {}, cl'.mapped = 0, cl'.id = Unknown,
         cl'.fd = NoFd, ~cl'.event, cl'.todo = "go",
         cl'.state \in {WaitForSocket, Disconnected, ErrorDelay},
         conns' \in Connections, Served(conns', srv), \A i \in Slots : ~conns'[i].cliOpen,
         shm' \in Memories, ShmOK(shm', srv)
  PROVE  IInv'
  <1>1. Types' BY FS_EmptySet DEF IInv, Types
  <1>2. ClientOK(cl')
    BY SlotsAreNat
      DEF ClientOK, NoFd, Timer, Socket, Disconnected, WaitForSocket, WaitForWritable,
          FirstMessage, Connected, ErrorDelay
  <1>3. StreamsOK(cl') BY DEF StreamsOK
  <1>4. Linked(conns', cl'.fd) /\ AllReported(conns', cl')
    BY SlotsAreNat DEF Linked, AllReported
  <1>5. ReadOK(rd', shm', cl'.mapped) BY IdleReads
  <1> QED BY <1>1, <1>2, <1>3, <1>4, <1>5 DEF IInv

LEMMA HangUpOK ==
  ASSUME IInv, HangUp PROVE IInv'
  <1> USE DEF HangUp
  <1> DEFINE d == disconnect_transition_action(cl)
  <1>1. /\ cl \in ClientState /\ IsFiniteSet(cl.streams) /\ conns \in Connections
        /\ Served(conns, srv) /\ Linked(conns, cl.fd) /\ ServerOK(srv) /\ ShmOK(shm, srv)
    BY DEF IInv, Types
  <1>2. /\ d \in ClientState
        /\ d.streams = {} /\ d.mapped = 0 /\ d.id = Unknown /\ d.fd = NoFd /\ ~d.event
        /\ d.state \in {WaitForSocket, Disconnected, ErrorDelay}
    BY <1>1, DisconnectedFields
  <1>3. cl' = [d EXCEPT !.todo = "go"] OBVIOUS
  <1> HIDE DEF d
  <1>4. /\ cl' \in ClientState /\ cl'.streams = {} /\ cl'.mapped = 0 /\ cl'.id = Unknown
        /\ cl'.fd = NoFd /\ cl'.event = d.event /\ cl'.todo = "go"
        /\ cl'.state \in {WaitForSocket, Disconnected, ErrorDelay}
    BY <1>2, <1>3 DEF ClientState
  <1>5. conns' \in Connections /\ Served(conns', srv) /\ \A i \in Slots : ~conns'[i].cliOpen
    BY <1>1, DisconnectedConns
  <1>6. shm' \in Memories /\ ShmOK(shm', srv)
    BY <1>1, UnmappedShm DEF IInv
  <1>7. rd.at = "idle" BY DEF MayHangUp, LockFree
  <1>8. file' \in SocketFile BY DEF IInv, Types
  <1> QED BY <1>2, <1>4, <1>5, <1>6, <1>7, <1>8, AfterHangUp

\* The socket file disappears under a client that wants a connection.
LEMMA DeletedOK ==
  ASSUME IInv, AtPoll, cl.state # Disconnected, LockFree, cl' = Deleted(cl),
         conns' = ConnsAfterDisconnect(conns, [cl EXCEPT !.state = Disconnected]),
         shm' = Freed(shm, cl.mapped, Alive), file' \in SocketFile, UNCHANGED <<srv, rd, faults>>
  PROVE  IInv'
  <1> DEFINE no == FALSE
             down == [cl EXCEPT !.exists = no, !.state = Disconnected]
             c == [cl EXCEPT !.state = Disconnected]
             d == disconnect_transition_action(down)
  <1>1. /\ cl \in ClientState /\ IsFiniteSet(cl.streams) /\ conns \in Connections
        /\ Served(conns, srv) /\ Linked(conns, cl.fd) /\ ServerOK(srv) /\ ShmOK(shm, srv)
    BY DEF IInv, Types
  <1>2. no \in BOOLEAN OBVIOUS
  <1>3. cl' = [d EXCEPT !.state = WaitForSocket, !.todo = "go"] BY DEF Deleted
  <1> HIDE DEF no
  <1>4. down \in ClientState BY <1>1, <1>2 DEF ClientState
  <1>5. c \in ClientState /\ c.streams = cl.streams /\ c.fd = cl.fd
    BY <1>1 DEF ClientState
  <1> HIDE DEF down
  <1>6. /\ d \in ClientState
        /\ d.streams = {} /\ d.mapped = 0 /\ d.id = Unknown /\ d.fd = NoFd /\ ~d.event
    BY <1>4, DisconnectedFields
  <1> HIDE DEF d
  <1>7. /\ cl' \in ClientState /\ cl'.streams = {} /\ cl'.mapped = 0 /\ cl'.id = Unknown
        /\ cl'.fd = NoFd /\ cl'.event = d.event /\ cl'.todo = "go"
        /\ cl'.state = WaitForSocket
    BY <1>3, <1>6 DEF ClientState
  <1>8. conns' \in Connections /\ Served(conns', srv) /\ \A i \in Slots : ~conns'[i].cliOpen
    <2>1. conns' = ConnsAfterDisconnect(conns, c) OBVIOUS
    <2> HIDE DEF c
    <2> QED BY <1>1, <1>5, <2>1, DisconnectedConns
  <1>9. shm' \in Memories /\ ShmOK(shm', srv)
    BY <1>1, UnmappedShm DEF IInv
  <1>10. rd.at = "idle" BY DEF LockFree
  <1> QED BY <1>6, <1>7, <1>8, <1>9, <1>10, AfterHangUp

LEMMA sock_file_wait_callbackOK ==
  ASSUME IInv, sock_file_wait_callback PROVE IInv'
  <1>1. /\ cl \in ClientState /\ ClientOK(cl) /\ file \in SocketFile /\ shm \in Memories
    BY DEF IInv, Types
  <1>2. file.events \in Seq({"created", "deleted"}) /\ file.events # <<>>
    BY <1>1 DEF SocketFile, sock_file_wait_callback
  <1>3. Head(file.events) \in {"created", "deleted"} /\ Tail(file.events) \in Seq({"created", "deleted"})
    BY <1>2
  <1>4. file' \in SocketFile
    <2> DEFINE t == Tail(file.events)
    <2>1. file' = [file EXCEPT !.events = t] BY DEF sock_file_wait_callback
    <2> HIDE DEF t
    <2>2. t \in Seq({"created", "deleted"}) BY <1>3 DEF t
    <2> QED BY <1>1, <2>1, <2>2 DEF SocketFile
  <1>5. CASE Head(file.events) = "created"
    <2>1. cl' = Created(cl) /\ UNCHANGED <<conns, shm, srv, rd>>
      BY <1>5 DEF sock_file_wait_callback
    <2>2. ClientOK(cl') /\ Keeps(cl', cl)
      BY <1>1, <2>1, CreatedFields
    <2> QED BY <1>4, <2>1, <2>2, ClientOnly
  <1>6. CASE Head(file.events) = "deleted" /\ cl.state # Disconnected
    <2>1. /\ AtPoll /\ LockFree /\ cl' = Deleted(cl) /\ UNCHANGED <<srv, rd, faults>>
          /\ conns' = ConnsAfterDisconnect(conns, [cl EXCEPT !.state = Disconnected])
          /\ shm' = Freed(shm, cl.mapped, Alive)
      BY <1>6 DEF sock_file_wait_callback
    <2> QED BY <1>4, <1>6, <2>1, DeletedOK
  <1>7. CASE Head(file.events) = "deleted" /\ cl.state = Disconnected
    <2> DEFINE no == FALSE
    <2>1. /\ cl' = [cl EXCEPT !.exists = no] /\ UNCHANGED <<srv, rd, conns>>
          /\ shm' = Freed(shm, cl.mapped, Alive)
      BY <1>7 DEF sock_file_wait_callback, Deleted
    <2>2. cl.mapped = 0
      BY <1>1, <1>7
        DEF ClientOK, Disconnected, WaitForSocket, WaitForWritable, FirstMessage, Connected,
            ErrorDelay
    <2>3. shm' = shm
      <3>1. cl.mapped \notin 1..MaxStarts BY <2>2
      <3> QED BY <1>1, <2>1, <3>1, FreedFields
    <2>4. no \in BOOLEAN OBVIOUS
    <2> HIDE DEF no
    <2>5. Moved(cl', cl) /\ cl'.fd = cl.fd /\ cl'.todo = cl.todo /\ cl'.state = cl.state
      BY <1>1, <2>1, <2>4 DEF Moved, ClientState
    <2>6. ClientOK(cl') /\ Keeps(cl', cl)
      BY <1>1, <2>5, Unmoved
    <2> QED BY <1>4, <2>1, <2>3, <2>6, ClientOnly
  <1> QED BY <1>3, <1>5, <1>6, <1>7

-----------------------------------------------------------------------------
\* A message is taken off the connection.
LEMMA ReceivedFields ==
  ASSUME NEW cn \in Connections, cl.fd \in Slots, cn[cl.fd].toClient # <<>>
  PROVE  LET n == Received(cn)
         IN  /\ n \in Connections
             /\ \A i \in Slots : i # cl.fd => n[i] = cn[i]
             /\ \A i \in Slots : /\ n[i].inc = cn[i].inc
                                 /\ n[i].srvOpen = cn[i].srvOpen
                                 /\ n[i].cliOpen = cn[i].cliOpen
                                 /\ n[i].toServer = cn[i].toServer
                                 /\ n[i].streams = cn[i].streams
                                 /\ Narrows(n[i], cn[i])
  <1> USE DEF Connections
  <1> DEFINE q == Tail(cn[cl.fd].toClient)
             d == [cn[cl.fd] EXCEPT !.toClient = q]
  <1>1. Received(cn) = [cn EXCEPT ![cl.fd] = d] BY DEF Received
  <1>2. q \in Seq(Reply)
    <2>1. cn[cl.fd].toClient \in Seq(Reply) BY DEF Conn
    <2> QED BY <2>1
  <1> HIDE DEF q
  <1>3. /\ d \in Conn /\ d.inc = cn[cl.fd].inc /\ d.cid = cn[cl.fd].cid
        /\ d.srvOpen = cn[cl.fd].srvOpen /\ d.cliOpen = cn[cl.fd].cliOpen
        /\ d.toServer = cn[cl.fd].toServer /\ d.streams = cn[cl.fd].streams
    BY <1>2 DEF Conn
  <1> HIDE DEF d
  <1>4. Narrows(d, cn[cl.fd]) BY <1>3 DEF Narrows
  <1> QED BY <1>1, <1>3, <1>4, SameNarrows

\* What a connection owes the client depends on its requests and its streams only.
LEMMA SameReported ==
  ASSUME NEW c, NEW d, NEW ss, NEW tt, Reported(c, ss), d.streams = c.streams,
         d.toServer = c.toServer, \A id : Listed(ss, id) => Listed(tt, id)
  PROVE  Reported(d, tt)
  BY DEF Reported

\* A message was handled; the list of streams names no fewer ids than before.
LEMMA AfterReceive ==
  ASSUME IInv, cl.fd \in Slots, conns[cl.fd].toClient # <<>>, conns' = Received(conns),
         UNCHANGED <<srv, file, shm, rd>>,
         cl' \in ClientState, ClientOK(cl'), StreamsOK(cl'), IsFiniteSet(cl'.streams),
         cl'.fd = cl.fd,
         \A id : Listed(cl.streams, id) => Listed(cl'.streams, id),
         ReadOK(rd, shm, cl'.mapped)
  PROVE  IInv'
  <1>1. conns \in Connections /\ Served(conns, srv) /\ Linked(conns, cl.fd)
    BY DEF IInv, Types
  <1>2. /\ conns' \in Connections
        /\ \A i \in Slots : /\ conns'[i].srvOpen = conns[i].srvOpen
                            /\ conns'[i].cliOpen = conns[i].cliOpen
                            /\ conns'[i].toServer = conns[i].toServer
                            /\ conns'[i].streams = conns[i].streams
                            /\ Narrows(conns'[i], conns[i])
    BY <1>1, ReceivedFields
  <1>3. Types' BY <1>2 DEF IInv, Types
  <1>4. Served(conns', srv') BY <1>1, <1>2, NarrowedConns
  <1>5. Linked(conns', cl'.fd) BY <1>1, <1>2 DEF Linked
  <1>6. AllReported(conns', cl')
    <2> SUFFICES ASSUME conns'[cl.fd].srvOpen PROVE Reported(conns'[cl.fd], cl'.streams)
      BY DEF AllReported
    <2>1. Reported(conns[cl.fd], cl.streams) BY <1>2 DEF IInv, AllReported
    <2> QED BY <1>2, <2>1, SameReported
  <1> QED BY <1>3, <1>4, <1>5, <1>6 DEF IInv

LEMMA first_message_next_actionOK ==
  ASSUME IInv, first_message_next_action PROVE IInv'
  <1> DEFINE conn == conns[cl.fd]
             at == [client_attach_shm(cl, conn.inc) EXCEPT !.id = conn.cid]
  <1>1. /\ cl \in ClientState /\ ClientOK(cl) /\ StreamsOK(cl) /\ IsFiniteSet(cl.streams)
        /\ conns \in Connections /\ Served(conns, srv) /\ ServerOK(srv) /\ srv \in ServerState
    BY DEF IInv, Types
  <1>2. /\ cl.state = FirstMessage /\ cl.todo = "none" /\ cl.fd \in Slots /\ conns[cl.fd].srvOpen
        /\ conns[cl.fd].toClient # <<>>
        /\ conns' = Received(conns) /\ UNCHANGED <<srv, file, rd, shm>>
    BY DEF first_message_next_action, MessageWaits, AtPoll
  <1>3. conn \in Conn BY <1>1, <1>2 DEF Connections
  <1>4. conn.cid \in Ids /\ conn.cid # Unknown /\ conn.inc \in 1..MaxStarts
    <2>1. conn.inc \in 0..MaxStarts /\ conn.cid \in Ids BY <1>3 DEF Conn
    <2>2. ConnOK(conn, srv) BY <1>1, <1>2 DEF Served
    <2>3. conn.inc # 0 /\ conn.cid # Unknown BY <1>1, <1>2, <2>2 DEF ConnOK, ServerOK
    <2> QED BY <2>1, <2>3, ClientAssumption
  <1>5. /\ at \in ClientState /\ at.mapped = conn.inc /\ at.id = conn.cid /\ at.fd = cl.fd
        /\ at.state = cl.state /\ at.todo = cl.todo /\ at.event = cl.event
        /\ at.streams = cl.streams /\ at.next = cl.next
    <2>1. at = [[cl EXCEPT !.mapped = conn.inc] EXCEPT !.id = conn.cid] BY DEF client_attach_shm
    <2> DEFINE m == conn.inc
               k == conn.cid
    <2>2. m \in 0..MaxStarts /\ k \in Ids BY <1>4, ClientAssumption
    <2> HIDE DEF conn, at, m, k
    <2>3. at = [[cl EXCEPT !.mapped = m] EXCEPT !.id = k] BY <2>1 DEF m, k
    <2>4. /\ at \in ClientState /\ at.mapped = m /\ at.id = k /\ at.fd = cl.fd
          /\ at.state = cl.state /\ at.todo = cl.todo /\ at.event = cl.event
          /\ at.streams = cl.streams /\ at.next = cl.next
      BY <1>1, <2>2, <2>3 DEF ClientState
    <2> QED BY <2>4 DEF m, k
  <1> HIDE DEF conn
  <1>6. \/ /\ rd.at = "idle"
           /\ \/ cl' = connect_transition_action(at)
              \/ \E m \in {0, MapFailed} : cl' = [client_attach_shm(cl, m) EXCEPT !.todo = "hup"]
              \/ cl' = [at EXCEPT !.todo = "hup"]
        \/ cl' = [cl EXCEPT !.todo = "hup"]
    BY DEF first_message_next_action, conn, LockFree
  <1> HIDE DEF at
  <1>a. CASE cl' = [cl EXCEPT !.todo = "hup"]
    <2>1. /\ cl' \in ClientState /\ cl'.fd = cl.fd /\ cl'.id = cl.id /\ cl'.state = cl.state
          /\ cl'.todo = "hup" /\ cl'.event = cl.event /\ cl'.streams = cl.streams
          /\ cl'.next = cl.next /\ cl'.mapped = cl.mapped
      BY <1>1, <1>a DEF ClientState
    <2>2. ClientOK(cl')
      BY <1>1, <1>2, <2>1, SlotsAreNat
        DEF ClientOK, Disconnected, WaitForSocket, WaitForWritable, FirstMessage, Connected,
            ErrorDelay
    <2>3. StreamsOK(cl') BY <1>1, <2>1 DEF StreamsOK
    <2>4. ReadOK(rd, shm, cl'.mapped) BY <2>1 DEF IInv
    <2> QED BY <1>1, <1>2, <2>1, <2>2, <2>3, <2>4, AfterReceive
  <1>b. CASE rd.at # "idle" BY <1>6, <1>a, <1>b
  <1>7. SUFFICES ASSUME rd.at = "idle", cl' # [cl EXCEPT !.todo = "hup"]
                 PROVE  /\ cl' \in ClientState /\ ClientOK(cl') /\ StreamsOK(cl')
                        /\ cl'.streams = cl.streams /\ cl'.fd = cl.fd
    <2>1. CASE rd.at = "idle" /\ cl' # [cl EXCEPT !.todo = "hup"]
      <3>1. ReadOK(rd, shm, cl'.mapped) BY <2>1, IdleReads
      <3> QED BY <1>1, <1>2, <1>7, <2>1, <3>1, AfterReceive
    <2> QED BY <1>a, <1>b, <2>1
  <1>8. CASE cl' = connect_transition_action(at)
    <2> DEFINE yes == TRUE
               c == [at EXCEPT !.state = Connected, !.event = yes]
    <2>1. cl' = AfterConnect(c) BY <1>8 DEF connect_transition_action
    <2>2. yes \in BOOLEAN /\ yes OBVIOUS
    <2> HIDE DEF yes
    <2>3. /\ c \in ClientState /\ c.mapped = at.mapped /\ c.id = at.id /\ c.fd = at.fd
          /\ c.state = Connected /\ c.todo = at.todo /\ c.event = yes
          /\ c.streams = at.streams /\ c.next = at.next
      BY <1>5, <2>2 DEF ClientState
    <2> HIDE DEF c
    <2>4. /\ Moved(cl', c) /\ cl'.fd = c.fd /\ cl'.todo = c.todo /\ cl'.state = c.state
      BY <2>1, <2>3, AfterConnectFields
    <2>5. /\ cl' \in ClientState /\ cl'.mapped = conn.inc /\ cl'.id = conn.cid /\ cl'.fd = cl.fd
          /\ cl'.state = Connected /\ cl'.todo = "none" /\ cl'.event
          /\ cl'.streams = cl.streams /\ cl'.next = cl.next
      BY <1>2, <1>5, <2>2, <2>3, <2>4 DEF Moved
    <2>6. ClientOK(cl')
      BY <1>2, <1>4, <2>5, SlotsAreNat
        DEF ClientOK, Disconnected, WaitForSocket, WaitForWritable, FirstMessage, Connected,
            ErrorDelay
    <2>7. StreamsOK(cl')
      BY <1>1, <2>5 DEF StreamsOK, FirstMessage, Connected
    <2> QED BY <2>5, <2>6, <2>7
  <1>9. ASSUME NEW m \in {0, MapFailed}, cl' = [client_attach_shm(cl, m) EXCEPT !.todo = "hup"]
        PROVE  /\ cl' \in ClientState /\ ClientOK(cl') /\ StreamsOK(cl')
               /\ cl'.streams = cl.streams /\ cl'.fd = cl.fd
    <2>1. cl' = [[cl EXCEPT !.mapped = m] EXCEPT !.todo = "hup"] BY <1>9 DEF client_attach_shm
    <2>2. m \in 0..MaxStarts \cup {MapFailed} BY <1>9, ClientAssumption
    <2>3. /\ cl' \in ClientState /\ cl'.fd = cl.fd /\ cl'.id = cl.id /\ cl'.state = cl.state
          /\ cl'.todo = "hup" /\ cl'.event = cl.event /\ cl'.streams = cl.streams
          /\ cl'.next = cl.next
      BY <1>1, <2>1, <2>2 DEF ClientState
    <2>4. ClientOK(cl')
      BY <1>1, <1>2, <2>3, SlotsAreNat
        DEF ClientOK, Disconnected, WaitForSocket, WaitForWritable, FirstMessage, Connected,
            ErrorDelay
    <2>5. StreamsOK(cl') BY <1>1, <2>3 DEF StreamsOK
    <2> QED BY <2>3, <2>4, <2>5
  <1>10. CASE cl' = [at EXCEPT !.todo = "hup"]
    <2>3. /\ cl' \in ClientState /\ cl'.fd = cl.fd /\ cl'.state = cl.state
          /\ cl'.todo = "hup" /\ cl'.event = cl.event /\ cl'.streams = cl.streams
          /\ cl'.next = cl.next
      BY <1>5, <1>10 DEF ClientState
    <2>4. ClientOK(cl')
      BY <1>1, <1>2, <2>3, SlotsAreNat
        DEF ClientOK, Disconnected, WaitForSocket, WaitForWritable, FirstMessage, Connected,
            ErrorDelay
    <2>5. StreamsOK(cl') BY <1>1, <2>3 DEF StreamsOK
    <2> QED BY <2>3, <2>4, <2>5
  <1> QED BY <1>6, <1>7, <1>8, <1>9, <1>10

LEMMA handle_message_from_serverOK ==
  ASSUME IInv, handle_message_from_server PROVE IInv'
  <1> DEFINE msg == Head(conns[cl.fd].toClient)
             mine == StreamOf(cl, msg.id)
  <1>1. /\ cl \in ClientState /\ ClientOK(cl) /\ StreamsOK(cl) /\ IsFiniteSet(cl.streams)
        /\ ReadOK(rd, shm, cl.mapped) /\ cl.streams \subseteq Stream
    BY DEF IInv, Types, ClientState
  <1>2. /\ cl.state = Connected /\ cl.fd \in Slots /\ conns[cl.fd].toClient # <<>>
        /\ conns' = Received(conns) /\ UNCHANGED <<srv, file, rd, shm>>
    BY DEF handle_message_from_server, MessageWaits
  <1>3. mine \subseteq cl.streams /\ \A s \in mine : s.id = msg.id BY DEF StreamOf
  <1>4. \/ \E td \in {"none", "hup"} : cl' = [cl EXCEPT !.todo = td]
        \/ \E s \in mine, ok \in {msg.ok, FALSE} :
              cl' = [cl EXCEPT !.streams = (@ \ mine) \cup {stream_connected(s, ok)}]
    <2> DEFINE td == IF msg.ok THEN "none" ELSE "hup"
    <2>1. td \in {"none", "hup"} OBVIOUS
    <2>2. \/ cl' = [cl EXCEPT !.todo = td]
          \/ \E s \in mine, ok \in {msg.ok, FALSE} :
                cl' = [cl EXCEPT !.streams = (@ \ mine) \cup {stream_connected(s, ok)}]
      BY DEF handle_message_from_server
    <2> QED BY <2>1, <2>2
  <1> HIDE DEF mine, msg
  <1>5. ASSUME NEW td \in {"none", "hup"}, cl' = [cl EXCEPT !.todo = td] PROVE IInv'
    <2>1. /\ cl' \in ClientState /\ cl'.fd = cl.fd /\ cl'.state = cl.state /\ cl'.mapped = cl.mapped
          /\ cl'.event = cl.event /\ cl'.streams = cl.streams /\ cl'.todo = td
          /\ cl'.next = cl.next /\ cl'.id = cl.id
      BY <1>1, <1>5 DEF ClientState
    <2>2. ClientOK(cl')
      BY <1>1, <1>2, <2>1, SlotsAreNat
        DEF ClientOK, Disconnected, WaitForSocket, WaitForWritable, FirstMessage, Connected,
            ErrorDelay
    <2>3. StreamsOK(cl') BY <1>1, <2>1 DEF StreamsOK
    <2> QED BY <1>1, <1>2, <2>1, <2>2, <2>3, AfterReceive
  <1>6. ASSUME NEW s \in mine, NEW ok,
               cl' = [cl EXCEPT !.streams = (@ \ mine) \cup {stream_connected(s, ok)}]
        PROVE  IInv'
    <2> DEFINE t == stream_connected(s, ok)
               ss == (cl.streams \ mine) \cup {t}
               th == IF ok THEN "running" ELSE "stopped"
    <2>1. t \in Stream /\ t.id = s.id /\ t.conn = s.conn
      <3>1. th \in {"running", "stopped"} OBVIOUS
      <3>2. t = [s EXCEPT !.thread = th] BY DEF stream_connected
      <3>3. s \in Stream BY <1>1, <1>3, <1>6
      <3> HIDE DEF th, t
      <3> QED BY <3>1, <3>2, <3>3 DEF Stream
    <2>2. cl' = [cl EXCEPT !.streams = ss] BY <1>6
    <2> HIDE DEF t
    <2>3. ss \subseteq Stream /\ IsFiniteSet(ss)
      <3>1. IsFiniteSet(cl.streams \ mine) BY <1>1, FS_Subset
      <3>2. IsFiniteSet(ss) BY <3>1, FS_AddElement
      <3> QED BY <1>1, <2>1, <3>2
    <2>4. \A id : Listed(cl.streams, id) => Listed(ss, id)
      BY <1>3, <1>6, <2>1 DEF Listed
    <2>5. \A u \in ss : \E v \in cl.streams : u.id = v.id /\ u.conn = v.conn
      BY <1>3, <2>1
    <2> HIDE DEF ss
    <2>6. /\ cl' \in ClientState /\ cl'.fd = cl.fd /\ cl'.state = cl.state /\ cl'.mapped = cl.mapped
          /\ cl'.event = cl.event /\ cl'.streams = ss /\ cl'.todo = cl.todo
          /\ cl'.next = cl.next /\ cl'.id = cl.id
      BY <1>1, <2>2, <2>3 DEF ClientState
    <2>7. ClientOK(cl') BY <1>1, <2>6 DEF ClientOK
    <2>8. StreamsOK(cl') BY <1>1, <2>5, <2>6 DEF StreamsOK
    <2> QED BY <1>1, <1>2, <2>3, <2>4, <2>6, <2>7, <2>8, AfterReceive
  <1> QED BY <1>4, <1>5, <1>6

-----------------------------------------------------------------------------
\* Writing keeps the promise of Reported, if what is taken off the list is
\* written as a removal and what is asked for is listed.
LEMMA ReportedAppend ==
  ASSUME NEW c \in Conn, NEW d \in Conn, NEW ss, NEW tt, NEW q \in Seq(Request),
         Reported(c, ss), d.streams = c.streams, d.toServer = c.toServer \o q,
         \A id \in c.streams : id.client # Unknown,
         \A id : Listed(ss, id) /\ id.client # Unknown =>
             Listed(tt, id) \/ \E k \in 1..Len(q) : q[k] = Removal(id),
         \A k \in 1..Len(q) : q[k].type = "connect" => Listed(tt, q[k].id)
  PROVE  Reported(d, tt)
  <1> DEFINE p == c.toServer
             r == d.toServer
             m == Len(p)
             n == Len(q)
  <1>1. p \in Seq(Request) /\ r = p \o q BY DEF Conn
  <1>2. /\ m \in Nat /\ n \in Nat /\ Len(r) = m + n
        /\ \A k \in 1..m : r[k] = p[k]
        /\ \A k \in 1..n : r[m + k] = q[k]
    BY <1>1
  <1>3. /\ \A id \in c.streams : Listed(ss, id) \/ \E k \in 1..m : p[k] = Removal(id)
        /\ \A k \in 1..m : p[k].type = "connect" /\ p[k].id.client # Unknown =>
              \/ Listed(ss, p[k].id)
              \/ \E j \in 1..m : j > k /\ p[j] = Removal(p[k].id)
    BY DEF Reported
  <1> HIDE DEF p, r, m, n
  <1>4. \A k \in 1..m : k \in 1..(m + n)
    BY <1>2
  <1>5. \A k \in 1..n : m + k \in 1..(m + n) /\ \A j \in 1..m : m + k > j
    BY <1>2
  <1>6. \A id : Listed(ss, id) /\ id.client # Unknown =>
            Listed(tt, id) \/ \E k \in 1..n : q[k] = Removal(id)
    BY DEF n
  <1>7. ASSUME NEW id \in d.streams
        PROVE  Listed(tt, id) \/ \E k \in 1..(m + n) : r[k] = Removal(id)
    <2>1. id \in c.streams /\ id.client # Unknown OBVIOUS
    <2>2. CASE Listed(ss, id)
      BY <1>2, <1>5, <1>6, <2>1, <2>2
    <2>3. CASE \E k \in 1..m : p[k] = Removal(id)
      BY <1>2, <1>4, <2>3
    <2> QED BY <1>3, <2>1, <2>2, <2>3
  <1>8. ASSUME NEW k \in 1..(m + n), r[k].type = "connect", r[k].id.client # Unknown
        PROVE  \/ Listed(tt, r[k].id)
               \/ \E j \in 1..(m + n) : j > k /\ r[j] = Removal(r[k].id)
    <2>1. CASE k \in 1..m
      <3>1. r[k] = p[k] BY <1>2, <2>1
      <3>2. CASE Listed(ss, p[k].id)
        <4>1. CASE Listed(tt, p[k].id) BY <3>1, <4>1
        <4>2. CASE \E j \in 1..n : q[j] = Removal(p[k].id)
          <5>1. PICK j \in 1..n : q[j] = Removal(p[k].id) BY <4>2
          <5>2. r[m + j] = Removal(r[k].id) BY <1>2, <3>1, <5>1
          <5>3. m + j \in 1..(m + n) /\ m + j > k BY <1>5, <2>1
          <5> QED BY <5>2, <5>3
        <4> QED BY <1>6, <1>8, <3>1, <3>2, <4>1, <4>2
      <3>3. CASE \E j \in 1..m : j > k /\ p[j] = Removal(p[k].id)
        BY <1>2, <1>4, <3>1, <3>3
      <3> QED BY <1>3, <1>8, <2>1, <3>1, <3>2, <3>3
    <2>2. CASE k \notin 1..m
      <3>1. k - m \in 1..n /\ r[k] = q[k - m]
        <4>1. k - m \in 1..n /\ m + (k - m) = k BY <1>2, <2>2
        <4> QED BY <1>2, <4>1
      <3>2. \A j \in 1..n : q[j].type = "connect" => Listed(tt, q[j].id) BY DEF n
      <3> QED BY <1>8, <3>1, <3>2
    <2> QED BY <2>1, <2>2
  <1>9. Len(d.toServer) = m + n BY <1>2 DEF r
  <1> QED BY <1>7, <1>8, <1>9 DEF Reported, r

\* The server runs no stream without an id.
LEMMA ServedIds ==
  ASSUME NEW c, NEW s, ConnOK(c, s)
  PROVE  \A id \in c.streams : id.client # Unknown
  BY DEF ConnOK

\* A command that writes q to the connection and lists the streams ss.
LEMMA AfterWrite ==
  ASSUME IInv, NEW q \in Seq(Request), UNCHANGED <<srv, file, rd, shm>>,
         cl' \in ClientState, IsFiniteSet(cl'.streams), ClientOK(cl'), StreamsOK(cl'),
         cl'.fd = cl.fd, cl'.mapped = cl.mapped,
         conns' \in Connections,
         \A i \in Slots : /\ conns'[i].inc = conns[i].inc
                          /\ conns'[i].cid = conns[i].cid
                          /\ conns'[i].srvOpen = conns[i].srvOpen
                          /\ conns'[i].cliOpen = conns[i].cliOpen
                          /\ conns'[i].toClient = conns[i].toClient
                          /\ conns'[i].streams = conns[i].streams,
         cl.fd \in Slots /\ conns[cl.fd].srvOpen =>
             /\ conns'[cl.fd].toServer = conns[cl.fd].toServer \o q
             /\ \A id : Listed(cl.streams, id) /\ id.client # Unknown =>
                   Listed(cl'.streams, id) \/ \E k \in 1..Len(q) : q[k] = Removal(id)
             /\ \A k \in 1..Len(q) : q[k].type = "connect" => Listed(cl'.streams, q[k].id)
  PROVE  IInv'
  <1>1. conns \in Connections /\ Served(conns, srv) /\ Linked(conns, cl.fd)
    BY DEF IInv, Types
  <1>2. Types' BY DEF IInv, Types
  <1>3. Served(conns', srv')
    <2>1. \A i \in Slots : Narrows(conns'[i], conns[i]) BY DEF Narrows, Connections
    <2> QED BY <1>1, <2>1, NarrowedConns
  <1>4. Linked(conns', cl'.fd) BY <1>1 DEF Linked
  <1>5. AllReported(conns', cl')
    <2> SUFFICES ASSUME cl.fd \in Slots, conns'[cl.fd].srvOpen
                 PROVE  Reported(conns'[cl.fd], cl'.streams)
      BY DEF AllReported
    <2> DEFINE c == conns[cl.fd]
               d == conns'[cl.fd]
               ss == cl.streams
               tt == cl'.streams
    <2>1. c \in Conn /\ d \in Conn BY <1>1 DEF Connections
    <2>2. conns[cl.fd].srvOpen OBVIOUS
    <2>3. Reported(c, ss) BY <2>2 DEF IInv, AllReported
    <2>4. \A id \in c.streams : id.client # Unknown
      BY <1>1, ServedIds DEF Served
    <2>5. /\ d.streams = c.streams /\ d.toServer = c.toServer \o q
          /\ \A id : Listed(ss, id) /\ id.client # Unknown =>
                Listed(tt, id) \/ \E k \in 1..Len(q) : q[k] = Removal(id)
          /\ \A k \in 1..Len(q) : q[k].type = "connect" => Listed(tt, q[k].id)
      BY <2>2
    <2> HIDE DEF c, d, ss, tt
    <2>6. Reported(d, tt) BY <2>1, <2>3, <2>4, <2>5, ReportedAppend
    <2> QED BY <2>6 DEF d, tt
  <1>6. ServerOK(srv') /\ ShmOK(shm', srv') /\ ReadOK(rd', shm', cl'.mapped)
    BY DEF IInv
  <1> QED BY <1>2, <1>3, <1>4, <1>5, <1>6 DEF IInv

LEMMA cras_client_add_streamOK ==
  ASSUME IInv, cras_client_add_stream PROVE IInv'
  <1> DEFINE id == [client |-> cl.id, n |-> cl.next]
             stream == [id |-> id, thread |-> "warmup", conn |-> cl.fd]
             msg == [type |-> "connect", id |-> id]
             q == <<msg>>
             ss == IF Live(conns, cl.fd) THEN cl.streams \cup {stream} ELSE cl.streams
             nx == cl.next + 1
  <1>1. /\ cl \in ClientState /\ ClientOK(cl) /\ StreamsOK(cl) /\ IsFiniteSet(cl.streams)
        /\ conns \in Connections /\ cl.streams \subseteq Stream /\ cl.next \in Nat
        /\ cl.id \in Ids
    BY DEF IInv, Types, ClientState
  <1>2. cl.todo = "none" /\ UNCHANGED <<srv, file, rd, shm>>
    BY DEF cras_client_add_stream, CommandWaits, AtPoll
  <1>3. cl' = [cl EXCEPT !.next = nx, !.streams = ss]
    BY DEF cras_client_add_stream, client_thread_add_stream
  <1>4. conns' = Written(conns, cl.fd, q)
    BY DEF cras_client_add_stream, client_thread_add_stream, send_connect_message
  <1>5. id \in StreamId /\ id.client = cl.id /\ id.n = cl.next BY <1>1 DEF StreamId
  <1> HIDE DEF id
  <1>6. stream.id = id /\ stream.conn = cl.fd /\ (cl.fd \in Slots => stream \in Stream)
    BY <1>5 DEF Stream
  <1>7. msg \in Request /\ msg.type = "connect" /\ msg.id = id BY <1>5 DEF Request
  <1> HIDE DEF stream, msg
  <1>8. /\ q \in Seq(Request) /\ \A k \in 1..Len(q) : q[k] = msg
    BY <1>7
  <1>9. /\ ss \subseteq Stream /\ IsFiniteSet(ss) /\ cl.streams \subseteq ss
        /\ \A s \in ss : s \in cl.streams \/ (s = stream /\ cl.fd \in Slots)
        /\ cl.fd \in Slots /\ conns[cl.fd].srvOpen => stream \in ss
    <2>1. CASE Live(conns, cl.fd)
      <3>1. cl.fd \in Slots BY <2>1 DEF Live
      <3>2. ss = cl.streams \cup {stream} BY <2>1
      <3> HIDE DEF ss
      <3>3. IsFiniteSet(ss) BY <1>1, <3>2, FS_AddElement
      <3> QED BY <1>1, <1>6, <3>1, <3>2, <3>3
    <2>2. CASE ~Live(conns, cl.fd)
      BY <1>1, <2>2 DEF Live
    <2> QED BY <2>1, <2>2
  <1> HIDE DEF q, ss, nx
  <1>10. /\ cl' \in ClientState /\ cl'.streams = ss /\ cl'.next = cl.next + 1 /\ cl'.fd = cl.fd
         /\ cl'.id = cl.id /\ cl'.mapped = cl.mapped /\ cl'.event = cl.event
         /\ cl'.todo = cl.todo
         /\ cl'.state = cl.state
    <2>1. nx \in Nat /\ nx = cl.next + 1 BY <1>1 DEF nx
    <2> QED BY <1>1, <1>3, <1>9, <2>1 DEF ClientState
  <1>11. ClientOK(cl') BY <1>1, <1>10 DEF ClientOK
  <1>12. StreamsOK(cl')
    <2> SUFFICES ASSUME NEW s \in ss
                 PROVE  /\ s.conn = cl.fd /\ cl.fd \in Slots /\ s.id.n < cl.next + 1
                        /\ cl.state = FirstMessage => s.id.client = Unknown
      BY <1>10 DEF StreamsOK
    <2>1. CASE s \in cl.streams
      <3>1. s.id.n \in Nat BY <1>1, <2>1 DEF Stream, StreamId
      <3> QED BY <1>1, <2>1, <3>1 DEF StreamsOK
    <2>2. CASE s = stream /\ cl.fd \in Slots
      <3>1. cl.state = FirstMessage => cl.id = Unknown BY <1>1, <1>2 DEF ClientOK
      <3> QED BY <1>1, <1>5, <1>6, <2>2, <3>1
    <2> QED BY <1>9, <2>1, <2>2
  <1>13. /\ conns' \in Connections
         /\ \A i \in Slots : /\ conns'[i].inc = conns[i].inc
                             /\ conns'[i].cid = conns[i].cid
                             /\ conns'[i].srvOpen = conns[i].srvOpen
                             /\ conns'[i].cliOpen = conns[i].cliOpen
                             /\ conns'[i].toClient = conns[i].toClient
                             /\ conns'[i].streams = conns[i].streams
         /\ cl.fd \in Slots /\ conns[cl.fd].srvOpen =>
               conns'[cl.fd].toServer = conns[cl.fd].toServer \o q
    <2> DEFINE fd == cl.fd
               n == Written(conns, fd, q)
    <2>1. /\ n \in Connections
          /\ \A i \in Slots : /\ n[i].inc = conns[i].inc
                              /\ n[i].cid = conns[i].cid
                              /\ n[i].srvOpen = conns[i].srvOpen
                              /\ n[i].cliOpen = conns[i].cliOpen
                              /\ n[i].toClient = conns[i].toClient
                              /\ n[i].streams = conns[i].streams
          /\ fd \in Slots /\ conns[fd].srvOpen =>
                n[fd].toServer = conns[fd].toServer \o q
      <3> HIDE DEF fd
      <3>1. conns \in Connections BY <1>1
      <3> QED BY <3>1, <1>8, WrittenFields
    <2> HIDE DEF n
    <2>2. conns' = n BY <1>4 DEF n
    <2> QED BY <2>1, <2>2
  <1>14. /\ \A k : Listed(cl.streams, k) => Listed(cl'.streams, k)
         /\ cl.fd \in Slots /\ conns[cl.fd].srvOpen =>
               \A k \in 1..Len(q) : q[k].type = "connect" => Listed(cl'.streams, q[k].id)
    BY <1>6, <1>7, <1>8, <1>9, <1>10 DEF Listed
  <1> QED BY <1>2, <1>8, <1>9, <1>10, <1>11, <1>12, <1>13, <1>14, AfterWrite

\* A command takes the streams gone off the list and tells the server.
LEMMA AfterRemoval ==
  ASSUME IInv, NEW gone, gone \subseteq cl.streams, cl.todo = "none",
         cl' \in ClientState, cl'.streams = cl.streams \ gone, cl'.next = cl.next, cl'.fd = cl.fd,
         cl'.id = cl.id, cl'.mapped = cl.mapped, cl'.event = cl.event, cl'.todo = cl.todo,
         cl'.state = cl.state,
         conns' = ToldOfRemoval(conns, cl, gone), UNCHANGED <<srv, file, rd, shm>>
  PROVE  IInv'
  <1> DEFINE q == IF cl.state = Connected THEN SetToSeq(Removals(gone)) ELSE <<>>
  <1>1. /\ cl \in ClientState /\ ClientOK(cl) /\ StreamsOK(cl) /\ IsFiniteSet(cl.streams)
        /\ conns \in Connections /\ cl.streams \subseteq Stream
    BY DEF IInv, Types, ClientState
  <1>2. gone \subseteq Stream /\ IsFiniteSet(gone) /\ IsFiniteSet(cl'.streams)
    BY <1>1, FS_Subset
  <1>3. ClientOK(cl') BY <1>1 DEF ClientOK
  <1>4. StreamsOK(cl') BY <1>1 DEF StreamsOK
  <1>5. /\ conns' \in Connections
        /\ \A i \in Slots : /\ conns'[i].inc = conns[i].inc
                            /\ conns'[i].cid = conns[i].cid
                            /\ conns'[i].srvOpen = conns[i].srvOpen
                            /\ conns'[i].cliOpen = conns[i].cliOpen
                            /\ conns'[i].toClient = conns[i].toClient
                            /\ conns'[i].streams = conns[i].streams
        /\ cl.state = Connected /\ cl.fd \in Slots /\ conns[cl.fd].srvOpen =>
              conns'[cl.fd].toServer = conns[cl.fd].toServer \o SetToSeq(Removals(gone))
        /\ cl.state # Connected => conns' = conns
    <2> DEFINE c == cl
               n == ToldOfRemoval(conns, c, gone)
    <2>1. /\ n \in Connections
          /\ \A i \in Slots : /\ n[i].inc = conns[i].inc
                              /\ n[i].cid = conns[i].cid
                              /\ n[i].srvOpen = conns[i].srvOpen
                              /\ n[i].cliOpen = conns[i].cliOpen
                              /\ n[i].toClient = conns[i].toClient
                              /\ n[i].streams = conns[i].streams
          /\ c.state = Connected /\ c.fd \in Slots /\ conns[c.fd].srvOpen =>
                n[c.fd].toServer = conns[c.fd].toServer \o SetToSeq(Removals(gone))
          /\ c.state # Connected => n = conns
      <3>1. conns \in Connections /\ c \in ClientState BY <1>1
      <3> HIDE DEF c
      <3> QED BY <3>1, <1>2, ToldFields
    <2> HIDE DEF n
    <2>2. conns' = n BY DEF n
    <2> QED BY <2>1, <2>2
  <1>6. CASE cl.state = Connected
    <2> DEFINE p == SetToSeq(Removals(gone))
    <2>1. /\ p \in Seq(Request)
          /\ \A k \in 1..Len(p) : p[k].type = "disconnect"
          /\ \A s \in gone : \E k \in 1..Len(p) : p[k] = Removal(s.id)
      BY <1>2, RemovalMessages
    <2>2. cl.fd \in Slots /\ conns[cl.fd].srvOpen =>
              conns'[cl.fd].toServer = conns[cl.fd].toServer \o p
      BY <1>5, <1>6
    <2> HIDE DEF p
    <2>3. \A id : Listed(cl.streams, id) =>
              Listed(cl'.streams, id) \/ \E k \in 1..Len(p) : p[k] = Removal(id)
      BY <2>1 DEF Listed
    <2>4. \A k \in 1..Len(p) : p[k].type # "connect" BY <2>1
    <2> QED BY <1>2, <1>3, <1>4, <1>5, <2>1, <2>2, <2>3, <2>4, AfterWrite
  <1>7. CASE cl.state # Connected
    <2> DEFINE none == <<>>
    <2>1. none \in Seq(Request) /\ Len(none) = 0 OBVIOUS
    <2>2. cl.fd \in Slots => conns'[cl.fd].toServer = conns[cl.fd].toServer \o none
      <3>1. cl.fd \in Slots => conns[cl.fd].toServer \in Seq(Request)
        BY <1>1 DEF Connections, Conn
      <3>2. conns' = conns BY <1>5, <1>7
      <3> QED BY <3>1, <3>2
    <2> HIDE DEF none
    <2>3. \A s \in cl.streams : s.id.client = Unknown
      BY <1>1, <1>7 DEF StreamsOK, ClientOK
    <2>4. \A id : ~(Listed(cl.streams, id) /\ id.client # Unknown)
      BY <2>3 DEF Listed
    <2>5. \A k \in 1..Len(none) : none[k].type # "connect" BY <2>1
    <2> QED BY <1>2, <1>3, <1>4, <1>5, <2>1, <2>2, <2>4, <2>5, AfterWrite
  <1> QED BY <1>6, <1>7

LEMMA client_thread_rm_streamOK ==
  ASSUME IInv, NEW s \in cl.streams, client_thread_rm_stream(s) PROVE IInv'
  <1> DEFINE ss == cl.streams \ {s}
  <1>1. cl \in ClientState /\ cl.streams \subseteq Stream BY DEF IInv, Types, ClientState
  <1>2. cl.todo = "none" /\ conns' = ToldOfRemoval(conns, cl, {s}) /\ UNCHANGED <<srv, file, rd, shm>>
    BY DEF client_thread_rm_stream, CommandWaits, AtPoll
  <1>3. cl' = [cl EXCEPT !.streams = ss] BY DEF client_thread_rm_stream
  <1>4. ss \subseteq Stream BY <1>1
  <1> HIDE DEF ss
  <1>5. /\ cl' \in ClientState /\ cl'.streams = ss /\ cl'.next = cl.next /\ cl'.fd = cl.fd
        /\ cl'.id = cl.id /\ cl'.mapped = cl.mapped /\ cl'.event = cl.event
        /\ cl'.todo = cl.todo
        /\ cl'.state = cl.state
    BY <1>1, <1>3, <1>4 DEF ClientState
  <1>6. cl'.streams = cl.streams \ {s} /\ {s} \subseteq cl.streams BY <1>5 DEF ss
  <1> QED BY <1>2, <1>5, <1>6, AfterRemoval

LEMMA cras_client_stopOK ==
  ASSUME IInv, cras_client_stop PROVE IInv'
  <1> DEFINE no == FALSE
  <1>1. cl \in ClientState BY DEF IInv, Types
  <1>2. cl.todo = "none" /\ conns' = ToldOfRemoval(conns, cl, cl.streams) /\ UNCHANGED <<srv, file, rd, shm>>
    BY DEF cras_client_stop, CommandWaits, AtPoll
  <1>3. cl' = [cl EXCEPT !.streams = {}, !.running = no, !.loop = "none"] BY
    DEF cras_client_stop
  <1>4. no \in BOOLEAN OBVIOUS
  <1> HIDE DEF no
  <1>5. /\ cl' \in ClientState /\ cl'.streams = {} /\ cl'.next = cl.next /\ cl'.fd = cl.fd
        /\ cl'.id = cl.id /\ cl'.mapped = cl.mapped /\ cl'.event = cl.event
        /\ cl'.todo = cl.todo
        /\ cl'.state = cl.state
    BY <1>1, <1>3, <1>4 DEF ClientState
  <1>6. cl'.streams = cl.streams \ cl.streams BY <1>5
  <1> QED BY <1>2, <1>5, <1>6, AfterRemoval

-----------------------------------------------------------------------------
\* Steps of the reader.
LEMMA ReaderOnly ==
  ASSUME IInv, UNCHANGED <<srv, file, conns, cl, shm>>, rd' \in Reader, ReadOK(rd', shm, cl.mapped)
  PROVE  IInv'
  BY DEF IInv, Types

LEMMA server_state_rdlockOK ==
  ASSUME IInv, server_state_rdlock PROVE IInv'
  <1> USE DEF server_state_rdlock
  <1>1. rd \in Reader BY DEF IInv, Types
  <1>2. rd' \in Reader /\ rd'.at = "begin" BY <1>1 DEF Reader
  <1>3. ReadOK(rd', shm, cl.mapped) BY <1>2 DEF ReadOK
  <1> QED BY <1>2, <1>3, ReaderOnly

LEMMA begin_server_state_readOK ==
  ASSUME IInv, begin_server_state_read PROVE IInv'
  <1> USE DEF begin_server_state_read, Mapped, Region
  <1>1. rd \in Reader /\ shm \in Memories BY DEF IInv, Types
  <1>2. shm[cl.mapped].count \in Nat /\ cl.mapped # 0 BY <1>1 DEF Memories, Memory
  <1>3. rd' \in Reader /\ rd'.at = "a" /\ rd'.count = shm[cl.mapped].count
    <2> DEFINE n == shm[cl.mapped].count
    <2>1. rd' = [rd EXCEPT !.at = "a", !.count = n] OBVIOUS
    <2> HIDE DEF n
    <2>2. n \in Nat BY <1>2 DEF n
    <2>3. rd' \in Reader /\ rd'.at = "a" /\ rd'.count = n BY <1>1, <2>1, <2>2 DEF Reader
    <2> QED BY <2>3 DEF n
  <1>4. ReadOK(rd', shm, cl.mapped) BY <1>2, <1>3 DEF ReadOK
  <1> QED BY <1>3, <1>4, ReaderOnly

LEMMA CopyFieldOK ==
  ASSUME IInv, CopyField PROVE IInv'
  <1> USE DEF CopyField, Mapped, Region
  <1>1. rd \in Reader /\ shm \in Memories /\ ReadOK(rd, shm, cl.mapped) BY DEF IInv, Types
  <1> DEFINE x == shm[cl.mapped].a
             y == shm[cl.mapped].b
  <1>2. x \in Nat /\ y \in Nat /\ cl.mapped # 0 BY <1>1 DEF Memories, Memory
  <1>3. CASE rd.at = "a" /\ rd' = [rd EXCEPT !.at = "b", !.a = x]
    <2> HIDE DEF x
    <2>1. rd' \in Reader /\ rd'.at = "b" /\ rd'.a = x /\ rd'.count = rd.count
      BY <1>1, <1>2, <1>3 DEF Reader
    <2>2. ReadOK(rd', shm, cl.mapped) BY <1>1, <1>2, <1>3, <2>1 DEF ReadOK, x
    <2> QED BY <2>1, <2>2, ReaderOnly
  <1>4. CASE rd.at = "b" /\ rd' = [rd EXCEPT !.at = "end", !.b = y]
    <2> HIDE DEF y
    <2>1. rd' \in Reader /\ rd'.at = "end" /\ rd'.b = y /\ rd'.a = rd.a /\ rd'.count = rd.count
      BY <1>1, <1>2, <1>4 DEF Reader
    <2>2. ReadOK(rd', shm, cl.mapped) BY <1>1, <1>2, <1>4, <2>1 DEF ReadOK, y
    <2> QED BY <2>1, <2>2, ReaderOnly
  <1> QED BY <1>3, <1>4

LEMMA CheckCountOK ==
  ASSUME IInv, CheckCount PROVE IInv'
  <1> USE DEF CheckCount
  <1>1. rd \in Reader /\ ReadOK(rd, shm, cl.mapped) BY DEF IInv, Types
  <1>2. CASE rd' = [at |-> "idle", count |-> 0, a |-> 0, b |-> 0]
    <2>1. rd' \in Reader /\ rd'.at = "idle" BY <1>2 DEF Reader
    <2> QED BY <2>1, IdleReads, ReaderOnly
  <1>3. CASE rd' = [rd EXCEPT !.at = "begin"]
    <2>1. rd' \in Reader /\ rd'.at = "begin" BY <1>1, <1>3 DEF Reader
    <2>2. cl.mapped # 0 BY <1>1 DEF ReadOK
    <2>3. ReadOK(rd', shm, cl.mapped) BY <2>1, <2>2 DEF ReadOK
    <2> QED BY <2>1, <2>3, ReaderOnly
  <1> QED BY <1>2, <1>3

\* What end_server_state_read accepts is one state of the server.
LEMMA AcceptedCopy ==
  ASSUME IInv, CheckCount, rd'.at = "idle"
  PROVE  rd.a = rd.b
  <1>1. /\ rd.at = "end" /\ cl.mapped \in 1..MaxStarts BY DEF CheckCount, Mapped
  <1>2. rd.count = shm[cl.mapped].count
    <2>1. CASE end_server_state_read(rd.count)
      BY <2>1 DEF end_server_state_read, Region
    <2>2. CASE ~end_server_state_read(rd.count)
      <3>1. rd \in Reader BY DEF IInv, Types
      <3>2. rd'.at = "begin" BY <2>2, <3>1 DEF CheckCount, Reader
      <3> QED BY <3>2
    <2> QED BY <2>1, <2>2
  <1>3. rd.count % 2 = 0 /\ rd.a = shm[cl.mapped].a /\ rd.b = shm[cl.mapped].b
    BY <1>1, <1>2 DEF IInv, ReadOK
  <1>4. shm[cl.mapped].a = shm[cl.mapped].b
    BY <1>1, <1>2, <1>3 DEF IInv, ShmOK, RegionOK
  <1> QED BY <1>3, <1>4

-----------------------------------------------------------------------------
\* A step of the server's update shows to a reader that started before it.
LEMMA RegionStep ==
  ASSUME NEW r \in Memory, NEW new, NEW from, NEW to, UpdateOK(r, from),
         \/ from = "due" /\ to = "a" /\ new = Counted(r)
         \/ from = "a" /\ to = "b" /\ new = [r EXCEPT !.a = r.count]
         \/ from = "b" /\ to = "end" /\ new = [r EXCEPT !.b = r.count]
         \/ from = "end" /\ to = "none" /\ new = Counted(r)
  PROVE  /\ new \in Memory
         /\ UpdateOK(new, to)
         /\ new.count % 2 = 0 => new.a = new.b
         /\ \A n \in Nat : n % 2 = 0 /\ n <= r.count => n <= new.count /\ n # new.count
  <1>1. r.count \in Nat /\ r.a \in Nat /\ r.b \in Nat BY DEF Memory
  <1>2. r.count % 2 \in {0, 1} BY <1>1
  <1>3. CASE from = "due" /\ to = "a" /\ new = Counted(r)
    <2>1. new \in Memory /\ new.count = r.count + 1 /\ new.a = r.a /\ new.b = r.b
      BY <1>1, <1>3 DEF Memory, Counted
    <2>2. r.count % 2 = 0 BY <1>2, <1>3 DEF UpdateOK
    <2>3. new.count % 2 = 1 BY <1>1, <2>1, <2>2
    <2>4. UpdateOK(new, to) BY <1>3, <2>3 DEF UpdateOK
    <2>5. \A n \in Nat : n % 2 = 0 /\ n <= r.count => n <= new.count /\ n # new.count
      BY <1>1, <2>1
    <2> QED BY <2>1, <2>3, <2>4, <2>5
  <1>4. CASE from = "a" /\ to = "b" /\ new = [r EXCEPT !.a = r.count]
    <2>1. new \in Memory /\ new.count = r.count /\ new.a = r.count /\ new.b = r.b
      BY <1>1, <1>4 DEF Memory
    <2>2. r.count % 2 = 1 BY <1>4 DEF UpdateOK
    <2>3. UpdateOK(new, to) BY <1>4, <2>1, <2>2 DEF UpdateOK
    <2>4. \A n \in Nat : n % 2 = 0 /\ n <= r.count => n <= new.count /\ n # new.count
      BY <1>1, <2>1, <2>2
    <2> QED BY <2>1, <2>2, <2>3, <2>4
  <1>5. CASE from = "b" /\ to = "end" /\ new = [r EXCEPT !.b = r.count]
    <2>1. new \in Memory /\ new.count = r.count /\ new.a = r.a /\ new.b = r.count
      BY <1>1, <1>5 DEF Memory
    <2>2. r.count % 2 = 1 /\ r.a = r.count BY <1>5 DEF UpdateOK
    <2>3. UpdateOK(new, to) BY <1>5, <2>1, <2>2 DEF UpdateOK
    <2>4. \A n \in Nat : n % 2 = 0 /\ n <= r.count => n <= new.count /\ n # new.count
      BY <1>1, <2>1, <2>2
    <2> QED BY <2>1, <2>2, <2>3, <2>4
  <1>6. CASE from = "end" /\ to = "none" /\ new = Counted(r)
    <2>1. new \in Memory /\ new.count = r.count + 1 /\ new.a = r.a /\ new.b = r.b
      BY <1>1, <1>6 DEF Memory, Counted
    <2>2. r.count % 2 = 1 /\ r.a = r.count /\ r.b = r.count BY <1>6 DEF UpdateOK
    <2>3. new.count % 2 = 0 BY <1>1, <2>1, <2>2
    <2>4. UpdateOK(new, to) BY <1>6, <2>3 DEF UpdateOK
    <2>5. \A n \in Nat : n % 2 = 0 /\ n <= r.count => n <= new.count /\ n # new.count
      BY <1>1, <2>1
    <2> QED BY <2>1, <2>2, <2>4, <2>5
  <1> QED BY <1>3, <1>4, <1>5, <1>6

\* The memory of the server that runs.
LEMMA RunningServer ==
  ASSUME srv \in ServerState, ServerOK(srv), srv.phase # "down"
  PROVE  srv.inc \in 1..MaxStarts
  BY ClientAssumption DEF ServerState, ServerOK

LEMMA UpdateExportedStateOK ==
  ASSUME IInv, UpdateExportedState PROVE IInv'
  <1>1. /\ srv \in ServerState /\ ServerOK(srv) /\ ShmOK(shm, srv) /\ shm \in Memories
        /\ Served(conns, srv) /\ ReadOK(rd, shm, cl.mapped) /\ rd \in Reader
    BY DEF IInv, Types
  <1>2. PICK new, from, to :
          /\ srv.update = from /\ srv' = [srv EXCEPT !.update = to]
          /\ shm' = [shm EXCEPT ![srv.inc] = new]
          /\ \/ from = "due" /\ to = "a" /\ new = Counted(shm[srv.inc])
             \/ from = "a" /\ to = "b" /\ new = [shm[srv.inc] EXCEPT !.a = shm[srv.inc].count]
             \/ from = "b" /\ to = "end" /\ new = [shm[srv.inc] EXCEPT !.b = shm[srv.inc].count]
             \/ from = "end" /\ to = "none" /\ new = Counted(shm[srv.inc])
    BY DEF UpdateExportedState
  <1>3. UNCHANGED <<file, conns, cl, rd>> BY DEF UpdateExportedState
  <1>4. srv.phase = "up" /\ from # "none" /\ to \in {"none", "a", "b", "end"}
    BY <1>1, <1>2 DEF ServerOK
  <1>5. srv.inc \in 1..MaxStarts BY <1>1, <1>4, RunningServer
  <1>6. /\ srv' \in ServerState /\ srv'.phase = "up" /\ srv'.inc = srv.inc /\ srv'.update = to
    BY <1>1, <1>2, <1>4 DEF ServerState
  <1> DEFINE r == shm[srv.inc]
  <1>7. /\ new \in Memory
        /\ UpdateOK(new, to)
        /\ new.count % 2 = 0 => new.a = new.b
        /\ \A n \in Nat : n % 2 = 0 /\ n <= r.count => n <= new.count /\ n # new.count
    <2>1. r \in Memory BY <1>1, <1>5 DEF Memories
    <2>2. UpdateOK(r, from) BY <1>1, <1>2, <1>4 DEF ShmOK
    <2>3. \/ from = "due" /\ to = "a" /\ new = Counted(r)
          \/ from = "a" /\ to = "b" /\ new = [r EXCEPT !.a = r.count]
          \/ from = "b" /\ to = "end" /\ new = [r EXCEPT !.b = r.count]
          \/ from = "end" /\ to = "none" /\ new = Counted(r)
      BY <1>2
    <2> HIDE DEF r
    <2> QED BY <2>1, <2>2, <2>3, RegionStep
  <1> HIDE DEF r
  <1>8. /\ shm' \in Memories /\ shm'[srv.inc] = new
        /\ \A i \in 1..MaxStarts : i # srv.inc => shm'[i] = shm[i]
    BY <1>1, <1>2, <1>5, <1>7 DEF Memories
  <1>9. Types' BY <1>3, <1>6, <1>8 DEF IInv, Types
  <1>10. ShmOK(shm', srv')
    <2>1. \A i \in 1..MaxStarts : RegionOK(shm'[i], i, srv')
      <3> TAKE i \in 1..MaxStarts
      <3>1. CASE i = srv.inc BY <1>6, <1>7, <1>8, <3>1 DEF RegionOK
      <3>2. CASE i # srv.inc BY <1>1, <1>6, <1>8, <3>2 DEF ShmOK, RegionOK
      <3> QED BY <3>1, <3>2
    <2>2. UpdateOK(shm'[srv'.inc], srv'.update) BY <1>6, <1>7, <1>8
    <2> QED BY <2>1, <2>2 DEF ShmOK
  <1>11. ReadOK(rd', shm', cl'.mapped)
    <2> SUFFICES ReadOK(rd, shm', cl.mapped) BY <1>3
    <2>1. CASE rd.at = "idle" BY <2>1, IdleReads
    <2>2. CASE rd.at = "begin" BY <1>1, <2>2 DEF ReadOK
    <2>3. CASE rd.at \in {"a", "b", "end"}
      <3>1. cl.mapped \in 1..MaxStarts /\ rd.count \in Nat /\ rd.count % 2 = 0
            /\ rd.count <= shm[cl.mapped].count
        BY <1>1, <2>3 DEF ReadOK, Reader
      <3>2. CASE cl.mapped = srv.inc
        <4>1. rd.count <= new.count /\ rd.count # new.count BY <1>7, <3>1, <3>2 DEF r
        <4> QED BY <1>1, <1>8, <3>1, <3>2, <4>1 DEF ReadOK
      <3>3. CASE cl.mapped # srv.inc
        BY <1>1, <1>8, <3>1, <3>3 DEF ReadOK
      <3> QED BY <3>2, <3>3
    <2> QED BY <1>1, <2>1, <2>2, <2>3 DEF Reader
  <1>12. Served(conns', srv') BY <1>1, <1>3, <1>4, <1>6 DEF Served, ConnOK
  <1>13. ServerOK(srv') BY <1>1, <1>4, <1>6 DEF ServerOK
  <1>14. /\ ClientOK(cl') /\ StreamsOK(cl') /\ Linked(conns', cl'.fd) /\ AllReported(conns', cl')
    BY <1>3 DEF IInv
  <1> QED BY <1>9, <1>10, <1>11, <1>12, <1>13, <1>14 DEF IInv

\* A send to the client changes what it will read, or what is lost.
LEMMA SentFields ==
  ASSUME NEW conn \in Conn, NEW msg \in Reply, NEW ok \in BOOLEAN
  PROVE  LET d == SentToClient(conn, msg, ok)
         IN  /\ d \in Conn /\ d.inc = conn.inc /\ d.cid = conn.cid /\ d.srvOpen = conn.srvOpen
             /\ d.cliOpen = conn.cliOpen /\ d.toServer = conn.toServer /\ d.streams = conn.streams
  <1> DEFINE q == Append(conn.toClient, msg)
             l == conn.lost \cup {msg}
  <1>1. conn.toClient \in Seq(Reply) /\ conn.lost \subseteq Reply /\ conn.cliOpen \in BOOLEAN
    BY DEF Conn
  <1>2. q \in Seq(Reply) /\ l \subseteq Reply BY <1>1
  <1> HIDE DEF q, l
  <1>3. CASE ~conn.cliOpen
    <2>1. SentToClient(conn, msg, ok) = conn BY <1>3 DEF SentToClient
    <2> QED BY <2>1
  <1>4. CASE conn.cliOpen /\ ok
    <2> DEFINE d == [conn EXCEPT !.toClient = q]
    <2>1. SentToClient(conn, msg, ok) = d BY <1>4 DEF SentToClient, q
    <2>2. /\ d \in Conn /\ d.inc = conn.inc /\ d.cid = conn.cid /\ d.srvOpen = conn.srvOpen
          /\ d.cliOpen = conn.cliOpen /\ d.toServer = conn.toServer /\ d.streams = conn.streams
      BY <1>2 DEF Conn
    <2> QED BY <2>1, <2>2
  <1>5. CASE conn.cliOpen /\ ~ok
    <2> DEFINE d == [conn EXCEPT !.lost = l]
    <2>1. SentToClient(conn, msg, ok) = d BY <1>5 DEF SentToClient, l
    <2>2. /\ d \in Conn /\ d.inc = conn.inc /\ d.cid = conn.cid /\ d.srvOpen = conn.srvOpen
          /\ d.cliOpen = conn.cliOpen /\ d.toServer = conn.toServer /\ d.streams = conn.streams
      BY <1>2 DEF Conn
    <2> QED BY <2>1, <2>2
  <1> QED BY <1>3, <1>4, <1>5

LEMMA handle_new_connectionOK ==
  ASSUME IInv, NEW i \in Slots, handle_new_connection(i)
  PROVE  IInv' /\ \A j \in Slots : conns'[j].inc = conns[j].inc
  <1>1. /\ srv \in ServerState /\ ServerOK(srv) /\ ShmOK(shm, srv)
        /\ conns \in Connections /\ Served(conns, srv) /\ Linked(conns, cl.fd)
        /\ AllReported(conns, cl)
    BY DEF IInv, Types
  <1>2. /\ srv.phase = "up" /\ srv.update = "none" /\ conns[i].srvOpen /\ conns[i].cid = Unknown
        /\ UNCHANGED <<file, cl, rd, shm>>
    BY DEF handle_new_connection, ServerIdle
  <1> DEFINE c == conns[i]
             k == srv.next
             e == [c EXCEPT !.cid = k]
             first == [type |-> "connected"]
             nx == srv.next + 1
  <1>a. PICK ok \in BOOLEAN : conns' = [conns EXCEPT ![i] = SentToClient(e, first, ok)]
    BY <1>1 DEF handle_new_connection, Connections
  <1> DEFINE d == SentToClient(e, first, ok)
  <1>3. conns' = [conns EXCEPT ![i] = d] BY <1>a
  <1>4. srv' = [srv EXCEPT !.next = nx, !.update = "due"] BY DEF handle_new_connection
  <1>5. c \in Conn BY <1>1 DEF Connections
  <1>6. k \in Ids /\ k # Unknown /\ nx \in Nat BY <1>1 DEF ServerState, Ids, Unknown
  <1>7. first \in Reply BY DEF Reply
  <1>8. c.streams = {} /\ ConnOK(c, srv)
    BY <1>1, <1>2 DEF Served, ConnOK
  <1> HIDE DEF c, k, nx
  <1>9. /\ d \in Conn /\ d.cid = k /\ d.inc = c.inc /\ d.srvOpen = c.srvOpen
        /\ d.cliOpen = c.cliOpen /\ d.toServer = c.toServer /\ d.streams = c.streams
    <2>1. /\ e \in Conn /\ e.cid = k /\ e.inc = c.inc /\ e.srvOpen = c.srvOpen
          /\ e.cliOpen = c.cliOpen /\ e.toServer = c.toServer /\ e.streams = c.streams
      BY <1>5, <1>6 DEF Conn
    <2> HIDE DEF e, first
    <2>2. /\ d \in Conn /\ d.inc = e.inc /\ d.cid = e.cid /\ d.srvOpen = e.srvOpen
          /\ d.cliOpen = e.cliOpen /\ d.toServer = e.toServer /\ d.streams = e.streams
      BY <1>7, <2>1, SentFields
    <2> HIDE DEF d
    <2> QED BY <2>1, <2>2
  <1>10. /\ srv' \in ServerState /\ srv'.inc = srv.inc /\ srv'.phase = srv.phase /\ srv'.update = "due"
    BY <1>1, <1>4, <1>6 DEF ServerState
  <1> HIDE DEF d
  <1>11. /\ conns' \in Connections /\ conns'[i] = d
         /\ \A j \in Slots : j # i => conns'[j] = conns[j]
    BY <1>1, <1>3, <1>9 DEF Connections
  <1>12. Types' BY <1>2, <1>10, <1>11 DEF IInv, Types
  <1>13. Served(conns', srv')
    <2>1. ConnOK(d, srv') BY <1>6, <1>8, <1>9, <1>10 DEF ConnOK
    <2> QED BY <1>1, <1>10, <1>11, <2>1 DEF Served, ConnOK
  <1>14. Linked(conns', cl'.fd) BY <1>1, <1>2, <1>9, <1>11 DEF Linked, c
  <1>15. AllReported(conns', cl')
    <2>1. CASE cl.fd = i
      <3>1. c.srvOpen /\ Reported(c, cl.streams) BY <1>1, <1>2, <2>1 DEF AllReported, c
      <3>2. Reported(d, cl.streams) BY <1>9, <3>1, SameReported
      <3> QED BY <1>2, <1>11, <2>1, <3>2 DEF AllReported
    <2>2. CASE cl.fd # i BY <1>1, <1>2, <1>11, <2>2 DEF AllReported
    <2> QED BY <2>1, <2>2
  <1>16. ServerOK(srv') BY <1>1, <1>2, <1>10 DEF ServerOK
  <1>17. ShmOK(shm', srv')
    <2>1. UpdateOK(shm[srv.inc], "none") BY <1>1, <1>2 DEF ShmOK
    <2>2. UpdateOK(shm[srv.inc], "due") BY <2>1 DEF UpdateOK
    <2>3. \A j \in 1..MaxStarts : RegionOK(shm[j], j, srv') BY <1>1, <1>10 DEF ShmOK, RegionOK
    <2> QED BY <1>2, <1>10, <2>2, <2>3 DEF ShmOK
  <1>18. ClientOK(cl') /\ StreamsOK(cl') /\ ReadOK(rd', shm', cl'.mapped) BY <1>2 DEF IInv
  <1>19. IInv' BY <1>12, <1>13, <1>14, <1>15, <1>16, <1>17, <1>18 DEF IInv
  <1>20. \A j \in Slots : conns'[j].inc = conns[j].inc BY <1>9, <1>11 DEF c
  <1> QED BY <1>19, <1>20

\* What the server makes of a request: of the connection only the streams and
\* the way to the client change, and only a request that carries the client's id
\* adds a stream.
Handled(d, conn, msg) ==
    /\ d \in Conn /\ d.inc = conn.inc /\ d.cid = conn.cid /\ d.srvOpen = conn.srvOpen
    /\ d.cliOpen = conn.cliOpen /\ d.toServer = conn.toServer
    /\ \A id \in d.streams :
          \/ id \in conn.streams /\ (msg = Removal(id) => id.client # conn.cid)
          \/ msg.type = "connect" /\ id = msg.id /\ id.client = conn.cid

LEMMA DisconnectHandled ==
  ASSUME NEW conn \in Conn, NEW msg \in Request, msg.type = "disconnect"
  PROVE  Handled(StreamDisconnected(conn, msg.id), conn, msg)
  <1> DEFINE id == msg.id
             d == StreamDisconnected(conn, id)
  <1>1. CASE id.client = conn.cid
    <2> DEFINE ss == conn.streams \ {id}
    <2>1. d = [conn EXCEPT !.streams = ss] BY <1>1 DEF StreamDisconnected
    <2>2. ss \subseteq StreamId BY DEF Conn
    <2> HIDE DEF ss
    <2>3. /\ d \in Conn /\ d.inc = conn.inc /\ d.cid = conn.cid /\ d.srvOpen = conn.srvOpen
          /\ d.cliOpen = conn.cliOpen /\ d.toServer = conn.toServer /\ d.streams = ss
      BY <2>1, <2>2 DEF Conn
    <2>4. \A x \in ss : x \in conn.streams /\ msg # Removal(x) BY DEF ss, Removal
    <2> HIDE DEF d
    <2> QED BY <2>3, <2>4 DEF d, Handled
  <1>2. CASE id.client # conn.cid
    <2>1. d = conn BY <1>2 DEF StreamDisconnected
    <2>2. \A x : msg = Removal(x) => x = id BY DEF Removal
    <2> HIDE DEF d
    <2> QED BY <1>2, <2>1, <2>2 DEF d, Handled
  <1> QED BY <1>1, <1>2

\* A reply, and perhaps the stream.
LEMMA ConnectHandled ==
  ASSUME NEW conn \in Conn, NEW msg \in Request, msg.type = "connect",
         NEW ok \in BOOLEAN, NEW sent \in BOOLEAN, NEW kept,
         kept => msg.id.client = conn.cid
  PROVE  LET told == SentToClient(conn, StreamReply(msg.id, ok), sent)
         IN  Handled([told EXCEPT !.streams = IF kept THEN @ \cup {msg.id} ELSE @], conn, msg)
  <1> DEFINE id == msg.id
             reply == StreamReply(id, ok)
             told == SentToClient(conn, reply, sent)
             ss == IF kept THEN told.streams \cup {id} ELSE told.streams
             d == [told EXCEPT !.streams = ss]
  <1>1. id \in StreamId BY DEF Request
  <1>2. reply \in Reply BY <1>1 DEF StreamReply, Reply
  <1>3. /\ told \in Conn /\ told.inc = conn.inc /\ told.cid = conn.cid
        /\ told.srvOpen = conn.srvOpen /\ told.cliOpen = conn.cliOpen
        /\ told.toServer = conn.toServer /\ told.streams = conn.streams
    <2> HIDE DEF reply
    <2> QED BY <1>2, SentFields
  <1> HIDE DEF told
  <1>4. /\ ss \subseteq StreamId
        /\ \A x \in ss : x \in conn.streams \/ (x = id /\ id.client = conn.cid)
    BY <1>1, <1>3 DEF Conn
  <1> HIDE DEF ss
  <1>5. /\ d \in Conn /\ d.inc = told.inc /\ d.cid = told.cid /\ d.srvOpen = told.srvOpen
        /\ d.cliOpen = told.cliOpen /\ d.toServer = told.toServer /\ d.streams = ss
    BY <1>3, <1>4 DEF Conn
  <1>6. \A x : msg # Removal(x) BY DEF Removal
  <1>7. Handled(d, conn, msg)
    <2> HIDE DEF d
    <2> QED BY <1>3, <1>4, <1>5, <1>6 DEF Handled
  <1> QED BY <1>7 DEF told, ss

\* Taking a request off the queue keeps the promise of Reported: its removal is
\* still behind it, and a removal takes the stream with it.
LEMMA ReportedTail ==
  ASSUME NEW c \in Conn, NEW d \in Conn, NEW ss, Reported(c, ss), c.toServer # <<>>,
         d.toServer = Tail(c.toServer),
         \A id \in d.streams :
             \/ id \in c.streams /\ Head(c.toServer) # Removal(id)
             \/ /\ Head(c.toServer).type = "connect" /\ id = Head(c.toServer).id
                /\ id.client # Unknown
  PROVE  Reported(d, ss)
  <1> DEFINE p == c.toServer
             r == d.toServer
             m == Len(p)
  <1>1. p \in Seq(Request) /\ p # <<>> /\ r = Tail(p) BY DEF Conn
  <1>2. /\ m \in Nat /\ m >= 1 /\ Len(r) = m - 1 /\ Head(p) = p[1]
        /\ \A k \in 1..(m - 1) : r[k] = p[k + 1]
    BY <1>1
  <1>3. /\ \A id \in c.streams : Listed(ss, id) \/ \E k \in 1..m : p[k] = Removal(id)
        /\ \A k \in 1..m : p[k].type = "connect" /\ p[k].id.client # Unknown =>
              \/ Listed(ss, p[k].id)
              \/ \E j \in 1..m : j > k /\ p[j] = Removal(p[k].id)
    BY DEF Reported
  <1>4. \A id \in d.streams :
             \/ id \in c.streams /\ p[1] # Removal(id)
             \/ p[1].type = "connect" /\ id = p[1].id /\ id.client # Unknown
    BY <1>2
  <1> HIDE DEF p, r, m
  <1>5. \A k \in 1..m : k # 1 => k - 1 \in 1..(m - 1) /\ r[k - 1] = p[k]
    <2> TAKE k \in 1..m
    <2> HAVE k # 1
    <2>1. k - 1 \in 1..(m - 1) /\ (k - 1) + 1 = k BY <1>2
    <2> QED BY <1>2, <2>1
  <1>6. ASSUME NEW id \in d.streams
        PROVE  Listed(ss, id) \/ \E k \in 1..(m - 1) : r[k] = Removal(id)
    <2>1. CASE id \in c.streams /\ p[1] # Removal(id)
      BY <1>3, <1>5, <2>1
    <2>2. CASE p[1].type = "connect" /\ id = p[1].id /\ id.client # Unknown
      <3>1. 1 \in 1..m BY <1>2
      <3>2. Listed(ss, id) \/ \E j \in 1..m : j > 1 /\ p[j] = Removal(id) BY <1>3, <2>2, <3>1
      <3> QED BY <1>5, <3>2
    <2> QED BY <1>4, <2>1, <2>2
  <1>7. ASSUME NEW k \in 1..(m - 1), r[k].type = "connect", r[k].id.client # Unknown
        PROVE  \/ Listed(ss, r[k].id)
               \/ \E j \in 1..(m - 1) : j > k /\ r[j] = Removal(r[k].id)
    <2>1. k + 1 \in 1..m /\ r[k] = p[k + 1] BY <1>2
    <2>2. CASE Listed(ss, r[k].id) BY <2>2
    <2>3. CASE \E j \in 1..m : j > k + 1 /\ p[j] = Removal(r[k].id)
      <3>1. PICK j \in 1..m : j > k + 1 /\ p[j] = Removal(r[k].id) BY <2>3
      <3>2. j # 1 /\ j - 1 > k BY <1>2, <3>1
      <3>3. j - 1 \in 1..(m - 1) /\ r[j - 1] = p[j] BY <1>5, <3>2
      <3> QED BY <3>1, <3>2, <3>3
    <2> QED BY <1>3, <1>7, <2>1, <2>2, <2>3
  <1>8. Len(d.toServer) = m - 1 BY <1>2 DEF r
  <1> QED BY <1>6, <1>7, <1>8 DEF Reported, r

LEMMA handle_message_from_clientOK ==
  ASSUME IInv, NEW i \in Slots, handle_message_from_client(i)
  PROVE  IInv' /\ \A j \in Slots : conns'[j].inc = conns[j].inc
  <1> DEFINE c == conns[i]
             t == Tail(c.toServer)
             conn == [c EXCEPT !.toServer = t]
             msg == Head(c.toServer)
  <1>1. /\ conns \in Connections /\ Served(conns, srv) /\ Linked(conns, cl.fd)
        /\ AllReported(conns, cl)
    BY DEF IInv, Types
  <1>2. /\ c.srvOpen /\ c.cid # Unknown /\ c.toServer # <<>> /\ UNCHANGED <<srv, file, cl, rd, shm>>
    BY DEF handle_message_from_client
  <1>4. c \in Conn /\ ConnOK(c, srv) BY <1>1 DEF Connections, Served
  <1>5. t \in Seq(Request) /\ msg \in Request
    <2>1. c.toServer \in Seq(Request) BY <1>4 DEF Conn
    <2> QED BY <1>2, <2>1
  <1> HIDE DEF c
  <1>6. /\ conn \in Conn /\ conn.inc = c.inc /\ conn.cid = c.cid /\ conn.srvOpen = c.srvOpen
        /\ conn.cliOpen = c.cliOpen /\ conn.toServer = t /\ conn.streams = c.streams
    <2> HIDE DEF t
    <2> QED BY <1>4, <1>5 DEF Conn
  <1>3. \/ /\ msg.type = "connect"
           /\ \/ conns' = [conns EXCEPT ![i] = StreamConnected(conn, msg.id)]
              \/ \E kept, sent \in BOOLEAN :
                    /\ kept => msg.id.client = conn.cid
                    /\ conns' = [conns EXCEPT ![i] = StreamFailed(conn, msg.id, kept, sent)]
        \/ msg.type = "disconnect" /\ conns' = [conns EXCEPT ![i] = StreamDisconnected(conn, msg.id)]
    BY DEF handle_message_from_client, rclient_handle_client_stream_connect,
           rclient_handle_client_stream_disconnect, c
  <1> HIDE DEF conn
  <1>8. PICK d : Handled(d, conn, msg) /\ conns' = [conns EXCEPT ![i] = d]
    <2> HIDE DEF msg
    <2>1. CASE msg.type = "connect" /\ conns' = [conns EXCEPT ![i] = StreamConnected(conn, msg.id)]
      <3> DEFINE added == msg.id.client = conn.cid
                 kept == added /\ conn.cliOpen
      <3>1. added \in BOOLEAN /\ (kept => msg.id.client = conn.cid) OBVIOUS
      <3>2. LET told == SentToClient(conn, StreamReply(msg.id, added), TRUE)
            IN  Handled([told EXCEPT !.streams = IF kept THEN @ \cup {msg.id} ELSE @], conn, msg)
        <4> HIDE DEF added, kept
        <4> QED BY <1>5, <1>6, <2>1, <3>1, ConnectHandled DEF kept, added
      <3>3. Handled(StreamConnected(conn, msg.id), conn, msg) BY <3>2 DEF StreamConnected
      <3> QED BY <2>1, <3>3
    <2>2. ASSUME NEW kept \in BOOLEAN, NEW sent \in BOOLEAN, msg.type = "connect",
                 kept => msg.id.client = conn.cid,
                 conns' = [conns EXCEPT ![i] = StreamFailed(conn, msg.id, kept, sent)]
          PROVE  \E d : Handled(d, conn, msg) /\ conns' = [conns EXCEPT ![i] = d]
      <3>1. Handled(StreamFailed(conn, msg.id, kept, sent), conn, msg)
        BY <1>5, <1>6, <2>2, ConnectHandled DEF StreamFailed
      <3> QED BY <2>2, <3>1
    <2>3. CASE /\ msg.type = "disconnect"
               /\ conns' = [conns EXCEPT ![i] = StreamDisconnected(conn, msg.id)]
      BY <1>5, <1>6, <2>3, DisconnectHandled
    <2> QED BY <1>3, <2>1, <2>2, <2>3
  <1>7. /\ d \in Conn /\ d.inc = conn.inc /\ d.cid = conn.cid /\ d.srvOpen = conn.srvOpen
        /\ d.cliOpen = conn.cliOpen /\ d.toServer = conn.toServer
        /\ \A id \in d.streams :
              \/ id \in conn.streams /\ (msg = Removal(id) => id.client # conn.cid)
              \/ msg.type = "connect" /\ id = msg.id /\ id.client = conn.cid
    BY <1>8 DEF Handled
  <1>9. /\ conns' \in Connections /\ conns'[i] = d
        /\ \A j \in Slots : j # i => conns'[j] = conns[j]
    BY <1>1, <1>7, <1>8 DEF Connections
  <1>10. \A id \in d.streams : id.client = d.cid
    BY <1>4, <1>6, <1>7 DEF ConnOK
  <1>11. Served(conns', srv')
    <2>1. ConnOK(d, srv') BY <1>2, <1>4, <1>6, <1>7, <1>10 DEF ConnOK
    <2> QED BY <1>1, <1>2, <1>9, <2>1 DEF Served
  <1>12. Linked(conns', cl'.fd) BY <1>1, <1>2, <1>6, <1>7, <1>9 DEF Linked, c
  <1>13. AllReported(conns', cl')
    <2>1. CASE cl.fd = i
      <3>1. Reported(c, cl.streams) BY <1>1, <1>2, <2>1 DEF AllReported, c
      <3>2. d.toServer = Tail(c.toServer) BY <1>6, <1>7
      <3>3. \A id \in d.streams :
               \/ id \in c.streams /\ Head(c.toServer) # Removal(id)
               \/ /\ Head(c.toServer).type = "connect" /\ id = Head(c.toServer).id
                  /\ id.client # Unknown
        BY <1>2, <1>6, <1>7, <1>10
      <3>4. Reported(d, cl.streams) BY <1>2, <1>4, <1>7, <3>1, <3>2, <3>3, ReportedTail
      <3> QED BY <1>2, <1>9, <2>1, <3>4 DEF AllReported
    <2>2. CASE cl.fd # i BY <1>1, <1>2, <1>9, <2>2 DEF AllReported
    <2> QED BY <2>1, <2>2
  <1>14. Types' BY <1>2, <1>9 DEF IInv, Types
  <1>15. /\ ClientOK(cl') /\ StreamsOK(cl') /\ ServerOK(srv') /\ ShmOK(shm', srv')
         /\ ReadOK(rd', shm', cl'.mapped)
    BY <1>2 DEF IInv
  <1>16. IInv' BY <1>11, <1>12, <1>13, <1>14, <1>15 DEF IInv
  <1>17. \A j \in Slots : conns'[j].inc = conns[j].inc BY <1>6, <1>7, <1>9 DEF c
  <1> QED BY <1>16, <1>17

LEMMA remove_clientOK ==
  ASSUME IInv, NEW i \in Slots, remove_client(i) PROVE IInv'
  <1>1. /\ conns \in Connections /\ Served(conns, srv) /\ Linked(conns, cl.fd)
        /\ AllReported(conns, cl)
    BY DEF IInv, Types
  <1>2. ~conns[i].cliOpen /\ UNCHANGED <<srv, file, cl, rd, shm>>
    BY DEF remove_client
  <1>3. /\ conns' \in Connections
        /\ \A j \in Slots : j # i => conns'[j] = conns[j]
        /\ conns'[i].cliOpen = conns[i].cliOpen
        /\ ~conns'[i].srvOpen
        /\ Narrows(conns'[i], conns[i])
    <2> DEFINE n == ClosedByServer(conns, i)
    <2>1. conns' = n BY DEF remove_client
    <2>2. /\ n \in Connections
          /\ \A j \in Slots : j # i => n[j] = conns[j]
          /\ n[i].cliOpen = conns[i].cliOpen
          /\ ~n[i].srvOpen
          /\ Narrows(n[i], conns[i])
      BY <1>1, ClosedByServerFields
    <2> HIDE DEF n
    <2> QED BY <2>1, <2>2
  <1>4. Served(conns', srv')
    <2>1. ConnOK(conns'[i], srv) BY <1>1, <1>3, NarrowedConn DEF Served
    <2> QED BY <1>1, <1>2, <1>3, <2>1 DEF Served
  <1>5. Linked(conns', cl'.fd) BY <1>1, <1>2, <1>3 DEF Linked
  <1>6. AllReported(conns', cl') BY <1>1, <1>2, <1>3 DEF AllReported
  <1>7. Types' BY <1>2, <1>3 DEF IInv, Types
  <1>8. /\ ClientOK(cl') /\ StreamsOK(cl') /\ ServerOK(srv') /\ ShmOK(shm', srv')
        /\ ReadOK(rd', shm', cl'.mapped)
    BY <1>2 DEF IInv
  <1> QED BY <1>4, <1>5, <1>6, <1>7, <1>8 DEF IInv

\* The socket file stays a socket file.
LEMMA FileStays ==
  ASSUME NEW f \in SocketFile
  PROVE  bind(f) \in SocketFile /\ unlink(f) \in SocketFile
  <1>1. f.events \in Seq({"created", "deleted"}) BY DEF SocketFile
  <1>2. /\ Append(f.events, "created") \in Seq({"created", "deleted"})
        /\ Append(f.events, "deleted") \in Seq({"created", "deleted"})
    BY <1>1
  <1> QED BY <1>2 DEF bind, unlink, SocketFile

LEMMA create_and_listen_server_socketOK ==
  ASSUME IInv, create_and_listen_server_socket PROVE IInv'
  <1>1. /\ srv \in ServerState /\ ServerOK(srv) /\ ShmOK(shm, srv) /\ Served(conns, srv)
        /\ file \in SocketFile
    BY DEF IInv, Types
  <1>2. UNCHANGED <<conns, cl, rd, shm>> BY DEF create_and_listen_server_socket
  <1>3. file' \in SocketFile BY <1>1, FileStays DEF create_and_listen_server_socket
  <1>4. /\ srv.phase # "up" /\ srv.update = "none"
        /\ srv' \in ServerState /\ srv'.update = "none" /\ srv'.phase # "down"
        /\ \/ srv.phase = "down" /\ srv'.inc = srv.inc + 1 /\ srv.inc < MaxStarts
           \/ srv.phase # "down" /\ srv'.inc = srv.inc
    <2>1. srv.phase # "up" /\ srv.update = "none"
      BY <1>1 DEF create_and_listen_server_socket, ServerOK, ServerState
    <2>2. CASE /\ srv.phase = "down" /\ srv.inc < MaxStarts
               /\ srv' = [srv EXCEPT !.phase = "unlinked", !.inc = srv.inc + 1]
      <3> DEFINE k == srv.inc + 1
      <3>1. k \in 0..MaxStarts BY <1>1, <2>2, ClientAssumption DEF ServerState
      <3>2. srv' = [srv EXCEPT !.phase = "unlinked", !.inc = k] BY <2>2
      <3> HIDE DEF k
      <3>3. srv' \in ServerState /\ srv'.inc = k /\ srv'.phase = "unlinked" /\ srv'.update = srv.update
        BY <1>1, <3>1, <3>2 DEF ServerState
      <3> QED BY <2>1, <2>2, <3>3 DEF k
    <2>3. CASE srv.phase = "unlinked" /\ srv' = [srv EXCEPT !.phase = "bound"]
      BY <1>1, <2>1, <2>3 DEF ServerState
    <2>4. CASE srv.phase = "bound" /\ srv' = [srv EXCEPT !.phase = "up"]
      BY <1>1, <2>1, <2>4 DEF ServerState
    <2> QED BY <2>2, <2>3, <2>4 DEF create_and_listen_server_socket
  <1>5. Types' BY <1>2, <1>3, <1>4 DEF IInv, Types
  <1>6. Served(conns', srv')
    <2>1. \A i \in Slots : ~conns[i].srvOpen BY <1>1, <1>4 DEF Served, ConnOK
    <2> QED BY <1>1, <1>2, <2>1 DEF Served, ConnOK
  <1>7. srv.inc \in 0..MaxStarts BY <1>1 DEF ServerState
  <1>8. ServerOK(srv') BY <1>1, <1>4, <1>7 DEF ServerOK
  <1>9. ShmOK(shm', srv')
    <2>1. \A i \in 1..MaxStarts : RegionOK(shm[i], i, srv')
      <3>1. srv'.inc \in Nat /\ srv'.inc >= srv.inc BY <1>4, <1>7
      <3> QED BY <1>1, <1>7, <3>1 DEF ShmOK, RegionOK
    <2>2. UpdateOK(shm[srv'.inc], "none")
      <3>1. CASE srv.phase = "down"
        <4>1. srv'.inc \in 1..MaxStarts /\ srv'.inc > srv.inc BY <1>4, <1>7, <3>1, ClientAssumption
        <4>2. shm[srv'.inc] = Zeroed BY <1>1, <4>1 DEF ShmOK, RegionOK
        <4>3. Zeroed.count % 2 # 1 BY DEF Zeroed
        <4> QED BY <4>2, <4>3 DEF UpdateOK
      <3>2. CASE srv.phase # "down" BY <1>1, <1>4, <3>2 DEF ShmOK
      <3> QED BY <3>1, <3>2
    <2> QED BY <1>2, <1>4, <2>1, <2>2 DEF ShmOK
  <1>10. /\ ClientOK(cl') /\ StreamsOK(cl') /\ Linked(conns', cl'.fd) /\ AllReported(conns', cl')
         /\ ReadOK(rd', shm', cl'.mapped)
    BY <1>2 DEF IInv
  <1> QED BY <1>5, <1>6, <1>8, <1>9, <1>10 DEF IInv

LEMMA CrashOK ==
  ASSUME IInv, Crash PROVE IInv'
  <1>1. /\ srv \in ServerState /\ ServerOK(srv) /\ ShmOK(shm, srv) /\ shm \in Memories
        /\ conns \in Connections /\ Served(conns, srv) /\ Linked(conns, cl.fd)
        /\ ReadOK(rd, shm, cl.mapped)
    BY DEF IInv, Types
  <1>2. UNCHANGED <<file, cl, rd>> BY DEF Crash
  <1>3. /\ srv' \in ServerState /\ srv'.phase = "down" /\ srv'.update = "none" /\ srv'.inc = srv.inc
    BY <1>1 DEF Crash, ServerState
  <1>4. /\ conns' \in Connections
        /\ \A i \in Slots : /\ ~conns'[i].srvOpen /\ conns'[i].cliOpen = conns[i].cliOpen
                            /\ Narrows(conns'[i], conns[i])
    <2>1. \A i \in Slots : /\ conns'[i] \in Conn
                           /\ ~conns'[i].srvOpen /\ conns'[i].cliOpen = conns[i].cliOpen
                           /\ Narrows(conns'[i], conns[i])
      <3> TAKE i \in Slots
      <3>1. CASE conns[i].srvOpen
        <4> DEFINE n == ClosedByServer(conns, i)
        <4>1. conns'[i] = n[i] BY <3>1 DEF Crash
        <4>2. /\ n[i].cliOpen = conns[i].cliOpen /\ ~n[i].srvOpen /\ Narrows(n[i], conns[i])
          BY <1>1, ClosedByServerFields
        <4> HIDE DEF n
        <4>3. n[i] \in Conn BY <4>2 DEF Narrows
        <4> QED BY <4>1, <4>2, <4>3
      <3>2. CASE ~conns[i].srvOpen
        <4>1. conns'[i] = conns[i] BY <3>2 DEF Crash
        <4>2. conns[i] \in Conn BY <1>1 DEF Connections
        <4> QED BY <3>2, <4>1, <4>2, SameNarrows
      <3> QED BY <3>1, <3>2
    <2>2. conns' = [i \in Slots |-> conns'[i]] BY DEF Crash
    <2>3. conns' \in Connections BY <2>1, <2>2 DEF Connections
    <2> QED BY <2>1, <2>3
  <1>5. /\ shm' \in Memories
        /\ \A i \in 1..MaxStarts : i \in {cl.mapped} => shm'[i] = shm[i]
        /\ \A i \in 1..MaxStarts : shm'[i] \in {shm[i], Zeroed}
    <2> DEFINE n == Freed(shm, srv.inc, {cl.mapped})
    <2>1. /\ n \in Memories
          /\ \A i \in 1..MaxStarts : i \in {cl.mapped} => n[i] = shm[i]
          /\ \A i \in 1..MaxStarts : n[i] \in {shm[i], Zeroed}
      BY <1>1, FreedFields
    <2>2. shm' = n BY DEF Crash
    <2> HIDE DEF n
    <2> QED BY <2>1, <2>2
  <1>6. Types' BY <1>2, <1>3, <1>4, <1>5 DEF IInv, Types
  <1>7. Served(conns', srv')
    <2>1. \A i \in Slots : ConnOK(conns'[i], srv) BY <1>1, <1>4, NarrowedConn DEF Served
    <2> QED BY <1>4, <2>1 DEF Served, ConnOK
  <1>8. Linked(conns', cl'.fd) BY <1>1, <1>2, <1>4 DEF Linked
  <1>9. AllReported(conns', cl') BY <1>2, <1>4 DEF AllReported
  <1>10. ServerOK(srv') BY <1>3 DEF ServerOK
  <1>11. ShmOK(shm', srv')
    <2>1. Zeroed.count % 2 = 0 /\ Zeroed.a = Zeroed.b BY DEF Zeroed
    <2>2. \A i \in 1..MaxStarts : RegionOK(Zeroed, i, srv') BY <2>1 DEF RegionOK
    <2>3. \A i \in 1..MaxStarts : RegionOK(shm[i], i, srv') BY <1>1, <1>3 DEF ShmOK, RegionOK
    <2>4. \A i \in 1..MaxStarts : RegionOK(shm'[i], i, srv') BY <1>5, <2>2, <2>3
    <2> QED BY <1>3, <2>4 DEF ShmOK
  <1>12. ReadOK(rd', shm', cl'.mapped)
    <2> SUFFICES ReadOK(rd, shm', cl.mapped) BY <1>2
    <2>1. CASE cl.mapped \in 1..MaxStarts
      <3>1. shm'[cl.mapped] = shm[cl.mapped] BY <1>5, <2>1
      <3> QED BY <1>1, <3>1 DEF ReadOK
    <2>2. CASE cl.mapped \notin 1..MaxStarts
      BY <1>1, <2>2 DEF ReadOK
    <2> QED BY <2>1, <2>2
  <1>13. ClientOK(cl') /\ StreamsOK(cl') BY <1>2 DEF IInv
  <1> QED BY <1>6, <1>7, <1>8, <1>9, <1>10, <1>11, <1>12, <1>13 DEF IInv

LEMMA StutterOK == ASSUME IInv, UNCHANGED vars PROVE IInv'
  <1> USE DEF vars
  <1>1. Types' BY DEF IInv, Types
  <1>2. /\ ClientOK(cl') /\ StreamsOK(cl') /\ Served(conns', srv') /\ Linked(conns', cl'.fd)
        /\ AllReported(conns', cl') /\ ServerOK(srv') /\ ShmOK(shm', srv')
        /\ ReadOK(rd', shm', cl'.mapped)
    BY DEF IInv
  <1> QED BY <1>1, <1>2 DEF IInv

\* Every step preserves the invariant.
LEMMA StepOK == IInv /\ [Next]_vars => IInv'
  <1> SUFFICES ASSUME IInv, [Next]_vars PROVE IInv' OBVIOUS
  <1>1. CASE ServeDescriptors
    BY <1>1, HangUpOK, error_delay_next_actionOK, TimerExpiresOK, wait_for_socket_next_actionOK,
       NothingToDoOK, wait_for_writable_next_actionOK, first_message_next_actionOK,
       handle_message_from_serverOK, sock_file_wait_callbackOK
    DEF ServeDescriptors
  <1>2. CASE Commands
    <2>1. CASE \E s \in cl.streams : cras_client_rm_stream(s) \/ handle_stream_message(s)
      BY <2>1, client_thread_rm_streamOK DEF cras_client_rm_stream, handle_stream_message
    <2> QED BY <1>2, <2>1, cras_client_run_threadOK, cras_client_connect_asyncOK, connect_to_serverOK,
       ConnectGivesUpOK, cras_client_add_streamOK, cras_client_stopOK
       DEF Commands
  <1>3. CASE server_state_rdlock \/ ReadState \/ sched_yield
    BY <1>3, server_state_rdlockOK, begin_server_state_readOK, CopyFieldOK, CheckCountOK, StutterOK
    DEF ReadState, sched_yield
  <1>4. CASE ServeClients
    BY <1>4, handle_new_connectionOK, handle_message_from_clientOK, remove_clientOK,
       UpdateExportedStateOK
    DEF ServeClients
  <1>5. CASE create_and_listen_server_socket \/ Crash
    BY <1>5, create_and_listen_server_socketOK, CrashOK
  <1>6. CASE UNCHANGED vars
    BY <1>6, StutterOK
  <1> QED BY <1>1, <1>2, <1>3, <1>4, <1>5, <1>6 DEF Next

LEMMA Invariance == Spec => []IInv
  BY InitOK, StepOK, PTL DEF Spec

-----------------------------------------------------------------------------
\* The memory that is mapped is that of the server at the other end of the
\* connection; after a failed mmap the disconnect is due.
MapOK ==
    /\ cl.mapped = MapFailed => cl.todo = "hup"
    /\ cl.mapped \notin {0, MapFailed} => cl.fd \in Slots /\ cl.mapped = conns[cl.fd].inc

\* The client's connection stays one to the same server.
SameServer == cl.fd \in Slots => conns'[cl.fd].inc = conns[cl.fd].inc

LEMMA MapKept ==
  ASSUME MapOK, SameServer, cl'.mapped = cl.mapped, cl'.fd = cl.fd,
         cl'.todo = cl.todo \/ cl.todo = "none"
  PROVE  MapOK'
  BY DEF MapOK, SameServer

LEMMA Unmapped ==
  ASSUME cl'.mapped = 0
  PROVE  MapOK'
  BY DEF MapOK, MapFailed

\* Without a connection nothing is mapped, and none of these steps maps it.
LEMMA UnconnectedMap ==
  ASSUME IInv, \/ error_delay_next_action \/ TimerExpires \/ wait_for_socket_next_action
               \/ NothingToDo \/ wait_for_writable_next_action
  PROVE  MapOK'
  <1>1. cl \in ClientState /\ ClientOK(cl) BY DEF IInv, Types
  <1>2. cl'.mapped = cl.mapped
    BY <1>1 DEF error_delay_next_action, TimerExpires, wait_for_socket_next_action, NothingToDo,
                wait_for_writable_next_action, ConnectSucceeds, ConnectRefused, ConnectError,
                ConnectAgain, ClientState
  <1>3. cl.mapped = 0
    BY <1>1 DEF ClientOK, error_delay_next_action, TimerExpires, wait_for_socket_next_action,
                NothingToDo, wait_for_writable_next_action, Goes, Disconnected, WaitForSocket,
                WaitForWritable, FirstMessage, Connected, ErrorDelay
  <1> QED BY <1>2, <1>3, Unmapped

\* The disconnect unmaps.
LEMMA HangUpMap ==
  ASSUME IInv, HangUp
  PROVE  MapOK'
  <1> DEFINE n == disconnect_transition_action(cl)
  <1>1. cl' = [n EXCEPT !.todo = "go"] BY DEF HangUp
  <1>2. n \in ClientState /\ n.mapped = 0 BY DisconnectedFields DEF IInv, Types
  <1> HIDE DEF n
  <1>3. cl'.mapped = 0 BY <1>1, <1>2 DEF ClientState
  <1> QED BY <1>3, Unmapped

\* The events of the socket file.
LEMMA FileEventMap ==
  ASSUME IInv, MapOK, sock_file_wait_callback
  PROVE  MapOK'
  <1>1. /\ cl \in ClientState /\ cl.todo = "none" /\ ClientOK(cl)
        /\ \/ cl' = Created(cl) /\ UNCHANGED conns
           \/ cl' = Deleted(cl) /\ (cl.state = Disconnected => conns' = conns)
    <2>1. file \in SocketFile /\ file.events # <<>>
      BY DEF IInv, Types, sock_file_wait_callback
    <2>2. Head(file.events) \in {"created", "deleted"} BY <2>1 DEF SocketFile
    <2> QED BY <2>2 DEF IInv, Types, sock_file_wait_callback, AtPoll
  <1>2. CASE cl' = Created(cl) /\ UNCHANGED conns
    <2>1. cl'.mapped = cl.mapped /\ cl'.fd = cl.fd BY <1>1, <1>2 DEF Created, ClientState
    <2> QED BY <1>1, <1>2, <2>1, MapKept DEF SameServer
  <1>3. CASE cl' = Deleted(cl) /\ cl.state = Disconnected
    <2>1. cl'.mapped = cl.mapped BY <1>1, <1>3 DEF Deleted, ClientState
    <2>2. cl.mapped = 0
      BY <1>1, <1>3 DEF ClientOK, Disconnected, FirstMessage, Connected
    <2> QED BY <2>1, <2>2, Unmapped
  <1>4. CASE cl' = Deleted(cl) /\ cl.state # Disconnected
    <2> DEFINE no == FALSE
               down == [cl EXCEPT !.exists = no, !.state = Disconnected]
               n == disconnect_transition_action(down)
    <2>1. cl' = [n EXCEPT !.state = WaitForSocket, !.todo = "go"] BY <1>4 DEF Deleted
    <2>2. no \in BOOLEAN OBVIOUS
    <2> HIDE DEF no
    <2>3. down \in ClientState BY <1>1, <2>2 DEF ClientState
    <2> HIDE DEF down
    <2>4. n \in ClientState /\ n.mapped = 0 BY <2>3, DisconnectedFields
    <2> HIDE DEF n
    <2>5. cl'.mapped = 0 BY <2>1, <2>4 DEF ClientState
    <2> QED BY <2>5, Unmapped
  <1> QED BY <1>1, <1>2, <1>3, <1>4

\* The messages of the server: the first one maps its state.
LEMMA ReceivedSameServer ==
  ASSUME IInv, cl.fd \in Slots, conns[cl.fd].toClient # <<>>, conns' = Received(conns)
  PROVE  SameServer
  <1>1. conns \in Connections BY DEF IInv, Types
  <1> QED BY <1>1, ReceivedFields DEF SameServer

LEMMA FirstMessageMap ==
  ASSUME IInv, MapOK, first_message_next_action
  PROVE  MapOK'
  <1> DEFINE conn == conns[cl.fd]
             at == [client_attach_shm(cl, conn.inc) EXCEPT !.id = conn.cid]
  <1>1. cl \in ClientState /\ ClientOK(cl) BY DEF IInv, Types
  <1>2. /\ cl.state = FirstMessage /\ cl.todo = "none" /\ cl.fd \in Slots
        /\ conns[cl.fd].toClient # <<>> /\ conns' = Received(conns)
    BY DEF first_message_next_action, MessageWaits, AtPoll
  <1>3. SameServer BY <1>2, ReceivedSameServer
  <1>5. \/ cl' = connect_transition_action(at)
        \/ \E m \in {0, MapFailed} : cl' = [client_attach_shm(cl, m) EXCEPT !.todo = "hup"]
        \/ cl' = [at EXCEPT !.todo = "hup"]
        \/ cl' = [cl EXCEPT !.todo = "hup"]
    BY DEF first_message_next_action
  <1>6. CASE cl'.mapped = conn.inc /\ cl'.fd = cl.fd /\ conn.inc # MapFailed
    BY <1>2, <1>3, <1>6 DEF MapOK, SameServer
  <1>7. CASE cl'.mapped = 0 BY <1>7, Unmapped
  <1>8. CASE cl'.mapped = MapFailed /\ cl'.todo = "hup" BY <1>8 DEF MapOK
  <1>9. conn.inc # MapFailed
    <2>1. conn.inc \in 0..MaxStarts BY <1>2 DEF IInv, Types, Connections, Conn
    <2> QED BY <2>1, ClientAssumption DEF MapFailed
  <1>10. CASE cl' = connect_transition_action(at) \/ cl' = [at EXCEPT !.todo = "hup"]
    <2>1. cl'.mapped = conn.inc /\ cl'.fd = cl.fd
      BY <1>1, <1>10 DEF connect_transition_action, AfterConnect, client_attach_shm, ClientState
    <2> QED BY <1>6, <1>9, <2>1
  <1>11. ASSUME NEW m \in {0, MapFailed}, cl' = [client_attach_shm(cl, m) EXCEPT !.todo = "hup"]
         PROVE  MapOK'
    <2>1. cl'.mapped = m /\ cl'.todo = "hup" BY <1>1, <1>11 DEF client_attach_shm, ClientState
    <2> QED BY <1>7, <1>8, <2>1
  <1>12. CASE cl' = [cl EXCEPT !.todo = "hup"]
    <2>1. cl'.mapped = cl.mapped /\ cl'.fd = cl.fd BY <1>1, <1>12 DEF ClientState
    <2> QED BY <1>2, <1>3, <2>1, MapKept
  <1> QED BY <1>5, <1>10, <1>11, <1>12

LEMMA MessageMap ==
  ASSUME IInv, MapOK, handle_message_from_server
  PROVE  MapOK'
  <1>1. /\ cl \in ClientState /\ cl.todo = "none" /\ cl.fd \in Slots
        /\ conns[cl.fd].toClient # <<>> /\ conns' = Received(conns)
    BY DEF IInv, Types, handle_message_from_server, MessageWaits, AtPoll
  <1>2. cl'.mapped = cl.mapped /\ cl'.fd = cl.fd
    BY <1>1 DEF handle_message_from_server, ClientState
  <1>3. SameServer BY <1>1, ReceivedSameServer
  <1> QED BY <1>1, <1>2, <1>3, MapKept

\* The commands of the application.
LEMMA CommandMap ==
  ASSUME IInv, MapOK, Commands
  PROVE  MapOK'
  <1>1. cl \in ClientState /\ conns \in Connections BY DEF IInv, Types
  <1>2. cl.streams \subseteq Stream /\ IsFiniteSet(cl.streams)
    BY DEF IInv, Types, ClientState
  <1>3. CASE \/ cras_client_run_thread \/ cras_client_connect_async \/ connect_to_server
             \/ ConnectGivesUp
    <2>1. cl'.mapped = cl.mapped /\ cl'.fd = cl.fd /\ conns' = conns
      BY <1>1, <1>3 DEF cras_client_run_thread, cras_client_connect_async, connect_to_server,
                        ConnectGivesUp, server_connect, AfterConnect, ClientState
    <2>2. cl'.todo = cl.todo \/ cl.todo = "none" \/ cl.mapped = 0
      <3>1. CASE cras_client_run_thread BY <1>1, <3>1 DEF cras_client_run_thread, ClientState
      <3>2. CASE cras_client_connect_async
        BY <3>2 DEF cras_client_connect_async, CommandWaits, AtPoll
      <3>3. CASE connect_to_server
        <4>1. CASE cl.state = Disconnected
          BY <4>1 DEF IInv, ClientOK, Disconnected, FirstMessage, Connected
        <4>2. CASE cl.state # Disconnected
          BY <1>1, <3>3, <4>2 DEF connect_to_server, server_connect, ClientState
        <4> QED BY <4>1, <4>2
      <3>4. CASE ConnectGivesUp BY <3>4 DEF ConnectGivesUp
      <3> QED BY <1>3, <3>1, <3>2, <3>3, <3>4
    <2> QED BY <2>1, <2>2, MapKept, Unmapped DEF SameServer
  <1>4. CASE cras_client_add_stream
    <2> DEFINE msg == [type |-> "connect", id |-> [client |-> cl.id, n |-> cl.next]]
               q == <<msg>>
    <2>1. /\ cl'.mapped = cl.mapped /\ cl'.fd = cl.fd /\ cl.todo = "none"
          /\ conns' = Written(conns, cl.fd, q)
      BY <1>1, <1>4 DEF cras_client_add_stream, client_thread_add_stream, send_connect_message,
                        CommandWaits, AtPoll, ClientState
    <2>2. msg \in Request BY <1>1 DEF Request, StreamId, ClientState
    <2>3. q \in Seq(Request) BY <2>2
    <2> HIDE DEF q
    <2>4. SameServer BY <1>1, <2>1, <2>3, WrittenFields DEF SameServer
    <2> QED BY <2>1, <2>4, MapKept
  <1>5. ASSUME NEW ss \in SUBSET cl.streams, conns' = ToldOfRemoval(conns, cl, ss)
        PROVE  SameServer
    <2>1. IsFiniteSet(ss) BY <1>2, FS_Subset
    <2> QED BY <1>1, <1>2, <1>5, <2>1, ToldFields DEF SameServer
  <1>6. CASE \E s \in cl.streams : cras_client_rm_stream(s) \/ handle_stream_message(s)
    <2>1. PICK s \in cl.streams : client_thread_rm_stream(s)
      BY <1>6 DEF cras_client_rm_stream, handle_stream_message
    <2>2. /\ cl'.mapped = cl.mapped /\ cl'.fd = cl.fd /\ cl.todo = "none"
          /\ conns' = ToldOfRemoval(conns, cl, {s})
      BY <1>1, <2>1 DEF client_thread_rm_stream, CommandWaits, AtPoll, ClientState
    <2>3. SameServer BY <1>5, <2>2
    <2> QED BY <2>2, <2>3, MapKept
  <1>7. CASE cras_client_stop
    <2>1. /\ cl'.mapped = cl.mapped /\ cl'.fd = cl.fd /\ cl.todo = "none"
          /\ conns' = ToldOfRemoval(conns, cl, cl.streams)
      BY <1>1, <1>7 DEF cras_client_stop, CommandWaits, AtPoll, ClientState
    <2>2. SameServer BY <1>5, <2>1
    <2> QED BY <2>1, <2>2, MapKept
  <1> QED BY <1>3, <1>4, <1>6, <1>7 DEF Commands

\* The server answers, closes, starts and dies: the client's end is still one
\* of the server it was.
LEMMA ServerMap ==
  ASSUME IInv, MapOK, ServeClients \/ create_and_listen_server_socket \/ Crash
  PROVE  MapOK'
  <1>1. conns \in Connections /\ Linked(conns, cl.fd) BY DEF IInv, Types
  <1>2. cl' = cl
    BY DEF ServeClients, handle_new_connection, handle_message_from_client, remove_client,
           UpdateExportedState, create_and_listen_server_socket, Crash
  <1>3. SUFFICES SameServer BY <1>2, MapKept
  <1>4. SUFFICES ASSUME cl.fd \in Slots PROVE conns'[cl.fd].inc = conns[cl.fd].inc
    BY DEF SameServer
  <1>5. conns[cl.fd].cliOpen BY <1>1, <1>4 DEF Linked
  <1>6. ASSUME NEW i \in Slots, handle_new_connection(i) PROVE conns'[cl.fd].inc = conns[cl.fd].inc
    BY <1>4, <1>6, handle_new_connectionOK
  <1>7. ASSUME NEW i \in Slots, handle_message_from_client(i)
        PROVE  conns'[cl.fd].inc = conns[cl.fd].inc
    BY <1>4, <1>7, handle_message_from_clientOK
  <1>8. ASSUME NEW i \in Slots, remove_client(i) PROVE conns'[cl.fd].inc = conns[cl.fd].inc
    <2>1. i # cl.fd /\ conns' = ClosedByServer(conns, i) BY <1>5, <1>8 DEF remove_client
    <2> QED BY <1>1, <1>4, <2>1, ClosedByServerFields
  <1>9. CASE UpdateExportedState \/ create_and_listen_server_socket
    BY <1>9 DEF UpdateExportedState, create_and_listen_server_socket
  <1>10. CASE Crash
    <2>1. CASE conns[cl.fd].srvOpen
      <3> DEFINE n == ClosedByServer(conns, cl.fd)
      <3>1. conns'[cl.fd] = n[cl.fd] BY <1>4, <1>10, <2>1 DEF Crash
      <3>2. n[cl.fd].inc = conns[cl.fd].inc BY <1>1, <1>4, <1>5, ClosedByServerFields
      <3> HIDE DEF n
      <3> QED BY <3>1, <3>2
    <2>2. CASE ~conns[cl.fd].srvOpen BY <1>4, <1>10, <2>2 DEF Crash
    <2> QED BY <2>1, <2>2
  <1> QED BY <1>6, <1>7, <1>8, <1>9, <1>10 DEF ServeClients

LEMMA MapStep == IInv /\ MapOK /\ [Next]_vars => MapOK'
  <1> SUFFICES ASSUME IInv, MapOK, [Next]_vars PROVE MapOK' OBVIOUS
  <1>1. CASE ServeDescriptors
    BY <1>1, HangUpMap, UnconnectedMap, FirstMessageMap, MessageMap, FileEventMap
    DEF ServeDescriptors
  <1>2. CASE Commands BY <1>2, CommandMap
  <1>3. CASE server_state_rdlock \/ ReadState \/ sched_yield \/ UNCHANGED vars
    <2>1. cl' = cl /\ conns' = conns
      BY <1>3 DEF server_state_rdlock, ReadState, begin_server_state_read, CopyField, CheckCount,
                  sched_yield, vars
    <2> QED BY <2>1, MapKept DEF SameServer
  <1>4. CASE ServeClients \/ create_and_listen_server_socket \/ Crash BY <1>4, ServerMap
  <1> QED BY <1>1, <1>2, <1>3, <1>4 DEF Next

LEMMA MapInvariance == Spec => []MapOK
  <1>1. Init => MapOK BY DEF Init, MapOK, MapFailed
  <1> QED BY <1>1, Invariance, MapStep, PTL DEF Spec

-----------------------------------------------------------------------------
\* The types, and next_stream_id is ahead of every id in use: two streams of
\* the client never share one.
THEOREM ClientTypeCorrect == Spec => []TypeOK
  <1>1. IInv => TypeOK
    BY DEF IInv, Types, TypeOK, StreamsOK, ServerState, SocketFile, ClientState, Reader
  <1> QED BY Invariance, <1>1, PTL

\* Whenever the control thread is back at its poll, server_fd_state, the event,
\* the id, server_state and server_fd all say the same about the connection.
THEOREM ConnectionStateAgrees == Spec => []ConnectionAgrees
  <1>1. IInv => ConnectionAgrees
    BY
      DEF IInv, ClientOK, ConnectionAgrees, Disconnected, WaitForSocket, WaitForWritable,
          FirstMessage, Connected, ErrorDelay
  <1> QED BY Invariance, <1>1, PTL

\* No unmapping under the read lock, because the control thread takes the write
\* lock on every path that unmaps, and no reading of another server's memory
\* than the one at the other end of the connection.  A reader that follows the
\* pointer of a failed mmap has not read anything yet, and a disconnect is due.
THEOREM MappingOutlivesReader == Spec => []ReaderKeepsMapping
  <1>1. IInv /\ MapOK => ReaderKeepsMapping
    <2> SUFFICES ASSUME IInv, MapOK, rd.at # "idle"
                 PROVE  IF cl.mapped = MapFailed THEN rd.at = "begin" /\ cl.todo = "hup"
                        ELSE cl.mapped # 0 /\ cl.fd \in Slots /\ cl.mapped = conns[cl.fd].inc
      BY DEF ReaderKeepsMapping
    <2>1. /\ cl.mapped # 0 /\ (rd.at # "begin" => cl.mapped \in 1..MaxStarts)
      BY DEF IInv, Types, Reader, ReadOK
    <2>2. MapFailed \notin 1..MaxStarts BY ClientAssumption DEF MapFailed
    <2> QED BY <2>1, <2>2 DEF MapOK
  <1> QED BY Invariance, MapInvariance, <1>1, PTL

\* A stream of an earlier connection is never left on the list, in whatever
\* order the hang-up, the file events and the commands come.
THEOREM NoStreamSurvivesReconnect == Spec => []StreamsOfThisConnection
  <1>1. IInv => StreamsOfThisConnection
    BY DEF IInv, StreamsOK, StreamsOfThisConnection
  <1> QED BY Invariance, <1>1, PTL

\* The server does not run a stream that the client gave up without a removal
\* on its way.
THEOREM ServerRunsNoOrphan == Spec => []NoOrphanStream
  <1>1. IInv => NoOrphanStream
    <2> SUFFICES ASSUME IInv, NEW i \in Slots, conns[i].srvOpen, conns[i].cliOpen,
                        NEW id \in conns[i].streams
                 PROVE  \/ StreamOf(cl, id) # {}
                        \/ \E k \in DOMAIN conns[i].toServer :
                              conns[i].toServer[k] = [type |-> "disconnect", id |-> id]
      BY DEF NoOrphanStream
    <2>1. cl.fd = i BY DEF IInv, Linked
    <2>2. Reported(conns[i], cl.streams) BY <2>1 DEF IInv, AllReported
    <2>3. conns[i].toServer \in Seq(Request) BY DEF IInv, Types, Connections, Conn
    <2>4. DOMAIN conns[i].toServer = 1..Len(conns[i].toServer) BY <2>3
    <2>5. Listed(cl.streams, id) => StreamOf(cl, id) # {} BY DEF Listed, StreamOf
    <2> QED BY <2>2, <2>4, <2>5 DEF Reported, Removal
  <1> QED BY Invariance, <1>1, PTL

\* begin_server_state_read and end_server_state_read: an accepted copy is not a
\* mixture of two states, also across a crash and with a reader that never
\* waits for the server.
THEOREM AcceptedSnapshotIsConsistent == Spec => SnapshotIsConsistent
  <1>1. IInv /\ [Next]_vars => [rd.at = "end" /\ rd'.at = "idle" => rd.a = rd.b]_vars
    <2> SUFFICES ASSUME IInv, Next, rd.at = "end", rd'.at = "idle" PROVE rd.a = rd.b
      OBVIOUS
    <2>1. rd' # rd OBVIOUS
    <2>2. CheckCount
      BY <2>1 DEF Next, ServeDescriptors, Commands, ReadState, ServeClients, vars,
        HangUp, error_delay_next_action, TimerExpires, wait_for_socket_next_action, NothingToDo,
        wait_for_writable_next_action, first_message_next_action, handle_message_from_server,
        sock_file_wait_callback, cras_client_run_thread, cras_client_connect_async,
        connect_to_server, ConnectGivesUp, cras_client_add_stream, cras_client_stop,
        cras_client_rm_stream, handle_stream_message, client_thread_rm_stream,
        server_state_rdlock, begin_server_state_read, CopyField, sched_yield,
        handle_new_connection, handle_message_from_client, remove_client, UpdateExportedState,
        create_and_listen_server_socket, Crash
    <2> QED BY <2>2, AcceptedCopy
  <1> QED BY Invariance, <1>1, PTL DEF Spec, SnapshotIsConsistent
=============================================================================
