------------------------------- MODULE Client -------------------------------
(***************************************************************************)
(* A libcras client and its connection to the server:                      *)
(* src/cras/src/libcras/cras_client.c with the socket-file watch of        *)
(* cras_file_wait.c on the client's side; the listening socket and the     *)
(* clients of cras_server.c, the stream requests of cras_rclient_util.c    *)
(* and the exported state of cras_system_state.c on the server's.          *)
(*                                                                         *)
(* Four parties interleave: the client's control thread, which drives the  *)
(* connection's state machine; the application, which sends it commands    *)
(* and reads the exported state in shared memory; the server's main        *)
(* thread; and the init system, which starts the server again after a      *)
(* crash.  A crash leaves the socket file behind, and the next server      *)
(* deletes and re-creates it.  What the streams carry is not modelled      *)
(* here.                                                                   *)
(***************************************************************************)
EXTENDS Integers, Sequences, SequencesExt

CONSTANTS
    MaxStarts,   \* how often the server is started
    MaxConns,    \* connections that exist at a time
    MaxAdds,     \* streams the application adds
    MaxFaults,   \* failures of system calls and of adding streams
    Reads        \* whether the application reads the exported state

ASSUME ClientAssumption ==
    /\ {MaxStarts, MaxConns} \subseteq Nat \ {0}
    /\ {MaxAdds, MaxFaults} \subseteq Nat
    /\ Reads \in BOOLEAN

Slots == 1..MaxConns
Unknown == -1      \* the client id before it is known
MapFailed == -1    \* server_state after mmap failed: not NULL, and not mapped

\* server_fd: closed, a timer, a socket that is not connected, or a connection.
NoFd == 0
Timer == -1
Socket == -2

Disconnected == "DISCONNECTED"
WaitForSocket == "WAIT_FOR_SOCKET"
WaitForWritable == "WAIT_FOR_WRITABLE"
FirstMessage == "FIRST_MESSAGE"
Connected == "CONNECTED"
ErrorDelay == "ERROR_DELAY"

VARIABLES
    srv,     \* the server process: phase, start number, next client id, step of an update
    file,    \* the socket file: whether it exists, and the client's unread file events
    conns,   \* connections between the two, by slot
    cl,      \* struct cras_client
    rd,      \* the application thread that reads the exported state
    shm,     \* the exported state of each server: update count and two of its fields
    faults   \* failures that may still happen

vars == <<srv, file, conns, cl, rd, shm, faults>>

NoConn == [inc |-> 0, cid |-> Unknown, srvOpen |-> FALSE, cliOpen |-> FALSE,
           toServer |-> <<>>, toClient |-> <<>>, streams |-> {}, lost |-> {}]

Zeroed == [count |-> 0, a |-> 0, b |-> 0]

Init ==
    /\ srv = [phase |-> "down", inc |-> 0, next |-> 0, update |-> "none"]
    /\ file = [exists |-> FALSE, events |-> <<>>]
    /\ conns = [i \in Slots |-> NoConn]
    /\ cl = [state |-> Disconnected, fd |-> NoFd, id |-> Unknown, mapped |-> 0,
             event |-> FALSE, exists |-> FALSE, streams |-> {}, next |-> 0,
             todo |-> "none", loop |-> "none", running |-> FALSE, missed |-> FALSE]
    /\ rd = [at |-> "idle", count |-> 0, a |-> 0, b |-> 0]
    /\ shm = [i \in 1..MaxStarts |-> Zeroed]
    /\ faults = 0

(***************************************************************************)
(* Fields of cl: state (server_fd_state), fd (server_fd), id, mapped (the  *)
(* server whose server_state is mapped, 0 for NULL), event (the value of   *)
(* server_event_fd), exists (sock_file_exists), streams, next              *)
(* (next_stream_id), running (the control thread).  loop is the loop that  *)
(* serves the descriptors: "poll" in client_thread, "connect" in           *)
(* connect_to_server.  todo is the call server_fd_dispatch has still to    *)
(* make of itself: "go" with no events, "hup" with POLLHUP.  Two parts are *)
(* kept for the properties: missed, that the last connect was refused by a *)
(* server that had bound its socket and not called listen yet; and lost in *)
(* a connection, the messages that the server could not send to a client   *)
(* which was there (the socket does not block, and may be full).           *)
(***************************************************************************)
Serving == cl.loop # "none"
AtPoll == Serving /\ cl.todo = "none"

\* server_state_rwlock is free for a writer.
LockFree == rd.at = "idle"

Live(cn, fd) == fd \in Slots /\ cn[fd].srvOpen

\* A failure is counted against MaxFaults.
Fails == faults < MaxFaults /\ faults' = faults + 1
NoFault == UNCHANGED faults

-----------------------------------------------------------------------------
\* Messages.

Written(cn, fd, msgs) ==
    IF Live(cn, fd) THEN [cn EXCEPT ![fd].toServer = @ \o msgs] ELSE cn

ClosedByClient(cn, fd) ==
    IF fd \notin Slots THEN cn
    ELSE IF cn[fd].srvOpen
    THEN [cn EXCEPT ![fd].cliOpen = FALSE, ![fd].toClient = <<>>]
    ELSE [cn EXCEPT ![fd] = NoConn]

ClosedByServer(cn, i) ==
    [cn EXCEPT ![i] = IF ~@.cliOpen THEN NoConn
                      ELSE [@ EXCEPT !.srvOpen = FALSE, !.toServer = <<>>, !.streams = {}]]

\* Shared memory is freed with its last user, the server or the client.
Freed(mem, inc, users) == IF inc \notin DOMAIN mem \/ inc \in users THEN mem ELSE [mem EXCEPT ![inc] = Zeroed]

\* The server that runs.
Alive == IF srv.phase = "down" THEN {} ELSE {srv.inc}

StreamOf(c, id) == {s \in c.streams : s.id = id}

\* client_thread_rm_stream tells the server about the streams ss.
ToldOfRemoval(cn, c, ss) ==
    IF c.state = Connected
    THEN Written(cn, c.fd, SetToSeq({[type |-> "disconnect", id |-> s.id] : s \in ss}))
    ELSE cn

-----------------------------------------------------------------------------
\* The connection's state machine (control thread).

MutKeepStreams(c) ==
    [c EXCEPT !.mapped = 0, !.id = Unknown, !.fd = NoFd, !.event = FALSE, !.missed = FALSE,
              !.state = IF c.state = Connected THEN WaitForSocket
                        ELSE IF c.state \in {ErrorDelay, Disconnected} THEN Disconnected
                        ELSE ErrorDelay]

MutEventStaysSet(c) ==
    [c EXCEPT !.streams = {}, !.mapped = 0, !.id = Unknown, !.fd = NoFd, !.missed = FALSE,
              !.state = IF c.state = Connected THEN WaitForSocket
                        ELSE IF c.state \in {ErrorDelay, Disconnected} THEN Disconnected
                        ELSE ErrorDelay]

\* disconnect_transition_action on the client's own state.
disconnect_transition_action(c) ==
    [c EXCEPT
       !.streams = {},
       !.mapped = 0,
       !.id = Unknown,
       !.fd = NoFd,
       !.event = FALSE,
       !.missed = FALSE,
       !.state = IF c.state = Connected THEN WaitForSocket
                 ELSE IF c.state \in {ErrorDelay, Disconnected} THEN Disconnected
                 ELSE ErrorDelay]

ConnsAfterDisconnect(cn, c) == ClosedByClient(ToldOfRemoval(cn, c, c.streams), c.fd)

MutHupWithoutLock == cl.todo = "hup" \/ (AtPoll /\ cl.fd = Socket)
                                     \/ (AtPoll /\ cl.fd \in Slots /\ ~conns[cl.fd].srvOpen)

\* The disconnect needs the write lock; an unconnected socket polls as hung up.
MayHangUp ==
    /\ LockFree
    /\ \/ cl.todo = "hup"
       \/ AtPoll /\ cl.fd = Socket
       \/ AtPoll /\ cl.fd \in Slots /\ ~conns[cl.fd].srvOpen

\* server_fd_dispatch with POLLHUP: clean up, then act in the new state.
HangUp ==
    /\ MayHangUp
    /\ cl' = [disconnect_transition_action(cl) EXCEPT !.todo = "go"]
    /\ conns' = ConnsAfterDisconnect(conns, cl)
    /\ shm' = Freed(shm, cl.mapped, Alive)
    /\ UNCHANGED <<srv, file, rd, faults>>

Goes(state) == cl.todo = "go" /\ cl.state = state

\* No file descriptor is left for the timer: give up.
error_delay_next_action ==
    /\ Goes(ErrorDelay)
    /\ \/ NoFault /\ cl' = [cl EXCEPT !.fd = Timer, !.todo = "none"]
       \/ Fails /\ cl' = [cl EXCEPT !.todo = "hup"]
    /\ UNCHANGED <<srv, file, conns, rd, shm>>

TimerExpires ==
    /\ AtPoll /\ cl.state = ErrorDelay /\ cl.fd = Timer
    /\ cl' = [cl EXCEPT !.fd = NoFd, !.state = WaitForSocket, !.todo = "go"]
    /\ UNCHANGED <<srv, file, conns, rd, shm, faults>>

wait_for_socket_next_action ==
    /\ Goes(WaitForSocket)
    /\ cl' = IF cl.exists THEN [cl EXCEPT !.state = WaitForWritable]
             ELSE [cl EXCEPT !.todo = "none"]
    /\ UNCHANGED <<srv, file, conns, rd, shm, faults>>

\* In the remaining states there is nothing to do without events.
NothingToDo ==
    /\ \/ Goes(Disconnected) \/ Goes(FirstMessage) \/ Goes(Connected)
       \/ Goes(WaitForWritable) /\ cl.fd # NoFd
    /\ cl' = [cl EXCEPT !.todo = "none"]
    /\ UNCHANGED <<srv, file, conns, rd, shm, faults>>

FreeSlots == {i \in Slots : conns[i] = NoConn}

\* connect() meets the server, or a file nobody listens on, or no file.
ConnectSucceeds ==
    LET i == CHOOSE j \in FreeSlots : \A k \in FreeSlots : j <= k
    IN  /\ cl' = [cl EXCEPT !.fd = i, !.state = FirstMessage, !.todo = "none", !.missed = FALSE]
        /\ conns' = [conns EXCEPT ![i] = [NoConn EXCEPT !.inc = srv.inc, !.srvOpen = TRUE,
                                                       !.cliOpen = TRUE]]

ConnectRefused ==
    /\ cl' = [cl EXCEPT !.fd = NoFd, !.todo = "none", !.missed = srv.phase # "down"]
    /\ UNCHANGED conns

ConnectError ==
    /\ cl' = [cl EXCEPT !.fd = Socket, !.todo = "hup"]
    /\ UNCHANGED conns

\* -EAGAIN: wait until the socket is writable.
ConnectAgain ==
    /\ cl' = [cl EXCEPT !.fd = Socket, !.todo = "none"]
    /\ UNCHANGED conns

\* A stale file refuses, and so does a socket that is bound and does not listen
\* yet, or is not accessible to the group before its chmod.
wait_for_writable_next_action ==
    /\ \/ Goes(WaitForWritable) /\ cl.fd = NoFd
       \/ AtPoll /\ cl.state = WaitForWritable /\ cl.fd = Socket
    /\ \/ NoFault /\ srv.phase = "up" /\ FreeSlots # {} /\ ConnectSucceeds
       \/ Fails /\ srv.phase = "up" /\ ConnectAgain
       \/ NoFault /\ file.exists /\ srv.phase \in {"down", "bound"} /\ ConnectRefused
       \/ NoFault /\ (srv.phase = "bound" \/ ~file.exists) /\ ConnectError
       \/ Fails /\ cl.fd = NoFd /\ ConnectError
    /\ UNCHANGED <<srv, file, rd, shm>>

-----------------------------------------------------------------------------
\* Messages from the server (control thread).

Received(cn) == [cn EXCEPT ![cl.fd].toClient = Tail(@)]

MessageWaits(state) ==
    /\ AtPoll /\ cl.state = state /\ cl.fd \in Slots
    /\ conns[cl.fd].srvOpen /\ conns[cl.fd].toClient # <<>>

\* The loop of connect_to_server ends when the client is connected.
AfterConnect(c) == [c EXCEPT !.loop = IF c.running THEN "poll" ELSE "none"]

connect_transition_action(c) ==
    AfterConnect([c EXCEPT !.state = Connected, !.event = TRUE])

client_attach_shm(c, inc) == [c EXCEPT !.mapped = inc]

\* The message is CRAS_CLIENT_CONNECTED: map the server's state (under the
\* write lock) and learn the id; then register the observers again.  Either
\* may fail; after a failed mmap the pointer is MAP_FAILED until the disconnect.
\* Where the server could not send that message another comes first, the reply
\* to a stream: without an id the client gives the connection up, and with it
\* the stream.
first_message_next_action ==
    /\ MessageWaits(FirstMessage)
    /\ LET conn == conns[cl.fd]
           attached == [client_attach_shm(cl, conn.inc) EXCEPT !.id = conn.cid]
       IN  \/ /\ Head(conn.toClient).type = "connected" /\ LockFree
              /\ \/ NoFault /\ cl' = connect_transition_action(attached)
                 \/ Fails /\ \E m \in {0, MapFailed} :
                              cl' = [client_attach_shm(cl, m) EXCEPT !.todo = "hup"]
                 \/ Fails /\ cl' = [attached EXCEPT !.todo = "hup"]
           \/ /\ Head(conn.toClient).type = "stream" /\ NoFault
              /\ cl' = [cl EXCEPT !.todo = "hup"]
    /\ conns' = Received(conns)
    /\ UNCHANGED <<srv, file, rd, shm>>

MutStreamStaysWarm(s, ok) == s

\* stream_connected: start the stream's audio thread, or stop it.
stream_connected(s, ok) == [s EXCEPT !.thread = IF ok THEN "running" ELSE "stopped"]

\* A refusal comes without file descriptors; for a stream that is gone that
\* is an error, and an error ends the connection.
handle_message_from_server ==
    /\ MessageWaits(Connected)
    /\ LET msg == Head(conns[cl.fd].toClient)
           mine == StreamOf(cl, msg.id)
       IN  \/ /\ mine = {}
              /\ cl' = [cl EXCEPT !.todo = IF msg.ok THEN "none" ELSE "hup"]
              /\ NoFault
           \/ \E s \in mine, ok \in {msg.ok, FALSE} :
                 /\ cl' = [cl EXCEPT !.streams = (@ \ mine) \cup {stream_connected(s, ok)}]
                 /\ IF ok = msg.ok THEN NoFault ELSE Fails
    /\ conns' = Received(conns)
    /\ UNCHANGED <<srv, file, rd, shm>>

-----------------------------------------------------------------------------
\* The watch on the socket file (control thread).

MutIgnoresCreation(c) == [c EXCEPT !.exists = TRUE]

Created(c) ==
    [c EXCEPT !.exists = TRUE,
              !.todo = IF c.state \in {WaitForSocket, WaitForWritable} THEN "go" ELSE @]

\* server_disconnect moves to DISCONNECTED before it cleans up, which keeps
\* the messages about the streams back; server_connect starts over.
Deleted(c) ==
    LET down == [c EXCEPT !.exists = FALSE, !.state = Disconnected]
    IN  IF c.state = Disconnected THEN [c EXCEPT !.exists = FALSE]
        ELSE [disconnect_transition_action(down) EXCEPT !.state = WaitForSocket, !.todo = "go"]

sock_file_wait_callback ==
    /\ AtPoll /\ file.events # <<>>
    /\ file' = [file EXCEPT !.events = Tail(@)]
    /\ CASE Head(file.events) = "created" ->
              cl' = Created(cl) /\ UNCHANGED <<conns, shm>>
         [] Head(file.events) = "deleted" ->
              /\ cl.state # Disconnected => LockFree
              /\ cl' = Deleted(cl)
              /\ conns' = IF cl.state = Disconnected THEN conns
                          ELSE ConnsAfterDisconnect(conns, [cl EXCEPT !.state = Disconnected])
              /\ shm' = Freed(shm, cl.mapped, Alive)
    /\ UNCHANGED <<srv, rd, faults>>

-----------------------------------------------------------------------------
\* Commands of the application, and the streams' audio threads.

cras_client_run_thread ==
    /\ ~cl.running /\ cl.loop = "none"
    /\ cl' = [cl EXCEPT !.running = TRUE, !.loop = "poll"]
    /\ UNCHANGED <<srv, file, conns, rd, shm, faults>>

server_connect(c) ==
    IF c.state = Disconnected THEN [c EXCEPT !.state = WaitForSocket, !.todo = "go"] ELSE c

CommandWaits == AtPoll /\ cl.loop = "poll"

cras_client_connect_async ==
    /\ CommandWaits
    /\ cl' = server_connect(cl)
    /\ UNCHANGED <<srv, file, conns, rd, shm, faults>>

\* The control thread, or the application's own before there is one, serves
\* the connection until it stands or a timeout ends the wait.
connect_to_server ==
    /\ CommandWaits \/ (cl.loop = "none" /\ ~cl.running)
    /\ ~cl.event
    /\ cl' = [server_connect(cl) EXCEPT !.loop = "connect"]
    /\ UNCHANGED <<srv, file, conns, rd, shm, faults>>

ConnectGivesUp ==
    /\ cl.loop = "connect" /\ cl.todo = "none"
    /\ cl' = AfterConnect(cl)
    /\ UNCHANGED <<srv, file, conns, rd, shm, faults>>

send_connect_message(cn, fd, id) == Written(cn, fd, <<[type |-> "connect", id |-> id]>>)

MutReusesId ==
    LET id == [client |-> cl.id, n |-> cl.next]
        stream == [id |-> id, thread |-> "warmup", conn |-> cl.fd]
    IN  /\ cl' = [cl EXCEPT !.streams = IF Live(conns, cl.fd) THEN @ \cup {stream} ELSE @]
        /\ conns' = send_connect_message(conns, cl.fd, id)

\* The stream is listed only when the request could be sent.
client_thread_add_stream ==
    LET id == [client |-> cl.id, n |-> cl.next]
        stream == [id |-> id, thread |-> "warmup", conn |-> cl.fd]
    IN  /\ cl' = [cl EXCEPT !.next = @ + 1,
                            !.streams = IF Live(conns, cl.fd) THEN @ \cup {stream} ELSE @]
        /\ conns' = send_connect_message(conns, cl.fd, id)

cras_client_add_stream ==
    /\ CommandWaits /\ cl.next < MaxAdds
    /\ client_thread_add_stream
    /\ UNCHANGED <<srv, file, rd, shm, faults>>

client_thread_rm_stream(s) ==
    /\ CommandWaits
    /\ cl' = [cl EXCEPT !.streams = @ \ {s}]
    /\ conns' = ToldOfRemoval(conns, cl, {s})
    /\ UNCHANGED <<srv, file, rd, shm, faults>>

cras_client_rm_stream(s) == client_thread_rm_stream(s)

\* An audio thread that ends, on an error or at the end of the data, asks for
\* its stream to be removed.
handle_stream_message(s) == s.thread = "running" /\ client_thread_rm_stream(s)

cras_client_stop ==
    /\ CommandWaits
    /\ cl' = [cl EXCEPT !.streams = {}, !.running = FALSE, !.loop = "none"]
    /\ conns' = ToldOfRemoval(conns, cl, cl.streams)
    /\ UNCHANGED <<srv, file, rd, shm, faults>>

-----------------------------------------------------------------------------
\* The application reads the exported state under the read lock.

server_state_rdlock ==
    /\ Reads /\ rd.at = "idle" /\ cl.mapped # 0
    /\ rd' = [rd EXCEPT !.at = "begin"]
    /\ UNCHANGED <<srv, file, conns, cl, shm, faults>>

Mapped == cl.mapped \in 1..MaxStarts

Region == shm[cl.mapped]

begin_server_state_read ==
    /\ rd.at = "begin" /\ Mapped /\ Region.count % 2 = 0
    /\ rd' = [rd EXCEPT !.at = "a", !.count = Region.count]
    /\ UNCHANGED <<srv, file, conns, cl, shm, faults>>

\* The server is writing: look again.  A read through MAP_FAILED ends the
\* application, and with it all progress of the client.
sched_yield ==
    /\ rd.at = "begin"
    /\ Mapped => Region.count % 2 = 1
    /\ UNCHANGED vars

\* The copy takes several steps.
CopyField ==
    /\ Mapped
    /\ \/ rd.at = "a" /\ rd' = [rd EXCEPT !.at = "b", !.a = Region.a]
       \/ rd.at = "b" /\ rd' = [rd EXCEPT !.at = "end", !.b = Region.b]
    /\ UNCHANGED <<srv, file, conns, cl, shm, faults>>

MutNoRetry(count) == TRUE

\* Equal counts end the copy, others repeat it.
end_server_state_read(count) == count = Region.count

CheckCount ==
    /\ rd.at = "end" /\ Mapped
    /\ rd' = IF end_server_state_read(rd.count)
             THEN [at |-> "idle", count |-> 0, a |-> 0, b |-> 0]      \* and unlock
             ELSE [rd EXCEPT !.at = "begin"]
    /\ UNCHANGED <<srv, file, conns, cl, shm, faults>>

-----------------------------------------------------------------------------
\* The server's main thread.

ServerIdle == srv.phase = "up" /\ srv.update = "none"

\* send_message_to_client: nothing reaches a client that has closed its socket,
\* and the send may fail (ok) to one that has not.
SentToClient(conn, msg, ok) ==
    CASE ~conn.cliOpen -> conn
      [] conn.cliOpen /\ ok -> [conn EXCEPT !.toClient = Append(@, msg)]
      [] conn.cliOpen /\ ~ok -> [conn EXCEPT !.lost = @ \cup {msg}]

\* handle_new_connection: send the client its id, whether or not that works,
\* then publish the list of clients in the exported state.
handle_new_connection(i) ==
    /\ ServerIdle /\ conns[i].srvOpen /\ conns[i].cid = Unknown
    /\ \E ok \in BOOLEAN :
          /\ IF ok THEN NoFault ELSE Fails
          /\ conns' = [conns EXCEPT ![i] =
                         SentToClient([@ EXCEPT !.cid = srv.next], [type |-> "connected"], ok)]
    /\ srv' = [srv EXCEPT !.next = @ + 1, !.update = "due"]
    /\ UNCHANGED <<file, cl, rd, shm>>

\* The server's answer to a request for a stream.
StreamReply(id, ok) == [type |-> "stream", id |-> id, ok |-> ok]

MutAcceptsForeignId(conn, id) ==
    IF ~conn.cliOpen THEN conn
    ELSE [conn EXCEPT !.streams = @ \cup {id}, !.toClient = Append(@, StreamReply(id, TRUE))]

\* rclient_handle_client_stream_connect where nothing fails: the id must carry
\* the id of the client that sends the request.  The stream is removed again
\* when the client is not there to be told.
StreamConnected(conn, id) ==
    LET added == id.client = conn.cid
        told == SentToClient(conn, StreamReply(id, added), TRUE)
    IN  [told EXCEPT !.streams = IF added /\ conn.cliOpen THEN @ \cup {id} ELSE @]

\* A step of it fails.  Before stream_list_add, in it, or in sending the reply,
\* and the stream is not kept; after it, and the stream stays.  The client is
\* sent an error, which may fail (sent) on the socket that has failed before.
StreamFailed(conn, id, kept, sent) ==
    LET told == SentToClient(conn, StreamReply(id, FALSE), sent)
    IN  [told EXCEPT !.streams = IF kept THEN @ \cup {id} ELSE @]

rclient_handle_client_stream_connect(i, conn, id) ==
    \/ /\ NoFault
       /\ conns' = [conns EXCEPT ![i] = StreamConnected(conn, id)]
    \/ /\ Fails
       /\ \E kept, sent \in BOOLEAN :
             /\ kept => id.client = conn.cid
             /\ conns' = [conns EXCEPT ![i] = StreamFailed(conn, id, kept, sent)]

\* A stream of another client is left alone.
StreamDisconnected(conn, id) ==
    IF id.client = conn.cid THEN [conn EXCEPT !.streams = @ \ {id}] ELSE conn

rclient_handle_client_stream_disconnect(i, conn, id) ==
    NoFault /\ conns' = [conns EXCEPT ![i] = StreamDisconnected(conn, id)]

handle_message_from_client(i) ==
    /\ ServerIdle /\ conns[i].srvOpen /\ conns[i].cid # Unknown /\ conns[i].toServer # <<>>
    /\ LET conn == [conns[i] EXCEPT !.toServer = Tail(@)]
           msg == Head(conns[i].toServer)
       IN  \/ msg.type = "connect" /\ rclient_handle_client_stream_connect(i, conn, msg.id)
           \/ msg.type = "disconnect" /\ rclient_handle_client_stream_disconnect(i, conn, msg.id)
    /\ UNCHANGED <<srv, file, cl, rd, shm>>

\* The end of a closed connection is read after its messages.
remove_client(i) ==
    /\ ServerIdle /\ conns[i].srvOpen /\ conns[i].cid # Unknown
    /\ ~conns[i].cliOpen /\ conns[i].toServer = <<>>
    /\ conns' = ClosedByServer(conns, i)
    /\ UNCHANGED <<srv, file, cl, rd, shm, faults>>

\* cras_system_state_update_begin and cras_system_state_update_complete.  The
\* update after a new connection stands for all others: each is taken by the
\* same thread and seen by the same readers.
Counted(region) == [region EXCEPT !.count = @ + 1]

UpdateExportedState ==
    /\ LET region == shm[srv.inc]
           Step(from, to, new) ==
               /\ srv.update = from
               /\ srv' = [srv EXCEPT !.update = to]
               /\ shm' = [shm EXCEPT ![srv.inc] = new]
       IN  \/ Step("due", "a", Counted(region))
           \/ Step("a", "b", [region EXCEPT !.a = region.count])
           \/ Step("b", "end", [region EXCEPT !.b = region.count])
           \/ Step("end", "none", Counted(region))
    /\ UNCHANGED <<file, conns, cl, rd, faults>>

-----------------------------------------------------------------------------
\* The server process starts, and crashes.

bind(f) == [exists |-> TRUE, events |-> Append(f.events, "created")]

unlink(f) ==
    IF f.exists THEN [exists |-> FALSE, events |-> Append(f.events, "deleted")] ELSE f

\* unlink, bind, and chmod with listen.
create_and_listen_server_socket ==
    /\ \/ /\ srv.phase = "down" /\ srv.inc < MaxStarts
          /\ srv' = [srv EXCEPT !.phase = "unlinked", !.inc = @ + 1]
          /\ file' = unlink(file)
       \/ /\ srv.phase = "unlinked"
          /\ srv' = [srv EXCEPT !.phase = "bound"]
          /\ file' = bind(file)
       \/ /\ srv.phase = "bound"
          /\ srv' = [srv EXCEPT !.phase = "up"]
          /\ UNCHANGED file
    /\ UNCHANGED <<conns, cl, rd, shm, faults>>

\* The socket file stays, and so does the memory a client has mapped.
Crash ==
    /\ srv.phase # "down" /\ srv.inc < MaxStarts
    /\ srv' = [srv EXCEPT !.phase = "down", !.update = "none", !.next = 0]
    /\ shm' = Freed(shm, srv.inc, {cl.mapped})
    /\ conns' = [i \in Slots |-> IF conns[i].srvOpen THEN ClosedByServer(conns, i)[i]
                                 ELSE conns[i]]
    /\ UNCHANGED <<file, cl, rd, faults>>

-----------------------------------------------------------------------------
\* What the control thread does without being asked, and the server.
ServeDescriptors ==
    \/ HangUp \/ error_delay_next_action \/ TimerExpires \/ wait_for_socket_next_action
    \/ NothingToDo \/ wait_for_writable_next_action
    \/ first_message_next_action \/ handle_message_from_server
    \/ sock_file_wait_callback

Commands ==
    \/ cras_client_run_thread \/ cras_client_connect_async \/ connect_to_server
    \/ ConnectGivesUp \/ cras_client_add_stream \/ cras_client_stop
    \/ \E s \in cl.streams : cras_client_rm_stream(s) \/ handle_stream_message(s)

ReadState ==
    \/ begin_server_state_read \/ CopyField  \/ CheckCount

ServeClients ==
    \/ \E i \in Slots : handle_new_connection(i) \/ handle_message_from_client(i)
                        \/ remove_client(i)
    \/ UpdateExportedState

Next ==
    \/ ServeDescriptors \/ Commands \/ server_state_rdlock \/ ReadState \/ sched_yield
    \/ ServeClients \/ create_and_listen_server_socket \/ Crash

Spec == Init /\ [][Next]_vars

(***************************************************************************)
(* Both poll loops serve whatever is ready, the init system starts the     *)
(* server again (respawn in init/cras.conf), and a reader goes on reading. *)
(* The control thread may wait for the write lock while the application    *)
(* reads again and again: the lock is granted to it sooner or later, which *)
(* is strong fairness.                                                     *)
(***************************************************************************)
FairSpec ==
    /\ Spec
    /\ SF_vars(ServeDescriptors)
    /\ WF_vars(ServeClients)
    /\ WF_vars(create_and_listen_server_socket)
    /\ WF_vars(ReadState)

-----------------------------------------------------------------------------
\* The types of the variables; next_stream_id is ahead of every id in use.
TypeOK ==
    /\ srv \in [phase : {"down", "unlinked", "bound", "up"}, inc : 0..MaxStarts,
                next : Nat, update : {"none", "due", "a", "b", "end"}]
    /\ file.exists \in BOOLEAN
    /\ cl.state \in {Disconnected, WaitForSocket, WaitForWritable, FirstMessage,
                     Connected, ErrorDelay}
    /\ cl.fd \in Slots \cup {NoFd, Timer, Socket}
    /\ cl.mapped \in 0..MaxStarts \cup {MapFailed}
    /\ \A s \in cl.streams : s.id.n < cl.next
    /\ cl.todo \in {"none", "go", "hup"} /\ cl.loop \in {"none", "poll", "connect"}
    /\ rd.at \in {"idle", "begin", "a", "b", "end"}

\* Four parts of the client's state say that it is connected, and they agree
\* whenever the control thread is back at its poll: the state, the event that
\* cras_client_connect waits for, the id its streams carry and the mapped
\* server state.  The descriptor is the one the state waits on.
ConnectionAgrees ==
    cl.todo = "none" =>
        /\ (cl.state = Connected) <=> cl.event
        /\ (cl.state = Connected) <=> (cl.id # Unknown)
        /\ (cl.state = Connected) <=> (cl.mapped # 0)
        /\ (cl.state \in {FirstMessage, Connected}) <=> (cl.fd \in Slots)
        /\ (cl.fd = Timer) <=> (cl.state = ErrorDelay)

\* The memory a reader looks at stays mapped until it unlocks, and is the
\* state of the server the client is connected to.  One case is excepted, where
\* server_state_rdlock lets a reader in and there is no memory: mmap has failed
\* (cras_client.c:1845) and the disconnect that follows has not run yet.
ReaderKeepsMapping ==
    rd.at # "idle" =>
        IF cl.mapped = MapFailed THEN rd.at = "begin" /\ cl.todo = "hup"
        ELSE cl.mapped # 0 /\ cl.fd \in Slots /\ cl.mapped = conns[cl.fd].inc

\* A copy of the exported state that end_server_state_read accepts was not
\* taken while the server was writing it.
SnapshotIsConsistent == [][rd.at = "end" /\ rd'.at = "idle" => rd.a = rd.b]_vars

\* Every listed stream was requested on the connection that is open now: no
\* stream survives a reconnect, whatever order the disconnect, the file events
\* and the commands come in.
StreamsOfThisConnection == \A s \in cl.streams : s.conn = cl.fd /\ cl.fd \in Slots

\* Of a client whose connection stands, the server runs no stream that the
\* client has given up and not reported.
NoOrphanStream ==
    \A i \in Slots :
        conns[i].srvOpen /\ conns[i].cliOpen =>
            \A id \in conns[i].streams :
                \/ StreamOf(cl, id) # {}
                \/ \E k \in DOMAIN conns[i].toServer :
                       conns[i].toServer[k] = [type |-> "disconnect", id |-> id]

\* The reader found an odd update count in the memory of a server that is
\* gone, or followed the pointer that a failed mmap left.
ReaderStuck ==
    /\ rd.at = "begin"
    /\ Mapped => Region.count % 2 = 1 /\ cl.mapped \notin Alive

\* The server could not send the client, on the connection it has, a message
\* of this type, about the stream n; nobody sends it again.
Lost(type, n) ==
    cl.fd \in Slots /\ \E m \in conns[cl.fd].lost :
                          m.type = type /\ (type = "stream" => m.id.n = n)

\* A client that wants a connection gets one, or gives up (DISCONNECTED);
\* except where the server died during an update that the application was
\* about to read, where mmap failed under a reader, where the client tried to
\* connect between bind and listen, and where the server could not send its
\* first message (cras_rclient_util.c:326).
Reconnects ==
    (Serving /\ cl.state # Disconnected)
        ~> (\/ ~Serving \/ cl.state \in {Connected, Disconnected}
            \/ cl.missed \/ ReaderStuck \/ Lost("connected", 0))

\* As the header puts it, "the control thread is attempting to reconnect to
\* the server in the background": without any exception.
AlwaysReconnects ==
    (Serving /\ cl.state # Disconnected)
        ~> (~Serving \/ cl.state \in {Connected, Disconnected})

\* A stream is not left waiting for the server's answer: it runs, is refused,
\* or goes with the connection; except where the server could not send the
\* answer to the open client (cras_rclient_util.c:249 and the error reply at
\* 271), and where the reader is stuck.
StreamsAreAnswered ==
    \A n \in 0..(MaxAdds - 1) :
        LET waits == \E s \in cl.streams : s.id.n = n /\ s.thread = "warmup"
        IN  (Serving /\ waits)
               ~> (~Serving \/ ~waits \/ ReaderStuck \/ Lost("stream", n))

=============================================================================
