------------------------------- MODULE Capture ------------------------------
(***************************************************************************)
(* Capture, from several input devices to several streams and on to their  *)
(* clients: the capture half of dev_io.c, dev_stream.c and cras_rstream.c, *)
(* the double buffer of cras_shm.h, and the audio thread that libcras runs *)
(* for a stream (cras_client.c).                                           *)
(*                                                                         *)
(* A stream may read several devices at once; they are mixed into one      *)
(* buffer.  A frame of a stream is complete once every device it reads has *)
(* contributed, and a device may drop a frame once every stream that reads *)
(* it has taken it.  So devices wait for streams and streams for devices.  *)
(* The client shares the buffer without a lock; its steps interleave with  *)
(* the server's at every access that the other side can tell apart.        *)
(*                                                                         *)
(* Streams and devices have one rate and format here (no conversion), no   *)
(* stream has an APM and none is TRIGGER_ONLY.  The content of a frame is  *)
(* its number in the stream, modulo FrameIds.                              *)
(***************************************************************************)
EXTENDS Integers, SequencesExt

CONSTANTS
    Devs, Streams,
    Order,        \* the streams as a sequence: the order of the stream list
    ServerOnly,   \* streams with the flag SERVER_ONLY: they have no client
    Bulk,         \* streams with the flag BULK_AUDIO_OK
    Route,        \* Route[s]: the devices s may read (all, unless s is pinned)
    Cb,           \* Cb[s]: cb_threshold
    BufFrames,    \* buffer_frames, the size of one half of the double buffer
    HwSize,       \* buffer_size of a device
    SockSize,     \* messages the audio socket of a stream holds
    Budgets,      \* how often devices are opened, and each stream is added; the devices
                  \* whose active node has a type that lets them drop samples
    FrameIds      \* frame numbers are counted modulo this

ASSUME CaptureAssumption ==
    /\ ServerOnly \subseteq Streams /\ Bulk \subseteq Streams
    /\ Order \in Seq(Streams) /\ Streams = Range(Order) /\ IsInjective(Order)
    /\ \A s \in Streams : Route[s] \subseteq Devs /\ Cb[s] \in 1..BufFrames
    /\ {BufFrames, HwSize, SockSize} \subseteq Nat \ {0}
    /\ Budgets \subseteq [opens : Nat, adds : [Streams -> Nat], drops : SUBSET Devs]
    /\ FrameIds \in Nat /\ \A s \in Streams : FrameIds > 4 * Cb[s]

Halves == {0, 1}   \* CRAS_NUM_SHM_BUFFERS = 2

VARIABLES
    open,      \* the open input devices, in the order they were opened
    hw,        \* hw[d]: frames in the device's buffer
    list,      \* list[d]: dev->streams
    devoff,    \* devoff[d][s]: dev->buf_state, frames s has read past the device's pointer
    off,       \* off[s][d]: stream->buf_state, frames d has written past the stream's pointer
    live,      \* the streams of the stream list
    shm,       \* shm[s]: header of the stream's double buffer
    late,      \* late[s]: whether next_cb_ts has been reached
    frames,    \* what the frames in the buffers are: next number, first number of each half
    sock,      \* sock[s]: DATA_READY messages on their way to the client
    client,    \* client[s]: the client's audio thread, and what its callback has heard
    pass,      \* where the server's audio thread is in dev_io_run
    budget,    \* devices that may still be opened, streams that may still be added, who drops
    capped     \* history: some stream could not be aligned with the first one

vars == <<open, hw, list, devoff, off, live, shm, late, frames, sock, client, pass,
          budget, capped>>

devVars == <<open, list, live, budget, capped>>
offVars == <<hw, devoff, off>>
clientVars == <<frames, sock, client>>

Least(S) == CHOOSE x \in S : \A y \in S : x <= y
Smaller(a, b) == IF a <= b THEN a ELSE b
On(d) == Range(list[d])
Att(s) == {d \in Devs : s \in On(d)}
Clients == Streams \ ServerOnly

-----------------------------------------------------------------------------
(* cras_shm.h.  h is a header; offsets count frames.                       *)

FreshShm == [woff |-> [i \in Halves |-> 0], roff |-> [i \in Halves |-> 0],
             prog |-> [i \in Halves |-> FALSE], widx |-> 0, ridx |-> 0,
             overrun |-> FALSE]      \* num_overruns > 0

cras_shm_frames_written(h) == h.woff[h.widx]

cras_shm_get_curr_read_frames(h) ==
    IF h.roff[h.ridx] > h.woff[h.ridx] THEN 0
    ELSE h.woff[h.ridx] - h.roff[h.ridx]

cras_shm_get_writeable_frames(h, limit) ==
    IF limit >= h.woff[h.widx] THEN limit - h.woff[h.widx] ELSE 0

cras_shm_check_write_overrun(h) ==
    IF h.prog[h.widx] THEN h
    ELSE [h EXCEPT !.overrun = @ \/ h.woff[h.widx] # 0,
                   !.prog[h.widx] = TRUE, !.woff[h.widx] = 0]

cras_shm_buffer_written(h, n) ==
    IF n = 0 THEN h ELSE [h EXCEPT !.woff[h.widx] = @ + n, !.roff[h.widx] = 0]

cras_shm_buffer_write_complete(h) ==
    [h EXCEPT !.prog[h.widx] = FALSE, !.widx = 1 - @]

\* The server's own use of it, for a stream without a client.
cras_shm_buffer_read_current(h, n) ==
    IF h.roff[h.ridx] + n >= h.woff[h.ridx]
    THEN [h EXCEPT !.roff[h.ridx] = 0, !.woff[h.ridx] = 0, !.ridx = 1 - @]
    ELSE [h EXCEPT !.roff[h.ridx] = @ + n]

-----------------------------------------------------------------------------
Idle == [phase |-> "idle", todo |-> <<>>, drop |-> FALSE]

FreshClient == [pc |-> "wait", n |-> 0, first |-> 0, want |-> 0, broken |-> FALSE]
FreshFrames == [next |-> 0, first |-> [i \in Halves |-> 0]]

Init ==
    /\ open = <<>>
    /\ hw = [d \in Devs |-> 0]
    /\ list = [d \in Devs |-> <<>>]
    /\ devoff = [d \in Devs |-> [s \in Streams |-> 0]]
    /\ off = [s \in Streams |-> [d \in Devs |-> 0]]
    /\ live = {}
    /\ shm = [s \in Streams |-> FreshShm]
    /\ late = [s \in Streams |-> TRUE]
    /\ frames = [s \in Streams |-> FreshFrames]
    /\ sock = [s \in Streams |-> <<>>]
    /\ client = [s \in Streams |-> FreshClient]
    /\ pass = Idle
    /\ budget \in Budgets
    /\ capped = FALSE

-----------------------------------------------------------------------------
(* Streams and devices come and go between two runs of dev_io_run.         *)

\* A state of what dev_io_append_stream changes.
Lists == [list |-> list, hw |-> hw, devoff |-> devoff, off |-> off, capped |-> capped]

Becomes(L) ==
    /\ list' = L.list /\ hw' = L.hw /\ devoff' = L.devoff /\ off' = L.off
    /\ capped' = L.capped

\* Mutant: a new stream starts at the device's pointer.
MutNotAligned(first, s) == 0

\* The offset the new stream copies from the first one of the device, capped.
AlignedTo(first, s) == Smaller(first, Cb[s])

\* dev_io_append_stream for one device: the first stream flushes it, a later
\* one starts where the first one is.
AppendTo(L, s, d) ==
    IF L.list[d] = <<>>
    THEN [L EXCEPT !.list[d] = <<s>>, !.hw[d] = 0,
                   !.devoff[d][s] = 0, !.off[s][d] = 0]
    ELSE LET first == Head(L.list[d])
         IN [L EXCEPT !.list[d] = Append(@, s),
                      !.devoff[d][s] = AlignedTo(L.devoff[d][first], s),
                      !.off[s][d] = AlignedTo(L.off[first][d], s),
                      !.capped = @ \/ L.devoff[d][first] > Cb[s]
                                   \/ L.off[first][d] > Cb[s]]

\* dev_io_append_stream to the devices D: what it does to one of them does not
\* depend on the others.
dev_io_append_stream(s, D) ==
    LET To(d) == AppendTo(Lists, s, d)
    IN [list |-> [d \in Devs |-> IF d \in D THEN To(d).list[d] ELSE list[d]],
        hw |-> [d \in Devs |-> IF d \in D THEN To(d).hw[d] ELSE hw[d]],
        devoff |-> [d \in Devs |-> IF d \in D THEN To(d).devoff[d] ELSE devoff[d]],
        off |-> [off EXCEPT ![s] = [d \in Devs |-> IF d \in D THEN To(d).off[s][d] ELSE @[d]]],
        capped |-> capped \/ \E d \in D : To(d).capped]

\* DL_DELETE of the entry of x, if there is one.
Without(q, x) ==
    IF x \in Range(q) THEN RemoveAt(q, CHOOSE i \in DOMAIN q : q[i] = x) ELSE q

\* delete_stream_from_dev for every device.
Removed(L, s) ==
    [L EXCEPT !.list = [d \in Devs |-> Without(@[d], s)],
              !.devoff = [d \in Devs |-> [@[d] EXCEPT ![s] = 0]],
              !.off[s] = [d \in Devs |-> 0]]

\* A new stream, with a new rstream and shm, is attached to the open devices
\* of its route; audio_thread_add_streams is one message.  When the attachment
\* fails (cras_iodev_flush_buffer, dev_stream_create) the stream is taken off
\* every device, of which those without streams may have been flushed before, and
\* stream_list_add destroys it.
AddStream(s) ==
    /\ pass = Idle /\ s \notin live /\ budget.adds[s] > 0
    /\ budget' = [budget EXCEPT !.adds[s] = @ - 1]
    /\ LET D == Route[s] \cap Range(open) IN
       \/ LET L == dev_io_append_stream(s, D) IN
          /\ live' = live \cup {s}
          /\ Becomes(L)
       \/ \E F \in SUBSET {d \in D : list[d] = <<>>} :
            /\ D # {}
            /\ hw' = [d \in Devs |-> IF d \in F THEN 0 ELSE hw[d]]
            /\ UNCHANGED <<live, list, devoff, off, capped>>
    /\ UNCHANGED <<open, shm, late, clientVars, pass>>

\* dev_io_remove_stream from all devices; then the stream is destroyed.
RemoveStream(s) ==
    /\ pass = Idle /\ s \in live
    /\ live' = live \ {s}
    /\ Becomes(Removed(Lists, s))
    /\ shm' = [shm EXCEPT ![s] = FreshShm]
    /\ late' = [late EXCEPT ![s] = TRUE]
    /\ frames' = [frames EXCEPT ![s] = FreshFrames]
    /\ sock' = [sock EXCEPT ![s] = <<>>]
    /\ client' = [client EXCEPT ![s] = FreshClient]
    /\ UNCHANGED <<open, pass, budget>>

\* The streams that init_and_attach_streams attaches to a device it has opened.
Joins(s, d) == s \in live /\ d \in Route[s]

\* Attached(d)[k]: the loop of init_and_attach_streams has visited k streams.
Attached(d) ==
    LET f[k \in 0..Len(Order)] ==
          IF k = 0 THEN [Lists EXCEPT !.hw[d] = 0]
          ELSE IF Joins(Order[k], d) THEN AppendTo(f[k - 1], Order[k], d)
          ELSE f[k - 1]
    IN f

\* init_and_attach_streams: a device is opened and all the streams that may
\* read it are attached to it, in the order of the list, by one message.  The
\* first of them that cannot be attached is taken off all devices, and the
\* ones after it are not attached.
OpenDev(d) ==
    /\ pass = Idle /\ d \notin Range(open) /\ budget.opens > 0
    /\ budget' = [budget EXCEPT !.opens = @ - 1]
    /\ open' = Append(open, d)
    /\ \/ Becomes(Attached(d)[Len(Order)])
       \/ \E k \in DOMAIN Order : /\ Joins(Order[k], d)
                                 /\ Becomes(Removed(Attached(d)[k - 1], Order[k]))
    /\ UNCHANGED <<live, shm, late, clientVars, pass>>

dev_io_rm_open_dev(d) ==
    /\ pass = Idle /\ d \in Range(open)
    /\ open' = Without(open, d)
    /\ list' = [list EXCEPT ![d] = <<>>]
    /\ hw' = [hw EXCEPT ![d] = 0]
    /\ devoff' = [devoff EXCEPT ![d] = [s \in Streams |-> 0]]
    /\ off' = [s \in Streams |-> [off[s] EXCEPT ![d] = 0]]
    /\ UNCHANGED <<live, budget, capped, shm, late, clientVars, pass>>

-----------------------------------------------------------------------------
(* Time: a device records a frame, a stream's next callback time comes.    *)
(* Both are looked at once in a run, so they change between two runs.      *)

Record(d) ==
    /\ pass = Idle /\ d \in Range(open) /\ hw[d] < HwSize
    /\ hw' = [hw EXCEPT ![d] = @ + 1]
    /\ UNCHANGED <<devVars, devoff, off, shm, late, clientVars, pass>>

TimePasses(s) ==
    /\ pass = Idle /\ s \in live /\ ~late[s]
    /\ late' = [late EXCEPT ![s] = TRUE]
    /\ UNCHANGED <<devVars, offVars, shm, clientVars, pass>>

-----------------------------------------------------------------------------
(* dev_io_run: dev_io_capture over the devices, then                       *)
(* dev_io_send_captured_samples over the devices.                          *)

\* The devices still to capture from: a new run begins with all of them.
ToCapture == IF pass = Idle THEN open ELSE IF pass.phase = "capture" THEN pass.todo ELSE <<>>

\* The run goes on with the next device, or the next phase.
AfterCapture ==
    IF Len(ToCapture) > 1
    THEN [phase |-> "capture", todo |-> Tail(ToCapture), drop |-> FALSE]
    ELSE [phase |-> "send", todo |-> open, drop |-> FALSE]

AfterSend(drop) ==
    IF Len(pass.todo) > 1 THEN [pass EXCEPT !.todo = Tail(@), !.drop = drop] ELSE Idle

max_write_frames(s) == IF s \in Bulk THEN BufFrames ELSE Cb[s]

dev_stream_capture_avail(h, s, d) ==
    cras_shm_get_writeable_frames(h, max_write_frames(s) - off[s][d])

\* Both limits come with the check that the half to write is free.
CheckedShm(d) ==
    [s \in Streams |-> IF s \in On(d) THEN cras_shm_check_write_overrun(shm[s])
                       ELSE shm[s]]

get_stream_limit(sh, d, limit) ==
    Least({limit} \cup {dev_stream_capture_avail(sh[s], s, d) : s \in On(d)})

\* Mutant: the stream takes the whole area, whatever room it has.
MutTakesAll(L, s, d, n) == IF L.devoff[d][s] >= n THEN 0 ELSE n - L.devoff[d][s]

\* dev_stream_capture: what s takes of an area of n frames of d.
dev_stream_capture(L, s, d, n) ==
    LET room == Cb[s] - L.off[s][d] - cras_shm_frames_written(CheckedShm(d)[s]) IN
    IF room <= 0 \/ L.devoff[d][s] >= n THEN 0
    ELSE Smaller(n - L.devoff[d][s], room)

\* One round of the loop: the streams take what they can of n frames and
\* put_input_buffer lets go of those that all have taken.
Taken(L, d, n) ==
    [L EXCEPT !.off = [s \in Streams |->
                         IF s \in On(d) THEN [L.off[s] EXCEPT ![d] = @ + dev_stream_capture(L, s, d, n)]
                         ELSE L.off[s]],
              !.devoff[d] = [s \in Streams |->
                         IF s \in On(d) THEN @[s] + dev_stream_capture(L, s, d, n) ELSE 0]]

LetGo(L, d, n) ==
    [L EXCEPT !.hw[d] = @ - n,
              !.devoff[d] = [s \in Streams |-> IF s \in On(d) THEN @[s] - n ELSE 0]]

\* cras_iodev_put_input_buffer
put_input_buffer(L, d, n) ==
    LetGo(L, d, IF On(d) = {} THEN n ELSE Least({L.devoff[d][s] : s \in On(d)}))

Round(L, d, n) == put_input_buffer(Taken(L, d, n), d, n)

\* capture_to_streams.  The frames may wrap around the end of the device's
\* ring, once; the second round is only taken when the first one let go of all
\* its frames, and there may be fewer left than the limit: the first one lets go
\* of more than it got when the stream furthest behind has been removed.  The
\* device may be in another state than NORMAL_RUN, and may give no frames (nread
\* is 0) in either round.
Capture(d) ==
    /\ ToCapture # <<>> /\ d = Head(ToCapture)
    /\ shm' = CheckedShm(d)
    /\ \E limit \in {get_stream_limit(CheckedShm(d), d, hw[d])} :
       \/ UNCHANGED offVars
       \/ \E n \in 1..limit : \E one \in {Round(Lists, d, n)} :
          \E L \in {one} \cup IF hw[d] - one.hw[d] < n THEN {}
                            ELSE {Round(one, d, Smaller(limit - n, one.hw[d]))} :
            hw' = L.hw /\ devoff' = L.devoff /\ off' = L.off
    /\ pass' = AfterCapture
    /\ UNCHANGED <<devVars, late, clientVars>>

-----------------------------------------------------------------------------
MutNewestFrames(s) == CHOOSE n \in {off[s][d] : d \in Att(s)} : \A d \in Att(s) : off[s][d] <= n

\* cras_rstream_update_input_write_pointer: the frames all devices have written.
NewFrames(s) == Least({off[s][d] : d \in Att(s)})

\* dev_stream_capture_update_rstream: commit, and post if it is time and there
\* is one callback's worth.
Committed(s) == cras_shm_buffer_written(shm[s], NewFrames(s))
Posts(s) == /\ s \in Bulk \/ late[s]
            /\ cras_shm_frames_written(Committed(s)) >= Cb[s]
PostCount(s) == IF s \in Bulk THEN cras_shm_frames_written(Committed(s)) ELSE Cb[s]

MutReadyShm(s) == Committed(s)

\* cras_rstream_audio_ready.
ReadyShm(s) ==
    LET h == cras_shm_buffer_write_complete(Committed(s)) IN
    IF s \in ServerOnly THEN cras_shm_buffer_read_current(h, PostCount(s)) ELSE h

\* The write of the message fails when the socket is full.
Sent(s) == Posts(s) /\ (s \in ServerOnly \/ Len(sock[s]) < SockSize)

UpdatedShm(s) == IF Posts(s) THEN ReadyShm(s) ELSE Committed(s)

\* The numbers of the frames, of streams with a client and no overrun so far.
NumberedFrames(s) ==
    LET next == (frames[s].next + NewFrames(s)) % FrameIds
        n == cras_shm_frames_written(Committed(s))
    IN IF s \in ServerOnly \/ shm[s].overrun THEN FreshFrames
       ELSE [next |-> next,
             first |-> IF Posts(s)
                       THEN [frames[s].first EXCEPT ![shm[s].widx] = (next - n) % FrameIds]
                       ELSE frames[s].first]

input_devices_can_drop_samples(d) == d \in Range(open) /\ On(d) # {} /\ d \in budget.drops

\* set_input_dev_wake_ts: a device whose level is high asks for a drop.  The
\* condition on the time the frames took is left open, and so is the level the
\* code compares with: largest_cb_level also counts streams that have left.
MayDrop(d) == /\ input_devices_can_drop_samples(d)
              /\ \/ 2 * hw[d] >= HwSize
                 \/ \A s \in On(d) : 2 * hw[d] >= 3 * Cb[s]

min_cb_level(d) == Least({HwSize \div 2} \cup {Cb[s] : s \in On(d)})

\* dev_io_drop_samples: the same time from all devices that can drop samples, and
\* none when one of them has no more than it needs.
DropCount(D) ==
    IF \E d \in D : hw[d] <= min_cb_level(d) THEN 0
    ELSE Least({hw[d] - min_cb_level(d) : d \in D})

Dropped(k) ==
    /\ hw' = [d \in Devs |-> IF input_devices_can_drop_samples(d) THEN hw[d] - k ELSE hw[d]]
    /\ devoff' = [d \in Devs |->            \* cras_iodev_force_all_streams_read
         IF input_devices_can_drop_samples(d)
         THEN [s \in Streams |-> IF devoff[d][s] >= k THEN devoff[d][s] - k ELSE 0]
         ELSE devoff[d]]

\* dev_io_send_captured_samples for one device, and after the last one the
\* drop that some device asked for.  Left out: a device that could tell its level
\* in capture_to_streams and cannot any more, which ends the loop over the devices.
Send(d) ==
    /\ pass.phase = "send" /\ d = Head(pass.todo)
    /\ LET on == On(d) IN
       /\ off' = [s \in Streams |-> IF s \in on
                    THEN [e \in Devs |-> IF e \in Att(s) THEN off[s][e] - NewFrames(s) ELSE 0]
                    ELSE off[s]]
       /\ shm' = [s \in Streams |-> IF s \in on
                    THEN cras_shm_check_write_overrun(UpdatedShm(s)) ELSE shm[s]]
       /\ frames' = [s \in Streams |-> IF s \in on THEN NumberedFrames(s) ELSE frames[s]]
       /\ late' = [s \in Streams |-> late[s] /\ ~(s \in on /\ Sent(s))]
       /\ sock' = [s \in Streams |-> IF s \in on \ ServerOnly /\ Sent(s)
                     THEN Append(sock[s], PostCount(s)) ELSE sock[s]]
    /\ \E drop \in {pass.drop, pass.drop \/ MayDrop(d)} :
         /\ pass' = AfterSend(drop)
         /\ IF drop /\ Len(pass.todo) = 1
            THEN Dropped(DropCount({e \in Devs : input_devices_can_drop_samples(e)}))
            ELSE UNCHANGED <<hw, devoff>>
    /\ UNCHANGED <<devVars, client>>

-----------------------------------------------------------------------------
(* The client's audio thread of a stream.                                  *)

\* handle_capture_data_ready up to the callback.  A half that does not hold
\* what the message promises is left alone (config_capture_buf).
DataReady(s) ==
    /\ client[s].pc = "wait" /\ sock[s] # <<>>
    /\ LET h == shm[s]
           n == Smaller(Head(sock[s]), max_write_frames(s))
       IN client' = IF cras_shm_get_curr_read_frames(h) < n THEN client
                    ELSE [client EXCEPT ![s].pc = "callback", ![s].n = n,
                                        ![s].first = frames[s].first[h.ridx]]
    /\ sock' = [sock EXCEPT ![s] = Tail(@)]
    /\ UNCHANGED <<devVars, offVars, shm, late, frames, pass>>

\* Whether the half still holds what it held when the callback was called.
Intact(s) == LET i == shm[s].ridx IN ~shm[s].prog[i] /\ frames[s].first[i] = client[s].first

\* The callback returns n frames, then cras_shm_buffer_read_current up to its
\* test.  The application hears the half from its start.
Callback(s) ==
    /\ client[s].pc = "callback"
    /\ \E n \in 0..client[s].n :
         LET h == shm[s]
             emptied == h.roff[h.ridx] + n >= h.woff[h.ridx]
             expected == client[s].first = client[s].want
         IN /\ shm' = IF n = 0 THEN shm
                      ELSE [shm EXCEPT ![s].roff[h.ridx] = IF emptied THEN 0 ELSE @ + n]
            /\ client' = [client EXCEPT
                 ![s] = [pc |-> IF n > 0 /\ emptied THEN "clear" ELSE "wait",
                         n |-> 0, first |-> 0,
                         want |-> IF h.overrun THEN 0 ELSE IF n = 0 THEN @.want
                                  ELSE (@.first + n) % FrameIds,
                         broken |-> @.broken \/ ~Intact(s) \/ ~expected]]
    /\ UNCHANGED <<devVars, offVars, late, frames, sock, pass>>

ClearWritten(s) ==
    /\ client[s].pc = "clear"
    /\ shm' = [shm EXCEPT ![s].woff[shm[s].ridx] = 0]
    /\ client' = [client EXCEPT ![s].pc = "advance"]
    /\ UNCHANGED <<devVars, offVars, late, frames, sock, pass>>

MoveOn(s) ==
    /\ client[s].pc = "advance"
    /\ shm' = [shm EXCEPT ![s].ridx = 1 - @]
    /\ client' = [client EXCEPT ![s].pc = "wait"]
    /\ UNCHANGED <<devVars, offVars, late, frames, sock, pass>>

-----------------------------------------------------------------------------
AudioThread == \E d \in Devs : Capture(d) \/ Send(d)

Next ==
    \/ AudioThread
    \/ \E s \in Streams : AddStream(s) \/ RemoveStream(s) \/ TimePasses(s)
    \/ \E d \in Devs : OpenDev(d) \/ dev_io_rm_open_dev(d) \/ Record(d)
    \/ \E s \in Clients : DataReady(s) \/ Callback(s) \/ ClearWritten(s) \/ MoveOn(s)

Spec == Init /\ [][Next]_vars

-----------------------------------------------------------------------------
TypeOK ==
    /\ open \in Seq(Devs) /\ live \subseteq Streams
    /\ hw \in [Devs -> 0..HwSize]
    /\ list \in [Devs -> Seq(live)]
    /\ devoff \in [Devs -> [Streams -> 0..HwSize]]
    /\ off \in [Streams -> [Devs -> Nat]]
    /\ shm \in [Streams -> [woff : [Halves -> Nat], roff : [Halves -> Nat],
                            prog : [Halves -> BOOLEAN], widx : Halves, ridx : Halves,
                            overrun : BOOLEAN]]
    /\ late \in [Streams -> BOOLEAN]
    /\ frames \in [Streams -> [next : 0..FrameIds - 1, first : [Halves -> 0..FrameIds - 1]]]
    /\ \A s \in Streams : sock[s] \in Seq(1..BufFrames) /\ Len(sock[s]) <= SockSize
    /\ client \in [Streams -> [pc : {"wait", "callback", "clear", "advance"},
                               n : 0..BufFrames, first : 0..FrameIds - 1,
                               want : 0..FrameIds - 1, broken : BOOLEAN]]
    /\ pass \in [phase : {"idle", "capture", "send"}, todo : Seq(Devs), drop : BOOLEAN]
    /\ budget \in [opens : Nat, adds : [Streams -> Nat], drops : SUBSET Devs] /\ capped \in BOOLEAN

(* What is committed to a half and what some device has written past that  *)
(* always fits one callback, so a half that is posted holds exactly what   *)
(* the message says and leaves no device with frames in it that would be   *)
(* lost (dev_stream_capture, cras_rstream_update_input_write_pointer).     *)
FitsOneCallback ==
    \A s \in Streams : \A d \in Att(s) :
        shm[s].prog[shm[s].widx] => off[s][d] + cras_shm_frames_written(shm[s]) <= Cb[s]

(* A client whose buffer was never overrun hears every frame of its stream *)
(* once and in order, and no half changes while its callback reads it: the *)
(* server counts an overrun before anything goes wrong                     *)
(* (cras_shm_check_write_overrun, config_capture_buf).                     *)
NoSilentLoss == \A s \in Clients : client[s].broken => shm[s].overrun

(* d cannot be read because a stream has no room left for it, and that     *)
(* stream cannot post because another device is behind.                    *)
HeldUp(d) == \E s \in On(d) \ Bulk :
    LET w == cras_shm_frames_written(cras_shm_check_write_overrun(shm[s]))
    IN w + off[s][d] >= Cb[s] /\ w + NewFrames(s) < Cb[s]

(* Streams that read several devices never hold up all of them, each       *)
(* waiting for a device that another stream holds up: this is what         *)
(* dev_io_append_stream copies the offsets of the first stream for.        *)
NoMutualHold == pass = Idle /\ open # <<>> => \E d \in Range(open) : ~HeldUp(d)

(* The same, as long as every stream that joined could be aligned with the *)
(* first one of its devices: dev_io_append_stream caps the offsets it      *)
(* copies at the cb_threshold of the new stream.                           *)
HeldOnlyIfCapped == capped \/ NoMutualHold
=============================================================================
