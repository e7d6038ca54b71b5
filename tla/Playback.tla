------------------------------ MODULE Playback ------------------------------
(***************************************************************************)
(* Playback, from the clients of several streams to several output         *)
(* devices: the playback half of dev_io.c, dev_stream.c, cras_rstream.c    *)
(* and cras_iodev.c, the draining of a stream that its client has removed  *)
(* (stream_list.c, audio_thread.c), the double buffer of cras_shm.h, and   *)
(* the audio thread that libcras runs for a stream (cras_client.c).        *)
(*                                                                         *)
(* A stream is played on every device it is attached to; each device has   *)
(* its own offset past the stream's read pointer, and the pointer follows  *)
(* the slowest.  A device writes what all streams that play on it can give.*)
(* The client fills one half of the buffer when it is asked to, without a  *)
(* lock.                                                                   *)
(*                                                                         *)
(* Streams and devices have one rate and format here (no conversion), so   *)
(* that all streams of a device have always written the same: the offsets  *)
(* of dev->buf_state are zero between two writes.  A frame is its distance *)
(* from the stream's read pointer, modulo FrameIds.                        *)
(***************************************************************************)
EXTENDS Integers, SequencesExt, FiniteSets

CONSTANTS
    Devs, Streams,
    Order,       \* the streams as a sequence: the order of the stream list
    Route,       \* Route[s]: the devices s may play on (all, unless s is pinned)
    CanStart,    \* devices with a start op: they wait for the first samples
    Cb,          \* Cb[s]: cb_threshold
    BufFrames,   \* buffer_frames
    HwSize,      \* buffer_size of a device
    Budgets,     \* scenarios: how often devices are opened, streams added (adds),
                 \* devices closed and streams removed (leaves), how many clients die,
                 \* which are interrupted in a store (slow), what callbacks return
                 \* (answers), which devices may fail to tell their time (late)
    FrameIds     \* frame numbers are counted modulo this

ASSUME PlaybackAssumption ==
    /\ Order \in Seq(Streams) /\ Streams = Range(Order) /\ IsInjective(Order)
    /\ \A s \in Streams : Route[s] \subseteq Devs /\ Cb[s] \in 1..BufFrames
    /\ BufFrames \in Nat /\ HwSize \in Nat \ {0, 1}
    /\ Budgets \subseteq [opens : Nat, adds : [Streams -> Nat], leaves : Nat, deaths : Nat,
                           slow : SUBSET Streams, answers : SUBSET Int, late : SUBSET Devs]
    /\ FrameIds \in Nat /\ \A s \in Streams : FrameIds > 2 * Cb[s]

Halves == {0, 1}   \* CRAS_NUM_SHM_BUFFERS = 2

VARIABLES
    open,      \* the open output devices, in the order they were opened
    state,     \* state[d]: CRAS_IODEV_STATE of an open device
    hw,        \* hw[d]: frames in the device's buffer
    on,        \* on[d]: dev->streams
    run,       \* run[d]: those of them that are running
    off,       \* off[s][d]: stream->buf_state, frames d has played past the read pointer
    queued,    \* queued[s]: queued_frames
    shm,       \* shm[s]: header of the stream's double buffer
    due,       \* due[s]: whether next_cb_ts has been reached
    live,      \* the streams of the stream list
    drain,     \* the streams with is_draining; those not in live are streams_to_delete
    client,    \* client[s]: where the client's audio thread is
    req, rep,  \* req[s], rep[s]: requests and replies on the audio socket
    frames,    \* which frames the buffer holds
    pass,      \* where the server's audio thread is in dev_io_run
    budget,    \* devices that may still be opened, streams that may still be added
    hist       \* history of what went wrong, and why

vars == <<open, state, hw, on, run, off, queued, shm, due, live, drain, client, req, rep,
          frames, pass, budget, hist>>

devVars == <<state, hw, on, run, off, due>>
listVars == <<open, live, budget>>
clientVars == <<client, req, rep>>

Least(S) == CHOOSE x \in S : \A y \in S : x <= y
Smaller(a, b) == IF a <= b THEN a ELSE b
Larger(a, b) == IF a >= b THEN a ELSE b

-----------------------------------------------------------------------------
(* cras_shm.h.  h is a header; offsets count frames.                       *)

FreshShm == [woff |-> [i \in Halves |-> 0], roff |-> [i \in Halves |-> 0],
             widx |-> 0, ridx |-> 0, pending |-> FALSE]

InHalf(h, i) == IF h.woff[i] > h.roff[i] THEN h.woff[i] - h.roff[i] ELSE 0

cras_shm_get_frames(h) == InHalf(h, 0) + InHalf(h, 1)

cras_shm_is_buffer_available(h) == h.woff[h.widx] = 0

\* Mutant: what was read of the second half is not carried over to it.
MutReadForgetsRest(h, n) ==
    LET r == h.ridx IN
    IF n = 0 THEN h
    ELSE IF h.roff[r] + n < h.woff[r] THEN [h EXCEPT !.roff[r] = @ + n]
    ELSE [h EXCEPT !.roff[r] = 0, !.woff[r] = 0, !.ridx = 1 - @]

cras_shm_buffer_read(h, n) ==
    LET r == h.ridx
        rest == h.roff[r] + n - h.woff[r]
        read == [h EXCEPT !.roff[r] = 0, !.woff[r] = 0, !.ridx = 1 - @]
    IN IF n = 0 THEN h
       ELSE IF rest < 0 THEN [h EXCEPT !.roff[r] = @ + n]
       ELSE IF rest < h.woff[1 - r] THEN [read EXCEPT !.roff[1 - r] = rest]
       ELSE IF rest > 0 THEN [read EXCEPT !.woff[1 - r] = 0, !.ridx = r]
       ELSE read

-----------------------------------------------------------------------------
Idle == [phase |-> "idle", todo |-> <<>>]
FreshFrames == [next |-> 0, first |-> [i \in Halves |-> 0], tail |-> 0,
                raced |-> FALSE, swapped |-> FALSE]
RacedFrames == [FreshFrames EXCEPT !.raced = TRUE]
SwappedFrames(t) == [FreshFrames EXCEPT !.tail = t, !.swapped = TRUE]

Init ==
    /\ open = <<>>
    /\ state = [d \in Devs |-> "closed"]
    /\ hw = [d \in Devs |-> 0]
    /\ on = [d \in Devs |-> {}] /\ run = [d \in Devs |-> {}]
    /\ off = [s \in Streams |-> [d \in Devs |-> 0]]
    /\ queued = [s \in Streams |-> 0]
    /\ shm = [s \in Streams |-> FreshShm]
    /\ due = [s \in Streams |-> FALSE]
    /\ live = {} /\ drain = {}
    /\ client = [s \in Streams |-> "wait"]
    /\ req = [s \in Streams |-> 0] /\ rep = [s \in Streams |-> 0]
    /\ frames = [s \in Streams |-> FreshFrames]
    /\ pass = Idle
    /\ budget \in Budgets
    /\ hist = [broken |-> FALSE, cut |-> FALSE]

-----------------------------------------------------------------------------
(* The devices: what adding and removing streams and writing changes.      *)

\* written counts what a write to a device has given it (total_written).
Lists == [state |-> state, hw |-> hw, on |-> on, run |-> run, off |-> off, due |-> due,
          written |-> 0]

Becomes(L) ==
    /\ state' = L.state /\ hw' = L.hw /\ on' = L.on
    /\ run' = L.run /\ off' = L.off /\ due' = L.due

Att(L, s) == {d \in Devs : s \in L.on[d]}

min_cb_level(L, d) == Least({HwSize \div 2} \cup {Cb[s] : s \in L.run[d]})

\* dev_io_append_stream: the streams J are attached to the devices D, none of
\* which they are on.  The first callback of a stream comes later; a stream that
\* is attached already gets a next_cb_ts of zero, as from its second device on.
dev_io_append_stream(L, J, D) ==
    [L EXCEPT !.on = [d \in Devs |-> IF d \in D THEN L.on[d] \cup J ELSE L.on[d]],
              !.off = [s \in Streams |-> [d \in Devs |->
                         IF s \in J /\ d \in D THEN 0 ELSE L.off[s][d]]],
              !.due = [s \in Streams |->
                         IF s \in J /\ D # {} THEN Att(L, s) # {} \/ Cardinality(D) > 1
                         ELSE L.due[s]]]

\* Mutant: zeros are filled without regard to the room.
MutFilledBeyond(L, d, n) == [L EXCEPT !.hw[d] = @ + n]

\* cras_iodev_fill_odev_zeros
Filled(L, d, n) == [L EXCEPT !.hw[d] = Smaller(@ + n, HwSize)]

\* default_no_stream_playback, with its handling of an underrun.
NoStreamPlayback(L, d) ==
    [L EXCEPT !.hw[d] = Larger(@, 2 * min_cb_level(L, d))]

\* cras_iodev_rm_stream, which also lets the streams that have not started
\* join the next callback of one that has.
cras_iodev_rm_stream(L, s, d) ==
    LET M == [L EXCEPT !.on[d] = @ \ {s}, !.run[d] = @ \ {s}, !.off[s][d] = 0]
        N == IF M.run[d] = {} THEN M
             ELSE [M EXCEPT !.due = [t \in Streams |->
                     IF t \in M.on[d] \ M.run[d] THEN \E u \in M.run[d] : L.due[u] ELSE L.due[t]]]
    IN IF N.on[d] = {} /\ N.state[d] = "run"
       THEN NoStreamPlayback([N EXCEPT !.state[d] = "nostream"], d)
       ELSE N

\* Removals(L, s)[k]: the loop of dev_io_remove_stream has visited k devices.
Removals(L, s) ==
    LET f[k \in 0..Len(open)] ==
          IF k = 0 THEN L ELSE cras_iodev_rm_stream(f[k - 1], s, open[k])
    IN f

\* dev_io_remove_stream from all devices.
dev_io_remove_stream(L, s) == Removals(L, s)[Len(open)]

\* DL_DELETE of the entry of x.
Without(q, x) == RemoveAt(q, CHOOSE i \in DOMAIN q : q[i] = x)

-----------------------------------------------------------------------------
(* Streams and devices come and go between two runs of dev_io_run.         *)

\* A new stream is attached to the open devices of its route, by one message.
\* When one of them does not take it, it is taken off the others and destroyed.
AddStream(s) ==
    LET D == Route[s] \cap Range(open) IN
    /\ pass = Idle /\ s \notin live \cup drain /\ budget.adds[s] > 0
    /\ budget' = [budget EXCEPT !.adds[s] = @ - 1]
    /\ \/ live' = live \cup {s} /\ Becomes(dev_io_append_stream(Lists, {s}, D))
       \/ \E E \in SUBSET D :
            /\ E # D /\ live' = live
            /\ Becomes([dev_io_remove_stream(dev_io_append_stream(Lists, {s}, E), s)
                          EXCEPT !.due[s] = FALSE])
    /\ UNCHANGED <<open, queued, shm, drain, clientVars, frames, pass, hist>>

\* The streams that init_and_attach_streams attaches to a device it has opened,
\* when it has visited k streams of the list.
Joins(s, d) == s \in live /\ d \in Route[s]

\* cras_iodev_open for a stream t, whose callbacks set the first min_cb_level.
Opened(d, t) ==
    LET st == IF d \in CanStart THEN "open" ELSE "nostream"
    IN [Lists EXCEPT !.state[d] = st,
                     !.hw[d] = IF st = "open" THEN 0 ELSE Smaller(HwSize \div 2, Cb[t])]

Attached(d, t, k) ==
    dev_io_append_stream(Opened(d, t), {s \in Streams : \E i \in 1..k : Order[i] = s /\ Joins(s, d)},
                         {d})

\* init_and_attach_streams: a device is opened for a stream that may play on it (one
\* of the list or one that is about to be added), waiting for its first samples or
\* playing zeros right away, and the streams of the list that may play on
\* it are attached in their order, by one message.  The first of them that
\* cannot be attached is taken off all devices, and the ones after it are not.
OpenDev(d) ==
    /\ pass = Idle /\ d \notin Range(open) /\ budget.opens > 0
    /\ budget' = [budget EXCEPT !.opens = @ - 1]
    /\ open' = Append(open, d)
    /\ \E t \in Streams :
         /\ d \in Route[t]
         /\ \/ Becomes(Attached(d, t, Len(Order)))
            \/ \E k \in DOMAIN Order :
                 /\ Joins(Order[k], d)
                 /\ Becomes(dev_io_remove_stream(Attached(d, t, k - 1), Order[k]))
    /\ UNCHANGED <<live, queued, shm, drain, clientVars, frames, pass, hist>>

\* dev_io_rm_open_dev; the streams are taken off in turn, so that some that
\* have not started may join the callback of one that has.
dev_io_rm_open_dev(d) ==
    /\ pass = Idle /\ d \in Range(open) /\ budget.leaves > 0
    /\ budget' = [budget EXCEPT !.leaves = @ - 1]
    /\ open' = Without(open, d)
    /\ \E A \in SUBSET (on[d] \ run[d]) :
         /\ run[d] = {} => A = {}
         /\ due' = [s \in Streams |-> IF s \in A THEN \E u \in run[d] : due[u] ELSE due[s]]
    /\ state' = [state EXCEPT ![d] = "closed"]
    /\ hw' = [hw EXCEPT ![d] = 0]
    /\ on' = [on EXCEPT ![d] = {}] /\ run' = [run EXCEPT ![d] = {}]
    /\ off' = [s \in Streams |-> [off[s] EXCEPT ![d] = 0]]
    /\ UNCHANGED <<live, queued, shm, drain, clientVars, frames, pass, hist>>

\* delete_streams asks the audio thread for a stream that is to go
\* (thread_drain_stream): it is gone if it is on no device or has nothing left
\* to play; otherwise it drains, and the timer asks again.
Gone(s) == Att(Lists, s) = {} \/ cras_shm_get_frames(shm[s]) = 0

Destroyed(s) ==
    /\ Becomes([dev_io_remove_stream(Lists, s) EXCEPT !.due[s] = FALSE])
    /\ drain' = drain \ {s}
    /\ queued' = [queued EXCEPT ![s] = 0]
    /\ shm' = [shm EXCEPT ![s] = FreshShm]
    /\ client' = [client EXCEPT ![s] = "wait"]
    /\ req' = [req EXCEPT ![s] = 0] /\ rep' = [rep EXCEPT ![s] = 0]
    /\ frames' = [frames EXCEPT ![s] = FreshFrames]

\* What a stream that begins to drain has still to play, for the history.
Remaining(s) == IF frames[s].raced THEN 0 ELSE cras_shm_get_frames(shm[s])

\* stream_list_rm: on request of the client, or because it is gone.
stream_list_rm(s) ==
    /\ pass = Idle /\ s \in live /\ budget.leaves > 0
    /\ budget' = [budget EXCEPT !.leaves = @ - 1]
    /\ live' = live \ {s}
    /\ \/ Gone(s) /\ Destroyed(s)
       \/ /\ ~Gone(s)
          /\ drain' = drain \cup {s}
          /\ frames' = [frames EXCEPT ![s].tail = Remaining(s)]
          /\ UNCHANGED <<devVars, queued, shm, clientVars>>
    /\ UNCHANGED <<open, pass, hist>>

drain_timer(s) ==
    /\ pass = Idle /\ s \in drain \ live /\ Gone(s)
    /\ Destroyed(s)
    /\ UNCHANGED <<listVars, pass, hist>>

-----------------------------------------------------------------------------
(* Time: a device plays a frame, a stream's next callback time comes.      *)
(* Both are looked at once in a run, so they change between two runs.      *)

Play(d) ==
    /\ pass = Idle /\ state[d] \in {"run", "nostream"} /\ hw[d] > 0
    /\ hw' = [hw EXCEPT ![d] = @ - 1]
    /\ UNCHANGED <<listVars, state, on, run, off, due, queued, shm, drain, clientVars,
                   frames, pass, hist>>

TimePasses(s) ==
    /\ pass = Idle /\ Att(Lists, s) # {} /\ ~due[s]
    /\ due' = [due EXCEPT ![s] = TRUE]
    /\ UNCHANGED <<listVars, state, hw, on, run, off, queued, shm, drain, clientVars,
                   frames, pass, hist>>

-----------------------------------------------------------------------------
(* dev_io_run: dev_io_playback_fetch, then dev_io_playback_write: the      *)
(* devices in turn, then the read pointers of the streams.                 *)

\* dev_io_check_dev_stream_start
Started(d) == run[d] \cup {s \in on[d] : due[s]}

\* cras_rstream_flush_old_audio_messages, if a reply is pending: a reply is
\* there, or the end of the socket.
Pending(s) == shm[s].pending /\ rep[s] = 0 /\ client[s] # "dead"

Asks(s) == due[s] /\ s \notin drain /\ ~Pending(s)

\* fetch_streams over all devices: a stream whose half is still in use, or
\* that is asked for samples, has its callback put off; one whose client is
\* dead cannot be asked, and drains.  A device that cannot tell its delay is
\* skipped, and the streams that are on no other one with it; a stream whose
\* device cannot tell the time (dev_stream_set_delay) drains, and is asked.
dev_io_playback_fetch ==
    /\ pass = Idle /\ open # <<>>
    /\ run' = [d \in Devs |-> Started(d)]
    /\ \E N \in SUBSET budget.late :
       LET fetched == {s \in Streams : Att(Lists, s) \ N # {}}
           ask == {s \in fetched : Asks(s)}
           try == {s \in ask : cras_shm_is_buffer_available(shm[s])}
           fail == {s \in try : client[s] = "dead"}
           request == try \ fail
       IN \E untimed \in SUBSET {s \in try : Att(Lists, s) \cap budget.late # {}} :
          /\ due' = [s \in Streams |-> due[s] /\ s \notin ask \ fail]
          /\ drain' = drain \cup fail \cup untimed
          /\ frames' = [s \in Streams |-> IF s \in fail \cup untimed
                                         THEN [frames[s] EXCEPT !.tail = Remaining(s)]
                                         ELSE frames[s]]
          /\ req' = [s \in Streams |-> IF s \in request THEN req[s] + 1 ELSE req[s]]
          /\ rep' = [s \in Streams |-> IF s \in fetched THEN 0 ELSE rep[s]]
          /\ shm' = [s \in Streams |->
                       IF s \notin fetched THEN shm[s]
                       ELSE [shm[s] EXCEPT !.pending = Pending(s) \/ s \in request]]
    /\ pass' = [phase |-> "write", todo |-> open]
    /\ UNCHANGED <<listVars, state, hw, on, off, queued, client, hist>>

\* Mutants: the read offsets are ignored; only the current half is counted.
MutQueuedIgnoresRead(s) == Smaller(shm[s].woff[0] + shm[s].woff[1], BufFrames)
MutQueuedOneHalf(s) == Smaller(InHalf(shm[s], shm[s].ridx), BufFrames)

\* cras_rstream_update_queued_frames
update_queued_frames(s) == Smaller(cras_shm_get_frames(shm[s]), BufFrames)

\* The queued frames a device uses: of all streams they are updated when the
\* first of several devices is written, of a stream with one device then.
QueuedFrames(d) ==
    [s \in Streams |->
        IF \/ Len(open) > 1 /\ pass.todo = open /\ Att(Lists, s) # {}
           \/ s \in run[d] /\ Cardinality(Att(Lists, s)) = 1
        THEN update_queued_frames(s) ELSE queued[s]]

\* cras_rstream_playable_frames; the code's difference is unsigned.
playable_frames(L, q, s, d) == q[s] - L.off[s][d]

\* cras_iodev_prepare_output_before_write_samples: the device starts when all
\* streams that play on it have samples.
SampleReady(L, q, d) ==
    /\ \E s \in L.run[d] : playable_frames(L, q, s, d) > 0
    /\ \A s \in L.run[d] \ drain : playable_frames(L, q, s, d) # 0

Prepared(L, q, d) ==
    CASE L.state[d] = "open" /\ SampleReady(L, q, d) ->
           [Filled(L, d, min_cb_level(L, d)) EXCEPT !.state[d] = "run"]
      [] L.state[d] = "nostream" /\ SampleReady(L, q, d) -> [L EXCEPT !.state[d] = "run"]
      [] L.state[d] = "nostream" /\ ~SampleReady(L, q, d) -> NoStreamPlayback(L, d)
      [] OTHER -> L

\* get_write_limit: the streams it ends, and the limit.
Ended(L, q, d) == {s \in L.run[d] : \/ playable_frames(L, q, s, d) < 0
                                    \/ s \in drain /\ playable_frames(L, q, s, d) = 0}

get_write_limit(L, q, d, room) ==
    LET giving == {s \in L.run[d] : playable_frames(L, q, s, d) >= 0}
        playing == giving \ drain
    IN Least({room} \cup {playable_frames(L, q, s, d) :
                            s \in IF playing # {} THEN playing ELSE giving})

\* RemovedOf(L, S)[k]: of the first k streams of the list, those in S are removed.
RemovedOf(L, S) ==
    LET f[k \in 0..Len(Order)] ==
          IF k = 0 THEN L
          ELSE IF Order[k] \in S THEN dev_io_remove_stream(f[k - 1], Order[k])
          ELSE f[k - 1]
    IN f

RemoveAll(L, S) == RemovedOf(L, S)[Len(Order)]

\* write_streams (dev_stream_mix): a stream that drains may give less than
\* the limit.
Mixed(L, q, d, limit) ==
    [L EXCEPT !.off = [s \in Streams |->
        IF s \in L.run[d]
        THEN [L.off[s] EXCEPT ![d] = @ + Smaller(limit, playable_frames(L, q, s, d))]
        ELSE L.off[s]]]

\* One round of the loop in write_output_samples, with room for n frames.
Round(L, q, d, n) ==
    LET limit == get_write_limit(L, q, d, n)
        rest == RemoveAll(L, Ended(L, q, d))
    IN IF rest.run[d] = {} THEN rest
       ELSE [Mixed(rest, q, d, limit) EXCEPT !.hw[d] = @ + limit, !.written = @ + limit]

\* write_output_samples: the room may wrap around the end of the device's
\* ring, once, and the second part is only used when the first was filled.
Writes(L, q, d) ==
    IF L.state[d] # "run" THEN {L}
    ELSE LET room == HwSize - L.hw[d] IN
         IF room = 0 THEN {L}
         ELSE {LET one == Round(L, q, d, n)
                   full == get_write_limit(L, q, d, n) = n /\ one.run[d] # {}
               IN IF full /\ n < room THEN Round(one, q, d, room - n) ELSE one
               : n \in 1..room}

\* The check for an underrun after the write.
Checked(L, d) ==
    IF L.state[d] \in {"run", "nostream"} /\ L.hw[d] <= L.written
    THEN Filled(L, d, min_cb_level(L, d)) ELSE L

\* The frame that the buffer of s has at an offset past its read pointer.
FrameAt(s, o) ==
    LET h == shm[s]
        p == h.roff[h.ridx] + o
    IN IF p < h.woff[h.ridx] THEN (frames[s].first[h.ridx] + p) % FrameIds
       ELSE (frames[s].first[1 - h.ridx] + p - h.woff[h.ridx]) % FrameIds

\* What the write to d does with the frames, for the history.
PlaysWrongFrame(L, d) ==
    \E s \in run[d] : ~frames[s].raced /\ ~frames[s].swapped /\ \E o \in off[s][d]..L.off[s][d] - 1 : FrameAt(s, o) # o
CutsOff(L, q, d) ==
    \E s \in drain \cap run[d] : s \notin L.run[d] /\ q[s] < Smaller(frames[s].tail, BufFrames)

Write(d) ==
    /\ pass.phase = "write" /\ d = Head(pass.todo)
    /\ LET q == QueuedFrames(d)
       IN /\ queued' = q
          /\ \E L \in Writes(Prepared(Lists, q, d), q, d) :
               /\ Becomes(Checked(L, d))
               /\ hist' = [hist EXCEPT !.broken = @ \/ PlaysWrongFrame(L, d),
                                       !.cut = @ \/ CutsOff(L, q, d)]
    /\ pass' = IF Len(pass.todo) > 1 THEN [pass EXCEPT !.todo = Tail(@)]
               ELSE [phase |-> "pointers", todo |-> <<>>]
    /\ UNCHANGED <<listVars, shm, drain, clientVars, frames>>

\* Mutant: a device that the stream has left still holds the read pointer back.
MutPointOfAllDevs(s) == Least({off[s][d] : d \in Devs})

\* dev_stream_playback_update_rstream: the frames all devices have played.
NewPoint(s) == IF Att(Lists, s) = {} THEN 0 ELSE Least({off[s][d] : d \in Att(Lists, s)})

\* Frames are counted from the new read pointer; a half that is empty has none.
Renumbered(s, n, h) ==
    LET tail == Larger(frames[s].tail - n, 0) IN
    IF frames[s].raced THEN RacedFrames
    ELSE IF frames[s].swapped THEN SwappedFrames(tail)
    ELSE [next |-> (frames[s].next - n) % FrameIds,
          first |-> [i \in Halves |-> IF h.woff[i] = 0 THEN 0
                                      ELSE (frames[s].first[i] - n) % FrameIds],
          tail |-> tail, raced |-> FALSE, swapped |-> FALSE]

update_output_read_pointers ==
    /\ pass.phase = "pointers"
    /\ off' = [s \in Streams |-> [d \in Devs |-> IF s \in on[d] THEN off[s][d] - NewPoint(s)
                                                 ELSE 0]]
    /\ shm' = [s \in Streams |-> cras_shm_buffer_read(shm[s], NewPoint(s))]
    /\ frames' = [s \in Streams |-> Renumbered(s, NewPoint(s), shm'[s])]
    /\ queued' = [s \in Streams |-> 0]   \* not used again before it is updated
    /\ pass' = Idle
    /\ UNCHANGED <<listVars, state, hw, on, run, due, drain, clientVars, hist>>

-----------------------------------------------------------------------------
(* The client's audio thread of a stream: handle_playback_request and      *)
(* cras_shm_buffer_written_start.                                          *)

\* Stores after which the half being read holds newer frames than the other one.
\* The halves change places when a callback returns no frames: its half is passed
\* over, empty.
Swaps(h, n) == n > 0 /\ h.widx = h.ridx /\ h.woff[1 - h.widx] > 0

\* The callback returns n frames; the first store makes them visible.
Stored(s, n) ==
    LET w == shm[s].widx IN
    /\ frames' = IF frames[s].raced \/ frames[s].swapped THEN frames
                 ELSE IF Swaps(shm[s], n)
                 THEN [frames EXCEPT ![s] = SwappedFrames(frames[s].tail)]
                 ELSE [frames EXCEPT ![s].first[w] = frames[s].next,
                                     ![s].next = (@ + n) % FrameIds]
    /\ req' = [req EXCEPT ![s] = @ - 1]
    /\ IF s \in budget.slow
       THEN /\ shm' = [shm EXCEPT ![s].woff[w] = n]
            /\ client' = [client EXCEPT ![s] = "stored"]
            /\ UNCHANGED rep
       ELSE /\ shm' = [shm EXCEPT ![s].woff[w] = n, ![s].roff[w] = 0, ![s].widx = 1 - w]
            /\ rep' = [rep EXCEPT ![s] = @ + 1]
            /\ UNCHANGED client

\* A callback that returns an error or EOF is answered, and nothing is stored; the
\* client goes on to remove the stream.
Ends(s) ==
    /\ req' = [req EXCEPT ![s] = @ - 1]
    /\ rep' = [rep EXCEPT ![s] = @ + 1]
    /\ UNCHANGED <<client, shm, frames>>

Callback(s) ==
    /\ client[s] = "wait" /\ req[s] > 0
    /\ \E n \in {Smaller(a, Cb[s]) : a \in budget.answers} :
          (n >= 0 /\ Stored(s, n)) \/ (n < 0 /\ Ends(s))
    /\ UNCHANGED <<listVars, devVars, queued, drain, pass, hist>>

\* The second store, after which frames that the server has read in between
\* are there again; the half is complete, and send_playback_reply.
Complete(s) ==
    /\ client[s] = "stored"
    /\ LET w == shm[s].widx IN
       /\ shm' = [shm EXCEPT ![s].roff[w] = 0, ![s].widx = 1 - w]
       /\ frames' = IF shm[s].roff[w] = 0 THEN frames ELSE [frames EXCEPT ![s] = RacedFrames]
    /\ rep' = [rep EXCEPT ![s] = @ + 1]
    /\ client' = [client EXCEPT ![s] = "wait"]
    /\ UNCHANGED <<listVars, devVars, queued, drain, req, pass, hist>>

\* The client dies; the requests it has not read are gone with it.
ClientDies(s) ==
    /\ s \in live \cup drain /\ client[s] # "dead" /\ budget.deaths > 0
    /\ budget' = [budget EXCEPT !.deaths = @ - 1]
    /\ client' = [client EXCEPT ![s] = "dead"]
    /\ req' = [req EXCEPT ![s] = 0]
    /\ UNCHANGED <<open, live, devVars, queued, shm, drain, rep, frames, pass, hist>>

-----------------------------------------------------------------------------
AudioThread ==
    \/ dev_io_playback_fetch
    \/ \E d \in Devs : Write(d)
    \/ update_output_read_pointers

ClientThread(s) == Callback(s) \/ Complete(s)

Next ==
    \/ AudioThread
    \/ \E s \in Streams : \/ AddStream(s) \/ stream_list_rm(s) \/ drain_timer(s)
                          \/ TimePasses(s) \/ ClientThread(s) \/ ClientDies(s)
    \/ \E d \in Devs : OpenDev(d) \/ dev_io_rm_open_dev(d) \/ Play(d)

Spec == Init /\ [][Next]_vars

-----------------------------------------------------------------------------
(* Properties.                                                             *)

\* Types: among them that a device's buffer is never filled beyond its size,
\* that a stream that plays is on the stream list or draining, and that no
\* second request and no second reply is ever on the audio socket of a stream.
TypeOK ==
    /\ open \in Seq(Devs) /\ live \subseteq Streams /\ drain \subseteq Streams
    /\ state \in [Devs -> {"closed", "open", "run", "nostream"}]
    /\ hw \in [Devs -> 0..HwSize]
    /\ on \in [Devs -> SUBSET (live \cup drain)]
    /\ \A d \in Devs : run[d] \subseteq on[d]
    /\ off \in [Streams -> [Devs -> 0..BufFrames]]
    /\ queued \in [Streams -> 0..BufFrames]
    /\ shm \in [Streams -> [woff : [Halves -> Nat], roff : [Halves -> Nat],
                            widx : Halves, ridx : Halves, pending : BOOLEAN]]
    /\ due \in [Streams -> BOOLEAN]
    /\ client \in [Streams -> {"wait", "stored", "dead"}]
    /\ req \in [Streams -> 0..1] /\ rep \in [Streams -> 0..1]
    /\ frames \in [Streams -> [next : 0..FrameIds - 1, first : [Halves -> 0..FrameIds - 1],
                               tail : Nat, raced : BOOLEAN, swapped : BOOLEAN]]
    /\ pass \in [phase : {"idle", "write", "pointers"}, todo : Seq(Devs)]
    /\ budget \in [opens : Nat, adds : [Streams -> Nat], leaves : Nat, deaths : Nat,
                   slow : SUBSET Streams, answers : SUBSET Int, late : SUBSET Devs]
    /\ hist \in [broken : BOOLEAN, cut : BOOLEAN]

\* Every device plays the frames of a stream in the order in which the client
\* wrote them, none twice and none left out, from the point at which the stream
\* was attached to it: across the two halves, while the client fills one of
\* them, while devices come and go and the read pointer follows the slowest of
\* them.  There are two exceptions.  The server has read frames of the stream
\* between the client's two stores of cras_shm_buffer_written_start
\* (frames.raced): they are there again, and are played again.  Or both halves
\* were filled after the turns of client and server had come apart
\* (frames.swapped): the newer half is played first.  That happens only to
\* clients whose callbacks return no frames at times.
PlaysInOrder ==
    /\ ~hist.broken
    /\ \A s \in Streams : frames[s].swapped => 0 \in budget.answers

\* No device is ahead of what the buffer of a stream holds, in any state, so
\* that the unsigned difference of cras_rstream_playable_frames does not wrap
\* around.  The number of frames was read earlier than the offset and the client
\* does not wait: it must never make the buffer shorter.
NoWrap == \A s \in Streams, d \in Devs : off[s][d] <= cras_shm_get_frames(shm[s])

\* A stream that its client has removed, or whose client has died, is played to
\* the end: when get_write_limit takes it off the devices, the fastest of them
\* has played all that the buffer held when it began to drain (unless the race
\* above has replayed some of it), or buffer_frames of it if that is less.  A
\* buffer holds two callbacks, and the server asks for room for one
\* (verify_rstream_parameters): with callbacks above half of buffer_frames the
\* two halves may hold more than update_queued_frames counts, and the rest is cut
\* off when the devices are that far apart.
DrainedIsPlayed == ~hist.cut

\* Held up: a stream that plays on d has nothing more for it, and cannot ask its
\* client for more because another device has not yet played what is there.
HeldUp(d) == \E s \in run[d] \ drain :
    /\ off[s][d] = update_queued_frames(s)
    /\ ~cras_shm_is_buffer_available(shm[s]) /\ req[s] = 0 /\ client[s] # "stored"
    /\ NewPoint(s) = 0

NoMutualHold == pass = Idle /\ open # <<>> => \E d \in Range(open) : ~HeldUp(d)

ShortAnswers == \E a \in budget.answers, s \in Streams : a < Cb[s]

\* Two streams on two devices never hold up each other's devices for ever (the
\* one waiting on d2 for a device that the other holds up, and conversely), as
\* long as all callbacks return as many frames as they are asked for.  With
\* shorter answers they can: nothing aligns the offsets of output devices.
HeldOnlyIfShort == ShortAnswers \/ NoMutualHold
=============================================================================
