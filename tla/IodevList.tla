----------------------------- MODULE IodevList -----------------------------
(***************************************************************************)
(* The stream router of the CRAS server: src/cras/src/server/              *)
(* cras_iodev_list.c with stream_list.c, the device messages of            *)
(* cras_device_monitor.c and the part of the audio thread they rely on.    *)
(*                                                                         *)
(* The main thread runs one handler at a time: a client adds or removes a  *)
(* stream, the UI selects a node, a device is plugged, the system is       *)
(* suspended, a timer fires, a message of the audio thread arrives.  The   *)
(* audio thread may drop a device with an I/O error between any two of     *)
(* them.  A handler is one action, except the loops over streams           *)
(* (resume_devs, delete_streams, stream_list_rm_all_client_streams), which *)
(* are one action per iteration, the variable `main` telling where the     *)
(* main thread is.                                                         *)
(*                                                                         *)
(* The state the handlers thread through their calls is the record         *)
(* `iodevs`; an operator named after a C function maps the record before   *)
(* the call to the record after it.                                        *)
(***************************************************************************)
EXTENDS Integers, Sequences, SequencesExt, FiniteSets

CONSTANTS
    Devs,          \* every iodev, the fallback devices included
    Directions,    \* directions in use: a subset of {"output", "input"}
    Dir,           \* direction of a device or a stream
    Fallback,      \* fallback_devs[direction]
    Group,         \* the set cras_iodev_get_dev_group returns, {d} if none
    Pos,           \* the order in which loops over devices visit them
    MaxChannels,   \* info.max_supported_channels of a device
    Nodes,         \* node indices of a device
    InitialDevs,   \* devices already in devs[] at the start
    Streams,       \* streams that clients may create
    Channels,      \* format.num_channels of a stream
    Client,        \* the rclient that owns a stream
    PinnedTo,      \* pinned_dev_idx of a stream, NoDev if it is not pinned
    NoDev,
    Attachable,    \* streams for which should_attach_stream(device) is true
    ApmStreams,    \* streams with a stream_apm
    RestartDevs,   \* devices whose restart tag may change while open
    OpenFaults,    \* sets of devices whose open may fail during a handler
    AppendFaults,  \* sets of <<device, stream>> appends that may fail
    ThreadFaults,  \* devices the audio thread may drop with an error
    MaxMessages,   \* messages that fit into the pipe to the main thread
    MaxPins        \* bound on num_pinned_streams when the system resumes

Fallbacks == {Fallback[dir] : dir \in Directions}

Pinned(s) == PinnedTo[s] # NoDev

\* A group is shared by its
\* members, a fallback device is in no group, opens always and takes every
\* stream, every group takes every stream of its direction, and the devices of a
\* group are listed together.
ASSUME RouterAssumption ==
    /\ Directions \subseteq {"output", "input"}
    /\ Dir \in [Devs \cup Streams -> Directions]
    /\ Fallback \in [Directions -> Devs]
    /\ \A dir \in Directions : Dir[Fallback[dir]] = dir
    /\ \A d \in Devs : /\ d \in Group[d]
                       /\ Group[d] \subseteq Devs
                       /\ \A e \in Group[d] : Group[e] = Group[d] /\ Dir[e] = Dir[d]
    /\ \A d, e \in Devs : Pos[d] = Pos[e] => d = e
    /\ \A d \in Fallbacks : Group[d] = {d} /\ Attachable[d] = Streams
    /\ InitialDevs \subseteq Devs \ Fallbacks
    /\ \A d \in InitialDevs : Group[d] \subseteq InitialDevs
    /\ Nodes # {} /\ Client \in [Streams -> Range(Client)]
    /\ NoDev \notin Devs
    /\ \A s \in Streams : PinnedTo[s] \in (Devs \ Fallbacks) \cup {NoDev}
    /\ \A s \in Streams : Pinned(s) => Dir[PinnedTo[s]] = Dir[s]
    /\ Channels \in [Streams -> Nat \ {0}]
    /\ MaxChannels \in [Devs -> Nat \ {0}]
    /\ \A s \in Streams, d \in Devs :
          Dir[s] = Dir[d] => \E e \in Group[d] : s \in Attachable[e]
    /\ {} \in OpenFaults /\ \A F \in OpenFaults : F \subseteq Devs \ Fallbacks
    /\ {} \in AppendFaults /\ \A F \in AppendFaults : F \subseteq Devs \X Streams
    /\ ThreadFaults \subseteq Devs
    /\ RestartDevs \subseteq Devs \ Fallbacks
    /\ MaxMessages \in Nat /\ MaxPins \in Nat

VARIABLES
    iodevs,      \* cras_iodev_list.c and the devices, see TypeOK
    streams,     \* stream_list.streams, in list order
    toDelete,    \* stream_list.streams_to_delete, in list order
    drainTimer,  \* stream_list.drain_timer is armed
    idleTimer,   \* idle_timer is armed
    unplayed,    \* streams of toDelete whose shm still holds frames
    main,        \* the loop the main thread is inside, if any
    messages     \* device messages waiting in the main message pipe

vars == <<iodevs, streams, toDelete, drainTimer, idleTimer, unplayed, main, messages>>

\* The main thread waits in poll; or it is inside delete_streams or resume_devs,
\* with the streams of `todo` left to visit, or inside
\* stream_list_rm_all_client_streams for the client in `who`.
Idle == [loop |-> "none", todo |-> <<>>, who |-> {}]
Loop(loop, todo) == IF todo = <<>> THEN Idle ELSE [loop |-> loop, todo |-> todo, who |-> {}]

\* The element at which a loop that stops at the first hit stops.
FirstOf(S) == CHOOSE i \in S : \A j \in S : i <= j

IndexOf(list, s) == CHOOSE i \in DOMAIN list : list[i] = s

(***************************************************************************)
(* What may go wrong in the environment during one handler: the devices    *)
(* whose open fails and the appends that fail.                             *)
(***************************************************************************)
Faults == [open : OpenFaults, append : AppendFaults]

(***************************************************************************)
(* Devices: closing and opening.                                           *)
(***************************************************************************)
\* Mutant: the device is closed under the audio thread.
MutCloseUnderThread(l, D) ==
    [l EXCEPT !.open = @ \ D, !.idle = @ \ D]

\* close_dev for each device of D: the audio thread drops the device and its
\* streams first; nothing happens to a device that is not open.
close_devs(l, D) ==
    LET C == D \cap l.open
    IN [l EXCEPT !.open = @ \ C, !.thr = @ \ C, !.idle = @ \ C,
                 !.chan = [d \in Devs |-> IF d \in C THEN 0 ELSE @[d]],
                 !.att = [d \in Devs |-> IF d \in C THEN {} ELSE @[d]]]

\* Mutant: the pending retries are not cancelled.
MutInitKeepsRetries(l, D, fmt, f) ==
    LET up == (D \ l.open) \ f.open
    IN [l EXCEPT !.idle = @ \ D, !.open = @ \cup up, !.thr = @ \cup up,
                 !.resetPending = @ \ up,
                 !.chan = [d \in Devs |-> IF d \in up THEN fmt[d] ELSE @[d]]]

\* Mutant: an open device stays idle.
MutInitStaysIdle(l, D, fmt, f) ==
    LET try == D \ l.open
        up == try \ f.open
    IN [l EXCEPT !.retry = @ \ try, !.open = @ \cup up, !.thr = @ \cup up,
                 !.resetPending = @ \ up,
                 !.chan = [d \in Devs |-> IF d \in up THEN fmt[d] ELSE @[d]]]

\* init_device for each device of D, the format taken from a stream with fmt[d]
\* channels: the device leaves idle; a closed one loses its pending retries and
\* is opened and handed to the audio thread, unless its open fails.
init_devices(l, D, fmt, f) ==
    LET try == D \ l.open
        up == try \ f.open
    IN [l EXCEPT !.idle = @ \ D, !.retry = @ \ try,
                 !.open = @ \cup up, !.thr = @ \cup up,
                 !.resetPending = @ \ up,
                 !.chan = [d \in Devs |-> IF d \in up
                             THEN IF fmt[d] <= MaxChannels[d] THEN fmt[d] ELSE MaxChannels[d]
                             ELSE @[d]]]

\* The devices of D for which init_device returns an error.
init_failed(l, D, f) == (D \ l.open) \cap f.open

\* A timer to open each device of D later.  Every call follows an init_device of
\* that device that failed and has cancelled the timers it had: there is never more
\* than one per device, and a set of devices says it all.
schedule_init_device_retry(l, D) == [l EXCEPT !.retry = @ \cup D]

\* update_active_node(dev, dev->active_node->idx, on): the hardware node of the
\* group is switched on or off.
SwitchNode(l, d, on) ==
    [l EXCEPT !.nodeOn = IF on THEN @ \cup Group[d] ELSE @ \ Group[d]]

(***************************************************************************)
(* Attaching streams in the audio thread.                                  *)
(***************************************************************************)
\* add_streams_to_open_devs for one stream: it is attached to the devices of D
\* the audio thread holds; if one append fails, dev_io_append_stream takes the
\* stream off every device.
Refuses(l, d, s, f) == s \notin l.att[d] /\ <<d, s>> \in f.append

append_fails(l, s, D, f) == \E d \in D \cap l.thr : Refuses(l, d, s, f)

\* Mutant: a refused stream stays on the devices that had it before.
MutAddKeepsRefused(l, s, D, f) ==
    [l EXCEPT !.att = [d \in Devs |->
        IF d \in D \cap l.thr /\ ~append_fails(l, s, D, f) THEN @[d] \cup {s} ELSE @[d]]]

add_stream(l, s, D, f) ==
    [l EXCEPT !.att = [d \in Devs |->
        IF append_fails(l, s, D, f) THEN @[d] \ {s}
        ELSE IF d \in D \cap l.thr THEN @[d] \cup {s} ELSE @[d]]]

disconnect_stream(l, s, D) ==
    [l EXCEPT !.att = [d \in Devs |-> IF d \in D THEN @[d] \ {s} ELSE @[d]]]

\* The streams of the list that init_and_attach_streams attaches to d.
MayAttach(l, d, s) ==
    /\ Dir[s] = Dir[d]
    /\ IF d \in Fallbacks \/ ~Pinned(s) THEN d \in l.enabled
       ELSE PinnedTo[s] \in Group[d]
    /\ s \in Attachable[d]

\* The positions of those streams in the list.
Attaching(l, list, d) == {i \in DOMAIN list : MayAttach(l, d, list[i])}

\* The stream at which thread_add_streams stops on device d, as the set of it,
\* and the streams appended before it.
Refused(l, list, d, f) ==
    {list[i] : i \in {j \in Attaching(l, list, d) :
        /\ Refuses(l, d, list[j], f)
        /\ \A k \in Attaching(l, list, d) : k < j => ~Refuses(l, d, list[k], f)}}

Appended(l, list, d, f) ==
    {list[i] : i \in {j \in Attaching(l, list, d) :
        \A k \in Attaching(l, list, d) : k <= j => ~Refuses(l, d, list[k], f)}}

\* init_and_attach_streams for each device of D in group order.  A stream that
\* one device refuses is taken off every device that got it before.
attach_batches(l, list, D, f) ==
    LET live == D \cap l.thr
        refusedAfter(d) == UNION {Refused(l, list, e, f) :
                                    e \in {x \in live : d \in D => Pos[x] >= Pos[d]}}
    IN [l EXCEPT !.att = [d \in Devs |->
           (IF d \in live THEN @[d] \cup Appended(l, list, d, f) ELSE @[d])
              \ refusedAfter(d)]]

HasStreams(l, list, D) == {d \in D : Attaching(l, list, d) # {}}

\* The list is in descending order of channels: the first stream that may attach
\* has the most.
Formats(l, list, D) == [d \in D |-> Channels[list[FirstOf(Attaching(l, list, d))]]]

\* Mutant: devices are opened although the system is suspended.
MutAttachWhileSuspended(l, list, D, f) ==
    LET want == HasStreams(l, list, D)
        fmt == Formats(l, list, want)
    IN attach_batches(init_devices(l, want, fmt, f), list, want \ init_failed(l, want, f), f)

init_and_attach_streams(l, list, D, f) ==
    LET want == HasStreams(l, list, D)
        fmt == Formats(l, list, want)
    IN IF l.suspended THEN l
       ELSE attach_batches(init_devices(l, want, fmt, f), list,
                           want \ init_failed(l, want, f), f)

\* The devices of D for which init_and_attach_streams returns an error.
attach_failed(l, list, D, f) ==
    IF l.suspended THEN {} ELSE init_failed(l, HasStreams(l, list, D), f)

(***************************************************************************)
(* Enabling and disabling devices.                                         *)
(***************************************************************************)
enable_devices(l, list, D, f) ==
    LET new == D \ l.enabled
        l1 == [l EXCEPT !.enabled = @ \cup new]
    IN schedule_init_device_retry(init_and_attach_streams(l1, list, new, f),
                                  attach_failed(l1, list, new, f))

\* enable_device(_group) returns 0.
enable_succeeds(l, list, D, f) ==
    /\ D \cap l.enabled = {}
    /\ attach_failed([l EXCEPT !.enabled = @ \cup D], list, D, f) = {}

\* Mutant: a device kept for its pinned streams keeps the normal ones too.
MutDisableKeepsNormal(l, list, D, force) ==
    LET keep == IF force THEN {} ELSE {d \in D : l.pins[d] > 0}
        l2 == close_devs([l EXCEPT !.enabled = @ \ D], D \ keep)
    IN [l2 EXCEPT !.nodeOn = @ \ (D \ keep)]

\* disable_device for each device of D.  Without `force` a device with pinned
\* streams stays open and only loses the normal streams of the list.
disable_devices(l, list, D, force) ==
    LET keep == IF force THEN {} ELSE {d \in D : l.pins[d] > 0}
        normal == {s \in Range(list) : ~Pinned(s)}
        l1 == [l EXCEPT !.enabled = @ \ D,
                        !.retry = IF force THEN @ \ D ELSE @,
                        !.att = [d \in Devs |-> IF d \in keep THEN @[d] \ normal ELSE @[d]]]
        l2 == close_devs(l1, D \ keep)
    IN [l2 EXCEPT !.nodeOn =
            @ \ UNION {Group[d] : d \in {x \in D \ keep : Group[x] \cap l2.open = {}}}]

possibly_disable_fallback(l, list, dir) ==
    disable_devices(l, list, {Fallback[dir]} \cap l.enabled, FALSE)

possibly_enable_fallback(l, list, dir, f) ==
    enable_devices(l, list, {Fallback[dir]} \ l.enabled, f)

EnabledIn(l, dir) == {d \in l.enabled : Dir[d] = dir}

\* Mutant: the fallback is not enabled for the last device.
MutDisableWithoutFallback(l, list, d, force, f) ==
    disable_devices(l, list, l.enabled \cap Group[d], force)

disable_device_group(l, list, d, force, f) ==
    LET l1 == IF EnabledIn(l, Dir[d]) \subseteq Group[d]
              THEN possibly_enable_fallback(l, list, Dir[d], f) ELSE l
    IN disable_devices(l1, list, l1.enabled \cap Group[d], force)

disable_and_close_dev_group(l, list, d, f) ==
    LET l1 == disable_device_group(l, list, d, TRUE, f)
        l2 == close_devs(l1, Group[d])
    IN IF Group[d] \cap l1.open # {} THEN SwitchNode(l2, d, FALSE) ELSE l2

\* Mutant: the streams are not attached again after a restart.
MutRestartWithoutStreams(l, list, D, f) ==
    close_devs(l, UNION {Group[d] : d \in D})

restart_device_groups(l, list, D, f) ==
    LET G == UNION {Group[d] : d \in D}
        l1 == [close_devs(l, G) EXCEPT !.nodeOn = @ \cup G]
    IN schedule_init_device_retry(init_and_attach_streams(l1, list, G, f),
                                  attach_failed(l1, list, G, f))

(***************************************************************************)
(* Callbacks of the stream list.  An operator that returns a C error code  *)
(* gives [ok |-> rc = 0, l |-> the state after the call].                  *)
(***************************************************************************)
\* The devices of its target group that a pinned stream runs on.
PinnedDevs(s) == {d \in Group[PinnedTo[s]] : s \in Attachable[d]}

\* Mutant: the node is not switched on.
MutPinnedWithoutNode(l, D, s, f) == init_devices(l, D, [d \in D |-> Channels[s]], f)

\* init_pinned_device for each device of D, members of one group.
init_pinned_devices(l, D, s, f) ==
    LET l1 == IF D \subseteq l.thr \/ \E d \in D : Group[d] \cap l.open # {}
              THEN l ELSE SwitchNode(l, PinnedTo[s], TRUE)
    IN init_devices(l1, D, [d \in D |-> Channels[s]], f)

pinned_stream_added(l, s, f) ==
    LET D == PinnedDevs(s)
        failed == init_failed(l, D, f)
        up == D \ failed
        l1 == schedule_init_device_retry(init_pinned_devices(l, D, s, f), failed)
        added == up # {} /\ ~append_fails(l1, s, up, f)
        counted == failed \cup (IF added THEN up ELSE {})
        l2 == [add_stream(l1, s, up, f) EXCEPT !.pins =
                 [d \in Devs |-> IF d \in counted THEN @[d] + 1 ELSE @[d]]]
    IN IF PinnedTo[s] \notin l.devs THEN [ok |-> FALSE, l |-> l]
       ELSE [ok |-> counted # {}, l |-> l2]

normal_stream_added(l, list, s, f) ==
    LET fb == Fallback[Dir[s]]
        \* Catch the stream with the fallback device if that is enabled.
        l0 == IF fb \in l.enabled
              THEN add_stream(init_devices(l, {fb}, [d \in {fb} |-> Channels[s]], f), s, {fb}, f)
              ELSE l
        want == {d \in EnabledIn(l, Dir[s]) \ {fb} : s \in Attachable[d]}
        reopen == {d \in want \cap l.open : l.chan[d] < Channels[s] /\ Channels[s] <= MaxChannels[d]}
        \* Devices that need more channels are restarted behind the fallback.
        l1 == IF reopen = {} THEN l0
              ELSE restart_device_groups(possibly_enable_fallback(l0, list, Dir[s], f),
                                         list, reopen, f)
        \* The others are opened; a retry is scheduled where that fails.
        others == want \ reopen
        failed == init_failed(l1, others, f)
        up == others \ failed
        l2 == schedule_init_device_retry(
                 init_devices(l1, others, [d \in others |-> Channels[s]], f), failed)
        l3 == add_stream(l2, s, up, f)
    IN IF append_fails(l2, s, up, f) THEN [ok |-> FALSE, l |-> l3]
       ELSE [ok |-> TRUE,
             l |-> IF up # {} \/ reopen # {}
                   THEN possibly_disable_fallback(l3, list, Dir[s])
                   ELSE possibly_enable_fallback(l3, list, Dir[s], f)]

stream_added_cb(l, list, s, f) ==
    IF l.suspended THEN [ok |-> TRUE, l |-> l]
    ELSE IF Pinned(s) THEN pinned_stream_added(l, s, f)
    ELSE normal_stream_added(l, list, s, f)

\* Mutant: the count is decremented without a check.
MutPinsUnchecked(l, s) ==
    LET D == PinnedDevs(s)
        l1 == [l EXCEPT !.pins = [d \in Devs |-> IF d \in D THEN @[d] - 1 ELSE @[d]]]
    IN IF PinnedTo[s] \notin l.devs THEN l
       ELSE close_devs(l1, {d \in D : d \notin l.enabled /\ l1.pins[d] <= 0})

\* Mutant: the count is tested before it is decremented.
MutPinsTestedEarly(l, s) ==
    LET D == PinnedDevs(s)
        l1 == [l EXCEPT !.pins = [d \in Devs |->
                 IF d \in D /\ @[d] > 0 THEN @[d] - 1 ELSE @[d]]]
    IN IF PinnedTo[s] \notin l.devs THEN l
       ELSE close_devs(l1, {d \in D : d \notin l.enabled /\ l.pins[d] = 0})

pinned_stream_removed(l, s) ==
    LET D == PinnedDevs(s)
        l1 == [l EXCEPT !.pins = [d \in Devs |->
                 IF d \in D /\ @[d] > 0 THEN @[d] - 1 ELSE @[d]]]
        unused == {d \in D : d \notin l1.enabled /\ l1.pins[d] = 0}
        l2 == close_devs(l1, unused)
    IN IF PinnedTo[s] \notin l.devs THEN l
       ELSE IF unused # {} /\ Group[PinnedTo[s]] \cap l2.open = {}
            THEN SwitchNode(l2, PinnedTo[s], FALSE) ELSE l2

\* The enabled devices that the last normal stream of its direction leaves.
Deserted(l, list, dir) ==
    IF \E s \in Range(list) : Dir[s] = dir /\ ~Pinned(s) THEN {}
    ELSE {d \in EnabledIn(l, dir) : l.pins[d] = 0}

\* Inputs are closed at once, outputs become idle and drain.
possibly_close_enabled_devs(l, list, dir) ==
    IF dir = "input" THEN close_devs(l, Deserted(l, list, dir))
    ELSE [l EXCEPT !.idle = @ \cup Deserted(l, list, dir)]

\* stream_removed_cb once the stream has drained.
stream_removed(l, list, s) ==
    LET l1 == disconnect_stream(l, s, Devs)
    IN possibly_close_enabled_devs(IF Pinned(s) THEN pinned_stream_removed(l1, s) ELSE l1,
                                   list, Dir[s])

\* thread_drain_stream returns a positive number of milliseconds.
Draining(l, s) == s \in unplayed /\ \E d \in l.thr : s \in l.att[d]

(***************************************************************************)
(* Actions of the main thread.                                             *)
(***************************************************************************)
Init ==
    /\ iodevs = [devs |-> InitialDevs, fresh |-> Devs \ (Fallbacks \cup InitialDevs),
                 enabled |-> Fallbacks, open |-> {}, thr |-> {},
                 att |-> [d \in Devs |-> {}], retry |-> {},
                 pins |-> [d \in Devs |-> 0], idle |-> {},
                 chan |-> [d \in Devs |-> 0],
                 node |-> [d \in Devs |-> CHOOSE n \in Nodes : TRUE],
                 nodeOn |-> {}, resetPending |-> {}, suspended |-> FALSE]
    /\ streams = <<>> /\ toDelete = <<>> /\ unplayed = {}
    /\ drainTimer = FALSE /\ idleTimer = FALSE
    /\ main = Idle /\ messages = <<>>

\* Where stream_list_add puts a stream: before the first one that has no more
\* channels.
InsertPos(list, s) ==
    FirstOf({i \in 1..(Len(list) + 1) :
                i = Len(list) + 1 \/ Channels[s] >= Channels[list[i]]})

stream_list_add(s, f) ==
    /\ main = Idle
    /\ s \notin Range(streams) \cup Range(toDelete)
    /\ LET list == InsertAt(streams, InsertPos(streams, s), s)
           added == stream_added_cb(iodevs, list, s, f)
       IN /\ iodevs' = added.l
          /\ streams' = IF added.ok THEN list ELSE streams
    /\ UNCHANGED <<toDelete, drainTimer, idleTimer, unplayed, main, messages>>

\* The i-th stream goes from the list to the streams to delete; its shm may
\* still hold frames if it is an output.
MoveToDelete(i) ==
    /\ streams' = RemoveAt(streams, i)
    /\ toDelete' = Append(toDelete, streams[i])
    /\ \/ unplayed' = unplayed
       \/ Dir[streams[i]] = "output" /\ unplayed' = unplayed \cup {streams[i]}
    /\ UNCHANGED <<iodevs, idleTimer, messages>>

stream_list_rm(s) ==
    /\ main = Idle /\ s \in Range(streams)
    /\ MoveToDelete(IndexOf(streams, s))
    /\ drainTimer' = FALSE
    /\ main' = Loop("delete", toDelete')

\* One iteration of the loop for the streams of client c; after the last one
\* delete_streams starts.
move_client_stream(c) ==
    LET mine == {i \in DOMAIN streams : Client[streams[i]] = c}
        last == Cardinality(mine) = 1
    IN /\ mine # {}
       /\ MoveToDelete(FirstOf(mine))
       /\ drainTimer' = IF last THEN FALSE ELSE drainTimer
       /\ main' = IF last THEN Loop("delete", toDelete')
                  ELSE [loop |-> "client", todo |-> <<>>, who |-> {c}]

\* delete_streams starts, from its timer or for a client without streams.
BeginDelete ==
    /\ drainTimer' = FALSE
    /\ main' = Loop("delete", toDelete)
    /\ UNCHANGED <<iodevs, streams, toDelete, idleTimer, unplayed, messages>>

stream_list_rm_all_client_streams(c) ==
    /\ main = Idle
    /\ \/ move_client_stream(c)
       \/ c \notin {Client[s] : s \in Range(streams)} /\ BeginDelete

rm_client_stream == main.loop = "client" /\ \E c \in main.who : move_client_stream(c)

\* Mutant: the drain timer is not armed again.
MutDeleteForgetsTimer ==
    LET s == Head(main.todo)
        rest == Tail(main.todo)
        keep == Draining(iodevs, s)
    IN /\ main.loop = "delete"
       /\ toDelete' = IF keep THEN toDelete ELSE RemoveAt(toDelete, IndexOf(toDelete, s))
       /\ unplayed' = IF keep THEN unplayed ELSE unplayed \ {s}
       /\ iodevs' = IF keep THEN iodevs ELSE stream_removed(iodevs, streams, s)
       /\ main' = Loop(main.loop, rest)
       /\ drainTimer' = FALSE
       /\ UNCHANGED <<streams, messages, idleTimer>>

\* One iteration of delete_streams: a stream that is still draining stays, the
\* others are taken off their devices and destroyed.
delete_streams ==
    LET s == Head(main.todo)
        rest == Tail(main.todo)
        keep == Draining(iodevs, s)
        left == IF keep THEN toDelete ELSE RemoveAt(toDelete, IndexOf(toDelete, s))
    IN /\ main.loop = "delete"
       /\ toDelete' = left
       /\ unplayed' = IF keep THEN unplayed ELSE unplayed \ {s}
       /\ iodevs' = IF keep THEN iodevs ELSE stream_removed(iodevs, streams, s)
       /\ idleTimer' = \/ idleTimer
                       \/ ~keep /\ Dir[s] = "output" /\ Deserted(iodevs', streams, "output") # {}
       /\ main' = Loop(main.loop, rest)
       /\ drainTimer' = (rest = <<>> /\ left # <<>>)
       /\ UNCHANGED <<streams, messages>>

\* The drain timer fires.
drain_timer == main = Idle /\ drainTimer /\ BeginDelete

stream_list_direct_rm(s) ==
    /\ main = Idle /\ s \in Range(streams) /\ Dir[s] = "input"
    /\ streams' = RemoveAt(streams, IndexOf(streams, s))
    /\ iodevs' = stream_removed(iodevs, streams', s)
    /\ UNCHANGED <<toDelete, drainTimer, idleTimer, unplayed, main, messages>>

\* Handlers below touch nothing but the router's own state.
OnlyRouter == UNCHANGED <<streams, toDelete, drainTimer, idleTimer, unplayed, main, messages>>

\* Select node n of device d, or no node when d is NoDev or no longer listed.
cras_iodev_list_select_node(dir, d, n, f) ==
    LET found == d \in iodevs.devs
        already == found /\ d \in iodevs.enabled /\ iodevs.node[d] = n
        l1 == IF already THEN iodevs ELSE possibly_enable_fallback(iodevs, streams, dir, f)
        l2 == disable_devices(l1, streams,
                 EnabledIn(l1, dir) \ (Fallbacks \cup IF found THEN Group[d] ELSE {}), FALSE)
        l3 == disable_and_close_dev_group(l2, streams, d, f)
        l4 == SwitchNode([l3 EXCEPT !.node[d] = n], d, TRUE)
        l5 == enable_devices(l4, streams, Group[d], f)
    IN /\ main = Idle
       /\ found => Dir[d] = dir
       /\ iodevs' = IF ~found \/ already THEN l2
                    ELSE IF enable_succeeds(l4, streams, Group[d], f)
                         THEN possibly_disable_fallback(l5, streams, dir) ELSE l5
       /\ OnlyRouter

cras_iodev_list_add_active_node(d, n, f) ==
    LET l1 == disable_and_close_dev_group(iodevs, streams, d, f)
        l2 == SwitchNode([l1 EXCEPT !.node[d] = n], d, TRUE)
        l3 == enable_devices(l2, streams, Group[d], f)
    IN /\ main = Idle /\ d \in iodevs.devs
       /\ ~(d \in iodevs.enabled /\ iodevs.node[d] = n)
       /\ iodevs' = IF enable_succeeds(l2, streams, Group[d], f)
                    THEN possibly_disable_fallback(l3, streams, Dir[d]) ELSE l3
       /\ OnlyRouter

cras_iodev_list_rm_active_node(d, f) ==
    /\ main = Idle /\ d \in iodevs.devs
    /\ iodevs' = disable_device_group(iodevs, streams, d, FALSE, f)
    /\ OnlyRouter

\* The devices of a card come and go together.  They get indices nothing refers
\* to yet, so that a device which was removed does not return.
cras_iodev_list_add(d) ==
    /\ main = Idle /\ d \in iodevs.fresh
    /\ iodevs' = [iodevs EXCEPT !.fresh = @ \ Group[d], !.devs = @ \cup Group[d]]
    /\ OnlyRouter

cras_iodev_list_rm(d, f) ==
    /\ main = Idle /\ d \in iodevs.devs
    /\ iodevs' = [disable_and_close_dev_group(iodevs, streams, d, f) EXCEPT !.devs = @ \ Group[d]]
    /\ OnlyRouter

suspend_devs ==
    LET pinned == {s \in Range(streams) : Pinned(s) /\ PinnedTo[s] \in iodevs.devs}
        normal == {s \in Range(streams) : ~Pinned(s)}
        l1 == [iodevs EXCEPT
                 !.suspended = TRUE,
                 !.att = [d \in Devs |-> (@[d] \ normal) \ {s \in pinned : PinnedTo[s] = d}]]
    IN /\ main = Idle
       /\ iodevs' = close_devs(l1, {PinnedTo[s] : s \in pinned} \cup iodevs.enabled)
       /\ OnlyRouter

\* resume_devs up to its loop over the streams.  The counts of pinned streams grow
\* with every resume, hence the bound.
resume_devs ==
    /\ main = Idle
    /\ \A d \in Devs : iodevs.pins[d] < MaxPins
    /\ iodevs' = [iodevs EXCEPT !.suspended = FALSE]
    /\ main' = Loop("resume", streams)
    /\ UNCHANGED <<streams, toDelete, drainTimer, idleTimer, unplayed, messages>>

\* One iteration of the loop; the result of stream_added_cb is ignored.
resume_stream(f) ==
    LET s == Head(main.todo)
        rest == Tail(main.todo)
    IN /\ main.loop = "resume"
       /\ iodevs' = stream_added_cb(iodevs, streams, s, f).l
       /\ main' = Loop(main.loop, rest)
       /\ UNCHANGED <<streams, toDelete, drainTimer, idleTimer, unplayed, messages>>

\* The retry timer of a device fires.
init_device_cb(d, f) ==
    LET l1 == [iodevs EXCEPT !.retry = @ \ {d}]
        l2 == init_and_attach_streams(l1, streams, {d}, f)
    IN /\ main = Idle /\ d \in iodevs.retry
       /\ iodevs' = IF d \notin l1.devs \/ d \in l1.open THEN l1
                    ELSE IF attach_failed(l1, streams, {d}, f) # {} THEN l2
                    ELSE possibly_disable_fallback(l2, streams, Dir[d])
       /\ OnlyRouter

\* The idle timer fires when the timeouts of the devices in `expired` are over.
idle_dev_check(expired) ==
    LET idle == iodevs.idle \cap EnabledIn(iodevs, "output")
    IN /\ main = Idle /\ idleTimer
       /\ expired \subseteq idle
       /\ iodevs' = close_devs(iodevs, expired)
       /\ idleTimer' = (idle # expired)
       /\ UNCHANGED <<streams, toDelete, drainTimer, unplayed, main, messages>>

cras_iodev_list_suspend_dev(l, d) ==
    IF d \notin l.devs THEN l ELSE SwitchNode(close_devs(l, {d}), d, FALSE)

cras_iodev_list_resume_dev(l, list, d, f) ==
    LET l1 == SwitchNode(l, d, TRUE)
        l2 == init_and_attach_streams(l1, list, {d}, f)
        failed == attach_failed(l1, list, {d}, f)
    IN IF d \notin l.devs THEN l
       ELSE IF failed # {} THEN schedule_init_device_retry(l2, failed)
       ELSE IF l2.pins[d] > 0 THEN l2
       ELSE possibly_disable_fallback(l2, list, Dir[d])

handle_device_message(f) ==
    LET m == Head(messages)
        l1 == cras_iodev_list_suspend_dev(iodevs, m.dev)
    IN /\ main = Idle /\ messages # <<>>
       /\ iodevs' = IF m.type = "RESET_DEVICE"
                    THEN cras_iodev_list_resume_dev(l1, streams, m.dev, f) ELSE l1
       /\ messages' = Tail(messages)
       /\ UNCHANGED <<streams, toDelete, drainTimer, idleTimer, unplayed, main>>

\* One iteration of cras_iodev_list_reset_for_noise_cancellation (or _sidetone):
\* an open device whose configuration is out of date is restarted.
reset_for_noise_cancellation(d, f) ==
    LET l1 == possibly_enable_fallback(iodevs, streams, Dir[d], f)
    IN /\ main = Idle /\ d \in RestartDevs \cap iodevs.devs \cap iodevs.open
       /\ iodevs' = possibly_disable_fallback(
                       restart_device_groups(l1, streams, {d}, f), streams, Dir[d])
       /\ OnlyRouter

\* cras_iodev_list_set_aec_ref: remove_then_reconnect_stream.
cras_iodev_list_set_aec_ref(s, f) ==
    LET l1 == disconnect_stream(iodevs, s, Devs)
        D == PinnedDevs(s)
        l2 == init_pinned_devices(l1, D, s, f)
    IN /\ main = Idle /\ s \in Range(streams) \cap ApmStreams
       /\ iodevs' = IF ~Pinned(s)
                    THEN add_stream(l1, s, EnabledIn(l1, Dir[s]) \cap l1.open, f)
                    ELSE IF PinnedTo[s] \notin l1.devs THEN l1
                    ELSE add_stream(l2, s, D \ init_failed(l1, D, f), f)
       /\ OnlyRouter

(***************************************************************************)
(* Actions of the audio thread.                                            *)
(***************************************************************************)
\* The device leaves the audio thread with its streams.
dev_io_rm_open_dev(l, d) == [l EXCEPT !.thr = @ \ {d}, !.att[d] = {}]

\* The pipe does not block: a message that does not fit is lost.
cras_main_message_send(type, d) ==
    messages' = IF Len(messages) < MaxMessages
                THEN Append(messages, [type |-> type, dev |-> d]) ELSE messages

\* A reset is requested once until the device is opened again; the rate limit
\* may drop the request.
cras_iodev_reset_request(l, d) ==
    \/ /\ d \notin l.resetPending
       /\ cras_main_message_send("RESET_DEVICE", d)
       /\ iodevs' = [l EXCEPT !.resetPending = @ \cup {d}]
    \/ iodevs' = l /\ UNCHANGED messages

\* An I/O error: a severe underrun asks for a reset, a broken device for its
\* closing, any other error for nothing; the audio thread drops the device.
handle_dev_err(d) ==
    LET l1 == dev_io_rm_open_dev(iodevs, d)
    IN /\ d \in ThreadFaults \cap iodevs.thr
       /\ \/ cras_iodev_reset_request(l1, d)
          \/ cras_main_message_send("ERROR_CLOSE", d) /\ iodevs' = l1
          \/ iodevs' = l1 /\ UNCHANGED messages
       /\ UNCHANGED <<streams, toDelete, drainTimer, idleTimer, unplayed, main>>

\* The audio thread plays the last frames of a stream that is being drained.
play_out(s) ==
    /\ Draining(iodevs, s)
    /\ unplayed' = unplayed \ {s}
    /\ UNCHANGED <<iodevs, streams, toDelete, drainTimer, idleTimer, main, messages>>

Next ==
    \/ \E s \in Streams, f \in Faults : stream_list_add(s, f)
    \/ \E s \in Streams : stream_list_rm(s)
    \/ \E c \in Range(Client) : stream_list_rm_all_client_streams(c)
    \/ rm_client_stream
    \/ \E s \in Streams : stream_list_direct_rm(s)
    \/ delete_streams
    \/ drain_timer
    \/ \E dir \in Directions, d \in (Devs \ Fallbacks) \cup {NoDev}, n \in Nodes, f \in Faults :
          cras_iodev_list_select_node(dir, d, n, f)
    \/ \E d \in Devs, n \in Nodes, f \in Faults : cras_iodev_list_add_active_node(d, n, f)
    \/ \E d \in Devs, f \in Faults : cras_iodev_list_rm_active_node(d, f)
    \/ \E d \in Devs : cras_iodev_list_add(d)
    \/ \E d \in Devs, f \in Faults : cras_iodev_list_rm(d, f)
    \/ suspend_devs
    \/ resume_devs
    \/ \E f \in Faults : resume_stream(f)
    \/ \E d \in Devs, f \in Faults : init_device_cb(d, f)
    \/ \E expired \in SUBSET iodevs.idle : idle_dev_check(expired)
    \/ \E f \in Faults : handle_device_message(f)
    \/ \E d \in Devs, f \in Faults : reset_for_noise_cancellation(d, f)
    \/ \E s \in Streams, f \in Faults : cras_iodev_list_set_aec_ref(s, f)
    \/ \E d \in Devs : handle_dev_err(d)
    \/ \E s \in Streams : play_out(s)

\* The main thread finishes a loop it is in (weak fairness) and serves expired
\* timers on every turn of its poll loop (strong fairness); the audio thread
\* keeps playing (weak fairness).  WF and SF are spelled out with the condition
\* that enables the action, which TLC evaluates much faster than ENABLED.
Fairness ==
    /\ <>[](main.loop = "client") => []<><<rm_client_stream>>_vars
    /\ <>[](main.loop = "delete") => []<><<delete_streams>>_vars
    /\ <>[](main.loop = "resume") => []<><<\E f \in Faults : resume_stream(f)>>_vars
    /\ []<>(main = Idle /\ drainTimer) => []<><<drain_timer>>_vars
    /\ \A s \in Streams : <>[]Draining(iodevs, s) => []<><<play_out(s)>>_vars

Spec == Init /\ [][Next]_vars
FairSpec == Spec /\ Fairness

\* Nothing fails: every device opens and takes every stream, and none is dropped
\* by the audio thread.
FaultFree == OpenFaults = {{}} /\ AppendFaults = {{}} /\ ThreadFaults = {}

\* Two handlers leave the router in disorder although nothing fails.  The restart
\* of a device that is open but not enabled (for a pinned stream, that is) ends
\* with possibly_disable_fallback, be the fallback the only enabled device or not.
\* Setting the echo reference of a pinned stream opens its device and attaches it,
\* be the system suspended or not.
RestartsUnused ==
    \E d \in Devs \ iodevs.enabled, f \in Faults : reset_for_noise_cancellation(d, f)

EchoesSuspended ==
    iodevs.suspended /\ \E s \in Streams, f \in Faults :
        Pinned(s) /\ cras_iodev_list_set_aec_ref(s, f)

\* The behaviours without these two.
CalmNext == Next /\ ~RestartsUnused /\ ~EchoesSuspended

CalmSpec == Init /\ [][CalmNext]_vars

(***************************************************************************)
(* Properties.                                                             *)
(***************************************************************************)
\* The types of the router's state.
RouterState ==
    [devs : SUBSET (Devs \ Fallbacks), fresh : SUBSET (Devs \ Fallbacks),
     enabled : SUBSET Devs, open : SUBSET Devs, thr : SUBSET Devs,
     att : [Devs -> SUBSET Streams], retry : SUBSET (Devs \ Fallbacks),
     pins : [Devs -> Nat], idle : SUBSET Devs, chan : [Devs -> Nat],
     node : [Devs -> Nodes], nodeOn : SUBSET Devs,
     resetPending : SUBSET Devs, suspended : BOOLEAN]

\* Every variable has its type; in particular num_pinned_streams never becomes
\* negative.
TypeOK ==
    /\ iodevs \in RouterState
    /\ streams \in Seq(Streams) /\ toDelete \in Seq(Streams)
    /\ drainTimer \in BOOLEAN /\ idleTimer \in BOOLEAN
    /\ unplayed \subseteq Streams
    /\ main \in [loop : {"none", "client", "delete", "resume"}, todo : Seq(Streams),
                 who : SUBSET Range(Client)]
    /\ messages \in Seq([type : {"RESET_DEVICE", "ERROR_CLOSE"}, dev : Devs])

\* The audio thread only works on devices that are open, and a stream is only
\* attached to a device the audio thread holds: close_dev makes the thread let
\* go before it closes the device.
ThreadHoldsOpenDevs ==
    /\ iodevs.thr \subseteq iodevs.open
    /\ \A d \in Devs \ iodevs.thr : iodevs.att[d] = {}

\* A stream that was destroyed is attached to no device: whichever way a stream
\* leaves (refused while it is added, drained, removed directly), the audio
\* thread has given up every reference to it.
NoDanglingStream ==
    \A d \in Devs : iodevs.att[d] \subseteq Range(streams) \cup Range(toDelete)

\* A listed stream is attached where the routing rules allow it: a normal stream
\* to enabled devices, a pinned one to its group or to the enabled fallback.
StreamsWhereTheyBelong ==
    \A d \in Devs : \A s \in iodevs.att[d] \cap Range(streams) :
        /\ Dir[s] = Dir[d]
        /\ \/ d \in iodevs.enabled /\ (~Pinned(s) \/ d \in Fallbacks)
           \/ Pinned(s) /\ PinnedTo[s] \in Group[d]

\* A retry is pending for closed devices only: init_device cancels the retries
\* of a device before it opens it.
RetriesOnlyWhenClosed == iodevs.retry \cap iodevs.open = {}

\* The idle timer never cuts off a normal stream: a device that gets a stream
\* leaves idle, and only devices that no normal stream plays to become idle.
\* (set_aec_ref also attaches a stream to devices it is not meant for.)
IdleDevsAreUnused ==
    \A d \in iodevs.idle : \A s \in iodevs.att[d] \cap Range(streams) :
        Pinned(s) \/ s \notin Attachable[d]

\* A device is open only while it is enabled or pinned streams are counted on
\* it: no handler forgets to close a device it takes out of use.
OpenDevsAreUsed ==
    \A d \in iodevs.open : d \in iodevs.enabled \/ iodevs.pins[d] > 0

\* The node of an open device is switched on: no handler opens a device whose
\* node was switched off when the device was last put out of use.
OpenDevsHaveNode == iodevs.open \ Fallbacks \subseteq iodevs.nodeOn

\* There is always something to play to or capture from: each direction has an
\* enabled device, the fallback if nothing else.
AlwaysADevice == \A dir \in Directions : EnabledIn(iodevs, dir) # {}

\* Between handlers, unless the system is suspended, every normal stream is
\* attached to a device: none of the device switches leaves a client blocked.
NormalStreamsServed ==
    main.loop # "resume" /\ ~iodevs.suspended =>
        \A s \in Range(streams) : Pinned(s) \/ \E d \in Devs : s \in iodevs.att[d]

\* stream_list_suspended means that the stream list is disconnected from the
\* audio thread: no listed stream is attached to a device.  The exception is a
\* pinned stream on another device of its group, since suspend_devs takes a pinned
\* stream off the device of its pinned_dev_idx only.
SuspendedIsDisconnected ==
    iodevs.suspended => \A d \in Devs : \A s \in iodevs.att[d] \cap Range(streams) :
        Pinned(s) /\ d \in Group[PinnedTo[s]] \ {PinnedTo[s]}

\* num_pinned_streams counts the pinned streams that target the device.
PinsAreStreams ==
    \A d \in Devs :
        iodevs.pins[d] <= Cardinality({s \in Range(streams) \cup Range(toDelete) :
                                          Pinned(s) /\ d \in PinnedDevs(s)})

\* A stream its client has removed is destroyed in the end, whatever happens to
\* the devices it drains on.
RemovedIsDestroyed ==
    \A s \in Streams : s \in Range(toDelete) ~> s \notin Range(toDelete)
=============================================================================
