# Formal models of CRAS, the ChromeOS audio server

This directory holds TLA+ models of the audio server in `src/cras/`, the TLC
configurations that check them on small instances, and proofs that TLAPS checks
for every value of the constants.  `PROJECT.json` lists the components, the
runs, the source lines every definition stands for, the hazards and the
findings in machine-readable form.

## 1. The system

CRAS is one server process with two threads that matter here.

* The **main thread** runs a poll loop: client sockets, D-Bus, udev, timers and
  the *main message pipe*.  It owns the list of devices, the list of streams,
  the enabled devices of each direction and the volume and mute state.
* The **audio thread** runs at real-time priority.  It owns the list of *open
  devices* it services and the `dev_stream`s attached to each, and moves samples
  between the clients' shared memory and the devices.

The main thread talks to the audio thread with synchronous requests (it waits
for the answer); the audio thread talks back with asynchronous messages in a
non-blocking pipe.  Clients exchange samples with the audio thread through
shared memory and small socket messages.

### Inventory

| component | state | operations | interacts with | hard because |
|---|---|---|---|---|
| iodev_list (`cras_iodev_list.c`) | devices, enabled devices per direction, fallback devices, pending open retries, idle timer, suspended flag, per-device pin counts | stream added/removed callbacks, select/add/remove active node, add/remove device, suspend/resume system and device, retry and idle timers, restart, echo-reference reconnect | stream_list (callbacks), audio thread (requests), iodevs (open, close, node), device_monitor (messages) | every handler may run between any two others, opens fail, and the audio thread drops devices meanwhile |
| stream_list (`stream_list.c`) | ordered list of streams, streams being drained, drain timer | add, remove, remove all of a client, direct remove, drain | iodev_list callbacks | a removed stream lives on while it drains |
| device_monitor, main message pipe | queue of messages | reset, mute, error-close | audio thread to main thread | late and lost messages |
| audio_thread, dev_io | open devices, attached streams, wake-up times | add/remove device, add/disconnect/drain stream, fetch, mix, capture, send, handle errors | iodevs, rstreams, shm | an error in one device must not disturb others |
| buffer_share (`buffer_share.c`) | array of (id, used, offset) slots | add/remove id, move an offset, move the write point | each iodev has one over its streams, each rstream one over its devices | search without the `used` flag, unsigned wrap, uninitialized half after growth |
| rstream, dev_stream | attached devices, read/write position | attach, detach, update pointers | buffer_share, audio shm | several devices move one stream |
| audio shm (`cras_shm.h`) | double buffer with read and write offsets in memory both sides write | written, write_complete, read, overrun check | client and audio thread | no lock, the server must not trust the client's values |
| iodev (`cras_iodev.c`), ramp | run state of a device, format, ramp state | open, close, output/no-stream/normal-run transitions, ramps, mute | audio thread | ramp callbacks fire after the state changed |
| system_state | exported state in shared memory, volume, mute, suspended | setters, update begin/complete | all readers | clients read while the server writes |
| alert, observer | pending alerts with data, callbacks | pend, process, add/remove callback | everything on the main thread | callbacks that add or remove callbacks |
| server_stream, hotword | server-created streams and their delayed destruction | create, destroy | iodev_list | destruction by alert, twice |
| Bluetooth profile switch (`cras_bt_io.c`, `cras_bt_policy.c`, `cras_fl_media_adapter.c`) | per headset a manager with one wrapper device per direction, the profile devices behind them, the flags of a switch, its message and its delay timer | profiles appear and vanish, wrappers opened and closed, switch requested and carried out, calls begin and end, SCO link lost | the router opens and closes the wrappers; the policy calls suspend_dev and resume_dev | requests, messages and the timer overlap with devices coming and going |
| BlueZ policy timers (`cras_bt_policy.c`) | suspend and connection-watch timers of a device | schedule and cancel suspend, watch connection | cras_bt_device | timers that outlive the device |
| cras_server, rclients, D-Bus control | listening sockets, connected clients with their ids | create sockets, accept, decode and dispatch, remove a client | stream_list, iodev_list, system_state, libcras | the server crashes and is started again; ids of the past |
| libcras client (`cras_client.c`, `cras_file_wait.c`) | state of the connection, streams, mapped server state; a control thread and one audio thread per stream | connect, re-connect, add and remove streams, read the exported state, answer audio requests | server sockets, shared memory, the socket file | file events, hang-ups, timeouts and commands in any order, and a second thread that reads shared memory |
| stream_apm, echo reference | APM instances per stream and device | add, start, stop, remove, set reference | both threads | reference device goes away |
| ALSA, udev, UCM, loopback, floop, empty iodevs | driver handles | open, configure, jack events | iodev_list | |
| DSP, format conversion, mixing | sample data | process | audio thread | numeric |
| s2 and other Rust features, audio_processor, metrics | | | | |

### What makes each part correct

* *router* (iodev_list, stream_list, device_monitor): no stream is left without
  a device while one could serve it; a destroyed stream is referenced by nobody;
  thread, device and pin bookkeeping agree; nothing plays while suspended; every
  removed stream is destroyed in the end.
* *buffer_share*: the slots behave as a set of users with offsets.
* *Bluetooth profile switch*: an open wrapper drives the profile device it
  opened; nobody refers to a profile that is gone; A2DP and HFP are not open
  together; a requested switch is carried out, and does not beget switches.
* *client and server connection*: everything that says whether the client is
  connected agrees; no stream outlives its connection on either side; a client
  connects again after every restart of the server, and each of its streams is
  answered.
* *exported state* (system_state): a reader accepts only consistent snapshots, of
  memory that is mapped.
* *capture* (dev_io, rstream, shm): a half of the buffer is never overfilled; a
  client hears every frame in order until an overrun is counted; streams and
  devices do not wait for each other for ever.
* *playback* (dev_io, rstream, iodev, shm): every device plays a stream's frames
  in order and none beyond what the buffer holds; a stream that is removed, or
  whose client dies, is played to its end; streams and devices do not wait for each other for ever.
* *alerts* (planned): a pended alert reaches every registered callback.
* *ramps and mute* (planned): a device that plays is not left muted or ramped
  down.

## 2. Modules

| module | what it is |
|---|---|
| `SharedBuffer` | abstract specification of buffer_share: users with offsets |
| `BufferShare` | the slot array of `buffer_share.c`; property `ImplementsSharedBuffer` |
| `BufferShareProofs` | TLAPS proofs: types, the key invariant, refinement |
| `IodevList` | the router: `cras_iodev_list.c`, `stream_list.c`, `cras_device_monitor.c`, the main message pipe and what the router uses of `audio_thread.c`, `dev_io.c` and `cras_iodev.c` |
| `IodevListProofs` | TLAPS proofs about the router: what holds whatever fails |
| `RoutingProofs` | TLAPS proofs about the router when nothing fails; extends `IodevListProofs` |
| `ListProofs` | lemmas on lists, least numbers and loops written as recursive functions, for the proofs about several modules |
| `BtIo` | a Bluetooth headset: `cras_bt_io.c`, the profile-switch part of `cras_bt_policy.c` and the Floss events of `cras_fl_media_adapter.c` |
| `BtIoProofs` | TLAPS proofs about the headset |
| `Client` | a client and its connection: the control thread of `cras_client.c`, `cras_file_wait.c`, and on the other side `cras_server.c`, the stream requests of `cras_rclient_util.c` and the exported state of `cras_system_state.c` |
| `ClientProofs` | TLAPS proofs about the connection |
| `Capture` | the capture half of `dev_io.c`, `dev_stream.c`, `cras_rstream.c`, `input_data.c`, the double buffer of `cras_shm.h`, and the audio thread of a capture stream in `cras_client.c` |
| `CaptureProofs` | TLAPS proofs about the capture path |
| `Playback` | the playback half of the same files, the run states of an output device in `cras_iodev.c`, draining (`stream_list.c`, `audio_thread.c`), and the audio thread of a playback stream in `cras_client.c` |
| `PlaybackProofs` | TLAPS proofs about the playback path |
| `MCBufferShare`, `MCIodevList`, `MCBtIo`, `MCClient`, `MCCapture`, `MCPlayback` | instances for TLC |

A definition named `Mut...` is a variant of the definition after it with a
plausible bug; the mutants listed in `PROJECT.json` show that each property
notices such a bug.  They are used by nothing else.

### BufferShare

State: `id_sz` and the slots `wr_idx`, as in the C structure, and `ret`, what
the last call returned.  Each C function is an action.  Offsets wrap at
`Modulus` (2^32 in the code).  `alloc_more_ids` uses `realloc`, which leaves id
and offset of the new slots uninitialized: the model picks them arbitrarily.
`buffer_share_offset_update` compares ids without looking at `used`, so a
released slot with the same id in front of the user's own one would be updated
instead; `UsedIsFirst` is the invariant that excludes it, and it holds only
because `find_unused` returns the *first* unused slot.

`SharedBuffer` has no slots: users map to offsets.  The refinement mapping takes
the used slots to users (`UserOffsets`), and return values are visible in both.

### IodevList

The state the handlers thread through their calls is one record, `iodevs`;
an operator with the name of a C function maps the record before the call to
the record after it, so that a handler reads as the sequence of its calls.

| field / variable | code |
|---|---|
| `devs`, `fresh` | `devs[dir].iodevs`; devices that were never plugged yet |
| `enabled` | `enabled_devs[dir]` and `dev->is_enabled` |
| `open` | `dev->state != CLOSE` |
| `thr`, `att` | the audio thread's `open_devs` and the streams attached to each |
| `retry` | `init_retries` |
| `pins` | `num_pinned_streams` |
| `idle` | `idle_timeout.tv_sec != 0` |
| `chan` | channels of the format the device is open with |
| `node`, `nodeOn` | active node, and whether `update_active_node` last switched it on |
| `resetPending` | `reset_request_pending` |
| `suspended` | `stream_list_suspended` |
| `streams`, `toDelete`, `drainTimer` | `stream_list` |
| `idleTimer` | `idle_timer` |
| `unplayed` | draining streams whose shm still holds frames |
| `main` | the stream loop the main thread is inside |
| `messages` | the main message pipe |

*Granularity.*  A main-thread handler is one action.  Within a handler the
audio thread can only drop a device with an error, and the result is that of the
drop just before or just after the handler, because requests on a device that is
gone are ignored.  The loops that visit all streams (`resume_devs`,
`delete_streams` and `stream_list_rm_all_client_streams`) are one action per
iteration, with audio-thread steps between.
Restarts for noise cancellation are one action per restarted device.

*Loops over devices* are written with sets.  Only a refused append makes their
order matter (`dev_io_append_stream` takes a refused stream off every device, so
devices visited later keep it and earlier ones do not); `attach_batches` orders
them by `Pos`.

*Environment.*  During a handler any set of devices in `OpenFaults` fails to
open and any pair in `AppendFaults` fails to attach.  The fallback (empty)
device always opens.  A card's devices come and go together and a removed device
never returns (indices are never reused).  A device has at most one pending retry:
`init_device` cancels them before it opens, and only its failure schedules one, so
`init_retries` is a set.  The pipe holds `MaxMessages`; further
messages are lost, as with the non-blocking write.  `idle_dev_check` is given
the set of devices whose time is over; clocks are not modelled, so a timer may
fire at any time.  `possibly_close_enabled_devs` also calls it directly; the
devices that such a call would close could as well be closed by the armed timer
just before.  Suspend and resume have no guard since
`cras_system_set_suspended` passes on every request.

*Not in the model:* hotword suspension, flexible loopback, echo-reference server
streams, sidetone streams, the S2 flags, node attributes (volume, priority),
the exported device list, `NUM_OPEN_DEVS_MAX` and `NUM_STREAMS_ATTACHED_MAX`,
and allocation failures.

### BtIo

One record, `io`, is the `bt_io_manager` with what belongs to it; `conn` is the
set of profiles `fl_media` knows.  Again an operator with the name of a C
function maps the record before the call to the record after it.

| field | code |
|---|---|
| `exists` | the manager is in `bt_io_managers` |
| `wrap`, `nodes`, `active` | `bt_iodevs[dir]`, the nodes of the wrapper, and the profile its active node points at |
| `open` | directions whose wrapper is not in state CLOSE |
| `prof` | profile devices that were opened and not closed |
| `flag`, `switching`, `delayed`, `telephony` | `active_btflag`, `is_profile_switching`, `is_delayed_a2dp_switch_cb_alive`, `telephony_use` |
| `timer` | the manager's entry in `profile_switch_policies` |
| `queue`, `full` | its messages in the main message pipe; messages of others left no room |
| `want` | directions in which the router has streams for the wrapper |

Everything runs on the main thread, so a handler is an action, and the
interleavings are those of handlers while a message or the timer is outstanding.
The router of `IodevList` is reduced to what it may do to a wrapper:
`RouterOpens`, `RouterCloses`, `RouterSelects` (which switches the node of a
closed wrapper) and `StreamsLeave`.  Opening a profile device may end with any
outcome in `Faults`: `error`, or `again` (`-EAGAIN`, or a failing
`configure_dev`, which `cras_iodev_open` treats alike).  `Singles` says whether
a profile may come or go without the other.  When a headset is added, the manager
of any of its profiles may fail to be created.  The pipe holds `PipeSize` messages
of the manager, and with `PipeMayFill` none at times.  A manager may be
allocated at the address of a freed one that still has messages in the pipe;
these then count as its own.

`calm` is a history variable, true as long as the
two profiles have come and gone together and the pipe was never filled by
others.  `OneProfile`, `RequestPending` and `RequestsServed` are about calm
behaviours; the other invariants about all of them.

*Not in the model:* volume, plugged state, LE Audio, several managers at a time,
and the suspend and connection-watch timers of BlueZ devices.

### Client

Four parties interleave: the client's control thread, the application (commands
and reads of the exported state), the server's main thread, and the init system
that starts a crashed server again (`respawn` in `init/cras.conf`).

| variable | code |
|---|---|
| `srv` | the server process: down, socket bound, listening; its start number, the next client id, and how far an update of the exported state is |
| `file` | the socket file, and the client's unread file events |
| `conns` | connected sockets with the messages under way and the server's `cras_rclient` with its streams |
| `cl` | `struct cras_client` (the field list is in the module) |
| `rd` | the application thread inside `begin_server_state_read` ... `end_server_state_read` |
| `shm` | the exported state of each server: `update_count` and two fields that an update changes one after the other |

Each call of `server_fd_dispatch` with one set of events, each file event, each
message and each command of the application is an action; the call that
`server_fd_dispatch` makes of itself (`todo`) is an action of its own only where
the control thread returns to its poll loop in between.  The reader's load of the
count, its copies of the two fields and its second load are separate actions, and
so are the writer's increments and stores.  A crash may come at any point, also
inside an update; it closes the server's sockets and leaves the file and the
shared memory.  `Fails` makes a system call, a stream request (before or after
`stream_list_add`, where the stream stays on the server) or a send of the server to
an open client fail; what could not be sent is kept in `lost` for the properties.

*Not in the model:* the synchronous getters, other messages, the audio threads
(they are in `Capture` and `Playback`), and several clients at a time.

### Capture

A run of `dev_io_run` is split into one action per device for reading
(`Capture`) and one per device for sending; the client's thread takes a step at
every access the other side can tell apart, between any two of them.

| variable | code |
|---|---|
| `open`, `hw`, `list` | open devices, frames in their buffers, `dev->streams` |
| `devoff`, `off` | the two `buffer_share`s: of a device over its streams, of a stream over its devices |
| `shm` | the header of the double buffer: write and read offsets of the halves, `write_in_progress`, `write_buf_idx`, `read_buf_idx`, `num_overruns > 0` |
| `sock`, `client` | `DATA_READY` messages, the client's audio thread |
| `frames` | which frame numbers the halves hold (history for the properties) |
| `capped` | history: `dev_io_append_stream` capped the offset of a new stream |

`buffer_share` is used by what `SharedBuffer` says it does.  The level at which a
device asks for a drop depends on wall-clock time and is left open (`MayDrop`);
which devices can drop at all is in `drops`.  A read may end early, because the ring
has less than the limit or because the device gives nothing.

*Not in the model:* format conversion, APM, `TRIGGER_ONLY` streams, sidetone and
the replies of capture clients, which only move the wake-up time; and the early
return of `dev_io_send_captured_samples` when `set_input_dev_wake_ts` fails, that is
when `cras_iodev_frames_queued` fails there after it has succeeded in
`capture_to_streams` of the same run (the four properties also hold in TLC with that
step; the invariant of the proofs does not cover it).  A device that fails while it is
read is dropped between two runs.  Frames are
recorded, and callback times pass, between two runs: both are looked at once in a
run.  Frame numbers are kept modulo `FrameIds`, and followed until the first
overrun of a stream.  Each device is opened once.

### Playback

| variable | code |
|---|---|
| `open`, `state`, `hw` | open devices, their `CRAS_IODEV_STATE`, frames in their buffers |
| `on`, `run` | `dev->streams`, and those that `dev_stream_is_running` |
| `off`, `queued`, `shm` | `stream->buf_state`, `queued_frames`, the header of the double buffer |
| `due` | `next_cb_ts` has been reached |
| `live`, `drain` | the stream list; streams with `is_draining`, of which those not in `live` are `streams_to_delete` |
| `client`, `req`, `rep` | the client's audio thread, and the audio socket |
| `frames`, `hist` | history: which frames the halves hold, and what went wrong |

A run is: `dev_io_playback_fetch`; one `Write` per device; the update of the
read pointers.  The client's callback and its stores come between any two of
them, and so does its death (`ClientDies`), after which a request fails and the
stream drains; for the streams in `slow` the two stores of
`cras_shm_buffer_written_start` are separate.  A callback returns any number in
`answers`: less than it is asked for, zero, or an error, which is answered without a
store.  A device in `late` may fail to tell its delay or time: `fetch_streams` then
skips it, or sets the stream to drain and asks it all the same.  The room of a device may be split
in any way by the end of its ring buffer, as `mmap_begin` does.

*Not in the model:* format conversion (so all streams of a device have written
the same after each write, and `dev->buf_state` is zero between writes); devices with
an own `output_underrun` or `no_stream` operation.  A write error is modelled as the
loss of the device between two runs.  Devices play, and callback times pass, between
two runs.

## 3. Runs

| run | instance | states | shows |
|---|---|---|---|
| `buffer_share` | 3 ids, 2 initial slots, wrap at 3 | 111 k | types and wrap, `UsedIsFirst`, refinement |
| `routing_switch` | 2 outputs, 3 streams (mono, stereo, pinned), restarts and echo references, no faults (`CalmSpec`) | 0.5 M | streams always served, nodes on, fallback present, silence while suspended, idle devices unused, open devices used |
| `routing_faults` | 1 output, 2 streams (normal, pinned), open and append faults, thread errors, pipe of 1, fair | 0.3 M | thread/device/retry bookkeeping under faults, silence while suspended, no idle device with a normal stream; a removed stream is destroyed |
| `routing_group` | 2 grouped inputs, hot-plug, open and append faults, restarts, reconnects | 52 k | no destroyed stream stays attached |
| `bt_io` | profiles come and go, together or singly, opens and creations fail, pipe of 3 that may fill, fair | 7.1 k | wrappers and profile devices agree, no dangling profile; while calm one profile at a time, a pending switch has its message, requests are served |
| `client` | 2 starts of the server, 2 connections, 1 stream, 2 faults, fair | 391 k | connection, streams and mapping agree, snapshots consistent, the client reconnects, streams are answered |
| `capture` | a client on 1 device; 2 server streams, or one and a bulk stream, on 2, of which all or one can drop | 2.3 M | halves not overfilled, no silent loss, no mutual hold unless an offset was capped |
| `playback` | 1 stream on 2 devices with a slow client; 2 streams on 1; 2 on 2; clients that die, answer nothing, or end | 2.3 M | frames in order, no wrap, drained to the end, no mutual hold unless answers are short |
| four `violation` runs | small instances of the same modules | | see section 5 |

*Bounds.*  Two devices beside the fallback are what a switch needs (old, new,
and the fallback between them); faults square the state space, so that run has
one device and leaves switching between two to `routing_switch`.  Three streams give every list order of two
normal streams with different channel counts and a pinned one, which is what
re-opening for more channels and the pinned/normal roles tell apart.  Two slots
and three ids make the array grow and reuse slots.  `MaxPins` bounds resume,
which increments the pin count each time (section 5); at 2 a resume with a counted
pinned stream happens in every router run.  The router runs have one
node per device: with two the states multiply and no handler looks at more than
the active one (the proofs hold for any set).

Two starts of the server are one crash and one recovery, with everything the
first one left behind; two connections let one be closed while the next exists.
Two faults let a reply and the error message after it, or the first message of each
connection, be lost.

In `capture` and `playback` a callback has one to three frames, a device buffer
two or three and a stream up to four per half: callbacks and levels fit into each
other in all the ways that differ (less, equal, more than a half).  Two streams
on two devices are the least that can hold each other up.  The scenarios
(`Budgets`) limit how often devices are opened and streams added, and in
`playback` how often they leave; time is not bounded, so every scenario runs for
ever, but it ends where all devices are closed and no budget is left: hence
`CHECK_DEADLOCK FALSE` for these two modules, and nowhere else.

*Fairness* (`IodevList!FairSpec`, used by `routing_faults`).  The main thread finishes
the loop it is in; the poll loop calls expired timers on every turn, whatever
else it serves, hence strong fairness for the drain timer; an attached stream is
played by the audio thread, which wakes up on time as long as it holds the
device.  No fairness is assumed for clients, the user, faults, messages or the
idle timer.  The conditions are written out (`<>[]enabled => []<><<A>>_vars`)
because TLC evaluates them much faster than `ENABLED`.

*Fairness* (`BtIo!FairSpec`, used by `bt_io`).  Weak fairness of reading a
message and of the expired timer: the poll loop does both on every turn.  None
for the headset, the user or the router; `RequestsServed` is about what happens
once they are quiet (`EventsStop`).

*Fairness* (`Client!FairSpec`, used by `client` and `client_listen_race`).  Strong
fairness of the control thread's poll loop (`ServeDescriptors`): it serves what
is ready on every turn, and other parties may disable it again and again; weak
fairness of the server's loop over its clients, of the start of a crashed server
(`respawn`), and of the reading thread.  None for crashes, faults or the
application's commands.

*What the runs leave open.*  `OneProfile`, `RequestPending` and `RequestsServed`
are about behaviours in which the two profiles come and go together and every
message fits into the pipe (`calm`), and `RequestsServed` about those in which
opening an input does not fail for good; otherwise they are false.
`HeldOnlyIfCapped` and `HeldOnlyIfShort` say under which condition streams and
devices do not wait for each other for ever; without it they can
(`capture_hold`, and section 5).  That a drain ends is not checked: it needs every
other client of the device to answer, and the liveness check of `Playback` is
beyond TLC's reach at these bounds.  `NormalStreamsServed`, `AlwaysADevice` and
`OpenDevsHaveNode` are checked without faults: with them they are false, in the
ways section 5 describes, and because an `ERROR_CLOSE` message switches the node
of an enabled device off and a later `stream_added_cb` opens it again without
switching it on.  The same goes for `OpenDevsAreUsed` (a pinned stream that its
device refuses leaves the device open with nothing counted on it).
`IdleDevsAreUnused` is about normal streams: a device can go idle under a pinned one
(section 5), with faults also because re-opening the device for another stream
attaches a pinned stream that was refused before and is not counted.
`PinsAreStreams` is refuted (section 5).  That idle outputs are eventually closed is
not stated: each removal of a stream starts the timeouts anew.

Some properties state their exceptions: `ReaderKeepsMapping` a failed `mmap`;
`Reconnects` and `StreamsAreAnswered` a message the server could not send, a stuck
reader and, for the former, a connect between `bind` and `listen`; `PlaysInOrder` the
race of the two stores, and halves that have changed places after a callback that
returned no frames; `DrainedIsPlayed` frames beyond `buffer_frames`;
`SuspendedIsDisconnected` pinned streams on the devices of their group that
`suspend_devs` misses.  `CalmSpec` (run `routing_switch`) leaves out two handlers.
Section 5 describes what the code does in each of these cases.

## 4. Proofs

`BufferShareProofs` (SMT, Zenon and PTL only), from `ConstantsAssumption`
(`ZeroId` is an id, at least one initial slot, `BufSz + 1 < Modulus`):

* `TypeCorrect`: `Spec => []TypeOK`.
* `UsedIsFirstAlways`: `Spec => []UsedIsFirst`.  The inductive invariant is
  `TypeOK /\ UsedIsFirst`: adding takes the first unused slot, in front of which
  every slot is used, and a used slot with the id would have been found.
* `Refinement`: `Spec => ImplementsSharedBuffer`.  By `UsedIsFirst` each user has
  one slot, which both searches find; each action maps to the abstract one, a
  failing one included.

`IodevListProofs`, from `RouterAssumption` (directions, groups that share their
members, fallback devices in no group, and what faults may hit), for any number
of devices, groups, streams, clients, messages and faults:

* `TypeCorrect`: `Spec => []TypeOK`; in particular `num_pinned_streams` stays
  natural.
* `ThreadSafe`, `NoDangling`, `RoutedRight`, `RetriesRight`: the invariants
  `ThreadHoldsOpenDevs`, `NoDanglingStream`, `StreamsWhereTheyBelong` and
  `RetriesOnlyWhenClosed`.

None of these is inductive alone.  `Good(l, L, A)` joins them for a router state
`l`, the listed streams `L` and the streams `A` that still exist, and adds that
no pinned stream is counted on a fallback device (otherwise
`possibly_disable_fallback` would keep it open).  Every C function of the router
has a lemma saying that it preserves `Good`, so the proof has the shape of the
code: the lemma of a handler cites the lemmas of the functions it calls.  Refused
streams need more: `stream_list_add` takes a refused stream off the list, so the
lemmas about `stream_added_cb` also say that a refused stream is attached nowhere
it was not before.  `IInv` adds `InOneList` (a stream is in at most one of the two
lists, once) and `LoopsVisitListed` (what a loop has left to visit is still in
its list, and in the delete loop only once); without them the iteration of
`delete_streams` that destroys a stream could not be shown to find it.  The lists
need facts about `InsertAt`, `RemoveAt` and `Append`, proved position by
position, and that a non-empty set of positions has a first one (`ListProofs`,
from `WellFoundedInduction`).

`BtIoProofs`, from the assumption of `BtIo` on its constants (what `Faults`
may hold, and at least one message in the pipe), for any size of the pipe:

* `BtTypeCorrect`, `OpenWrapperDrivesItsProfile`, `ProfilesDoNotDangle`: the
  invariants `TypeOK`, `DrivesWhatItOpened` and `NoDanglingProfile`, in all
  behaviours.
* `NeverBothProfiles`, `SwitchIsPending`: `OneProfile` and `RequestPending`, in
  calm ones.

`Inv(io, conn, calm)` joins them; every C function has a lemma that says what
it preserves of it.  What is hard is that `update_active_node` may not meet an
open wrapper it would redirect.  It runs with a wrapper open only when the timer
of the delayed opening fires, so the invariant says what is open while the timer
is armed: the output at most, and for HFP only.  `OneProfile` needs that both
wrappers follow the flag: a manager that is settled with the flag HFP has its
output on HFP.  The same clause for A2DP is false (A2DP that comes back during a
call is not asked for), which TLC showed on the first attempt.  That the final
invariant is inductive was first checked with TLC on all the states that satisfy it
for a pipe of two messages.

`ClientProofs`, from `ClientAssumption`, for any number of connections, streams,
starts of the server and messages under way:

* `ClientTypeCorrect`, `ConnectionStateAgrees`, `MappingOutlivesReader`,
  `NoStreamSurvivesReconnect`, `ServerRunsNoOrphan`: `TypeOK`,
  `ConnectionAgrees`, `ReaderKeepsMapping`, `StreamsOfThisConnection` and
  `NoOrphanStream`, whatever fails.
* `AcceptedSnapshotIsConsistent`: the action property `SnapshotIsConsistent`.

The inductive invariant `IInv` has a part for each pair of parties that must
agree.  `ClientOK` relates the parts of `struct cras_client` at every step, also
between two calls of `server_fd_dispatch`, where `ConnectionAgrees` claims
nothing.  `Linked` says that the client's end of a connection is open exactly
when the client's descriptor is that connection, and `Served` that an open
server's end belongs to the running server.  `AllReported` is what
`NoOrphanStream` needs of the queue: a request, or a running stream, that the
client does not list is followed by a removal in the queue, and a request
without a client id is one that the server refuses.  `ShmOK` says that
`update_count` is odd exactly inside an update, and `ReadOK` that the even count a
reader holds is not above the count in memory, and that while they are equal the
fields copied so far are the current ones: hence the two fields of an accepted
copy are of the same update, also when the server died or was replaced meanwhile.

`CaptureProofs`, from `CaptureAssumption` (positive sizes, callbacks of at most
`buffer_frames`, an order of the streams, and frame numbers that are counted modulo
more than four callbacks), for any number of streams and devices, any routes, any
callback sizes and any size of the socket:

* `CaptureTypeCorrect`: `TypeOK`; in particular no stream has read more of a
  device than there is, also after the drop of frames, after the removal of the
  stream furthest behind and when a second round of the ring finds less than the
  limit.
* `HalfHoldsOneCallback`: `FitsOneCallback`.
* `NoFrameLostSilently`: `NoSilentLoss`.

The inductive invariant `IInv` has three parts.  `DevsOK` is about the lists: no
stream is twice on a device, only open devices have streams, and a stream that is
not on a device has no offset there.  `StreamOK` is about one stream, its double
buffer, its client and the messages between them; every step changes one stream's
part in one of a few ways, and each has its lemma.  In it `Fits` says that the
half being written, with what any device has written past it, fits one callback.
It counts a half that nobody has begun as empty, because a stream that joins a
device copies offsets before `cras_shm_check_write_overrun` has looked at the half.
`InStep` follows the client of a stream that was not overrun: at most one half is
posted, with at most one message for it, and the client is at the half whose first
frame it expects; frame numbers are compared modulo `FrameIds`.  `PassOK` says which
halves the current run has begun, so that the commit in `Send` never adds to frames
of an old half.

The loop of `init_and_attach_streams` is a recursive function.  `LoopExists` shows
that the function exists and `AttachedOK` what it computes, both by taking the
least number of rounds for which the claim fails (`NatHasLeast` of `ListProofs`),
since induction theorems cannot be used.  `dev_io_append_stream` visits the devices independently
of each other and is written without a loop.

`PlaybackProofs`, from `PlaybackAssumption` (positive callbacks of at most
`buffer_frames`, as `verify_rstream_parameters` has it, an order of the streams, and
frame numbers that are counted modulo more than two callbacks), for any number of
streams and devices, any routes, callback and buffer sizes, and clients that are
interrupted between their two stores, answer with less than they are asked for, with
nothing or with an error, or die:

* `PlaybackTypeCorrect`: `TypeOK`; in particular no device is filled beyond its
  size, and there is never a second request or reply on a socket.
* `OffsetsDoNotWrap`: `NoWrap`, the unsigned difference in
  `cras_rstream_playable_frames`.
* `PlayedInOrder`: `PlaysInOrder`, with its two exceptions.
* `DrainedToTheEnd`: `DrainedIsPlayed`: all that the buffer held, or `buffer_frames`
  where it held more.

The inductive invariant has a part for the devices, `DevsOK`, and one for each
stream, `StreamOK`.  In it `Shaped` says how the two halves of a buffer can be
filled and which one the next request will fill, also between the client's two
stores; `Protocol` that a request, an unfinished store or a reply is under way
exactly while the server waits for one, and that the half a request asks for is
empty: this is what keeps a client from making the buffer shorter under a device
that has read ahead.  `Numbered` says which frames the halves hold, counted from the
read pointer, unless the server has overtaken the client's stores or the halves have
changed places.  `TurnInv` is for the second exception: as long as every callback
returns frames or an error, client and server take the halves in turn.  `TailsQueued` is
for a stream that drains on several devices: `queued_frames`, counted when the run
wrote the first of them, is not less than what is left to play.  The loops
that take streams off all open devices are recursive functions; `LoopRuns` and `UpTo`
(`ListProofs`) replace the induction.

`RoutingProofs`, from `RouterAssumption` and `FaultFree` (every open and every append
succeeds and the audio thread drops no device), for any number of devices, groups,
streams and clients, for the behaviours of `CalmSpec`:

* `NodesAreOn`, `DeviceAlways`, `IdleNeverCutsOff`, `StreamsAreServed`,
  `SuspendDisconnects`: `OpenDevsHaveNode`, `AlwaysADevice`, `IdleDevsAreUnused`,
  `NormalStreamsServed` and `SuspendedIsDisconnected`.
* `NoDevLeftOpen`: `OpenDevsAreUsed`, if in addition no stream with an APM is pinned
  (`NoPinnedEcho`).

`CalmSpec` leaves out two steps that break these properties although nothing fails
(section 5): the restart of a device that is open but not enabled (`RestartsUnused`;
`AlwaysADevice` and `NormalStreamsServed` are false with it), and the echo reference of a
pinned stream that is set while the system is suspended (`EchoesSuspended`;
`SuspendedIsDisconnected` is false with it).  Restarts of enabled devices, and all other
echo references, are in it.

The invariant `Good` of `IodevListProofs` is about what is attached and says nothing
about what is missing.  `Calm` adds four parts.  `Steady`: no retry is pending, every
direction has an enabled device, groups are enabled as a whole, the nodes of what is
open or enabled are on, what is open and not enabled has pinned streams, and nothing
enabled is open while suspended.  `Served(l, V, X)`: every enabled device outside of
`X` plays the normal streams of `V` it is meant for.  A handler disables, closes and
opens devices one after the other; `X` holds those it has not filled yet, and the
lemma of each function says what it adds to or takes off `X`, until the handler ends
with none.  `V` is the whole list except in `resume_devs`, which connects one stream
per step (`Visited`).  `NormalStreamsServed` alone is not inductive: it asks for one
device only, and removing that one must find the stream on another.  `Unidle` is what
`Served` needs when `idle_dev_check` closes devices.  `Apart`: the device of a pinned
stream that is in use is still listed, so that `suspend_devs` finds it.  The final
invariant was checked with TLC on small instances before it was proved; the
counterexamples that came up on the way are the two handlers that `CalmSpec`
leaves out, the lost pin counts of section 5, and the groups that
`SuspendedIsDisconnected` excepts.

Left to TLC:

* liveness (`RemovedIsDestroyed`, `RequestsServed`, `Reconnects`,
  `StreamsAreAnswered`), which is out of the prover's reach;
* `IdleDevsAreUnused` and `SuspendedIsDisconnected` of `IodevList` with faults (run
  `routing_faults`): proved without;
* `HeldOnlyIfCapped` of `Capture` and `HeldOnlyIfShort` of `Playback`, which are about
  all the devices and streams together: no inductive strengthening of them is known
  yet.

## 5. Findings

Each of these has a run that TLC refutes and a quotation in `PROJECT.json`.

1. `pins_double_counted`: resuming counts pinned streams again; the device of a
   removed pinned stream is never closed.
2. `bt_endless_switch`: when two requests are queued, handling the first clears
   `is_profile_switching`, so that handling the second can close an open HFP
   input as if the user had, which asks for a switch to A2DP, while opening the
   input again asks for one back to HFP: one message in, two out.
3. `client_listen_race`: a client that hears of the new socket file between the
   server's `bind` and `listen` is refused, takes it for an old file, and waits
   for an event that does not come.
4. `capture_hold`: a capture stream that joins takes over the offsets of the
   first stream, so that two streams on two devices do not wait for each other;
   the offset is capped at the new stream's callback size, and then they do.

Met while modelling and proving, without a run of their own:

* setting the echo reference of a pinned stream opens its device without counting the
  stream, and even while the stream list is suspended (`cras_iodev_list.c:2631`);
* a pinned stream that is added while the system is suspended is not counted in
  `num_pinned_streams`, and its removal takes a count away all the same
  (`cras_iodev_list.c:1477`), that of a stream that still drains on the device, say;
  after the resume the device can go idle under a stream that is pinned to it,
  although `possibly_close_enabled_devs` says that it only closes a "device that doesn't
  have a stream pinned to it" (`cras_iodev_list.c:1410`);
* `suspend_devs` disconnects a pinned stream from the device it names only
  (`cras_iodev_list.c:764`), while `pinned_stream_added` attaches it to every device of
  the group that should take it.  In the groups of ALSA cards the two are the same
  device, since `should_attach_stream` puts all streams on the HiFi device, the only one
  clients see; with a stream on another one, that device stays open and plays during
  the suspend;
* a device that fails to re-open for more channels still counts as re-opened,
  and the fallback is taken away (`cras_iodev_list.c:1309`);
* an HFP input that cannot be opened makes the policy switch back and forth for
  as long as a stream wants it (`cras_bt_io.c:252`);
* a switch message lost in a full pipe leaves `is_profile_switching` set, which
  keeps the wrappers closed until the next request (`cras_bt_policy.c:370`);
* the retry of a device that is no longer enabled disables the fallback, the only
  enabled device (`cras_iodev_list.c:1014`); a late reset message
  (`cras_iodev_list.c:1909`) and the restart of an input that is open for a pinned
  stream only (`cras_iodev_list.c:2537`) end in the same state;
* when a profile vanishes, its wrapper is to fall back to the other one;
  `bt_io_manager_remove_iodev` sets `is_profile_switching` first, which keeps
  `bt_io_remove` from moving the active node, and the wrapper is destroyed;
* a server that dies inside an update leaves an odd `update_count`: a reader spins
  with the lock held, and the control thread waits for the lock (`ReaderStuck`,
  excepted in the liveness properties);
* after a failed `mmap` the client's `server_state` is `MAP_FAILED` until the disconnect
  that follows takes the lock (`cras_client.c:1845`); `server_state_rdlock`, which "Also
  checks that the server_state pointer is valid" (`cras_client.c:456`), compares with
  NULL and lets a reader in;
* the sends of the server do not block, and one that fails is not repeated: a lost
  first message (`cras_rclient_util.c:326`) leaves the client in FIRST_MESSAGE, and a
  lost reply whose error message is lost too (`cras_rclient_util.c:249`) leaves the
  client's stream waiting for as long as the connection stands;
* a stream request that fails after `stream_list_add` is answered with an error, and
  the stream stays on the server until the client removes it or goes
  (`cras_rclient_util.c:218` and `241`);
* `send_connect_message` returns a positive error, so that
  `cras_client_add_stream` returns 0 for a stream that was not added;
* when the socket file is deleted under a connected client, `server_disconnect`
  sets DISCONNECTED first and the application is not told;
* an error reply to the request of a stream that was removed meanwhile makes
  `handle_message_from_server` fail, and the whole connection is dropped;
* `cras_client_get_input_devices` tests `client` where the other getters test the
  result of the lock; `shutdown_and_close_socket` leaves descriptors open that
  cannot be shut down (a timer, an unconnected socket);
* a `BULK_AUDIO_OK` capture stream is limited by `buffer_frames` but takes one
  callback at a time, so that others read ahead of it, and its removal releases
  more frames of the device than the round has read;
* a capture client that reads part of a half gets nothing more until an overrun;
* nothing aligns the offsets of output devices: with callbacks that return less
  than they are asked for, two playback streams on two devices can wait for each
  other for ever (`NoMutualHold` of `Playback` without its condition);
* the two stores of `cras_shm_buffer_written_start` (`cras_shm.h:464`): frames the
  server reads in between are there again after the second, are played twice, and
  may push the last frame out of a drain (`frames.raced`);
* a callback that returns no frames passes an empty half to the server
  (`cras_client.c:1391`) and goes on to the next, while the server may still be at the
  empty one; when both are filled then, the newer one is played first (`frames.swapped`);
* `dev_io_playback_fetch` ignores the error of `fetch_streams` (`dev_io.c:1231`), so that a
  device that cannot tell its delay gets no samples and stays open;
* `verify_rstream_parameters` accepts a `cb_threshold` of up to `buffer_frames`
  (`cras_rstream.c:160`), while `update_queued_frames` counts at most `buffer_frames` in
  the two halves together: with a callback of more than half of that, a stream that
  drains on devices that are far apart can be removed before its end (a buffer of 3
  frames and callbacks of 2, say; `DrainedIsPlayed` promises `buffer_frames` only);
* a stream that drains on two devices is dropped when the faster one has played
  it, and an answer that comes after the removal may not be played;
* a playback client that never answers blocks all streams, and all drains, of its
  devices;
* `dev_io_append_stream` says "Do not reset next_cb_ts if the stream is already
  attached to other devices" (`dev_io.c:1689`), and passes a time of zero, which
  `dev_stream_create` stores: the stream is fetched at once.

## 6. Plan

Done: all the modules of section 2, with proofs of the invariants of `BufferShare`,
`BtIo` and `Client`, of those of `IodevList`, with faults or without, and of all but one
each of `Capture` and `Playback`.

Next, in this order:

1. `SuspendedIsDisconnected` and `IdleDevsAreUnused` with faults; an inductive
   invariant for `HeldOnlyIfCapped`, which must relate the offsets of all streams on all
   devices.
2. `IodevState`: ramps and mute of `cras_iodev.c` and `cras_ramp.c` with the
   callbacks to the main thread.
3. `Alert`: pending alerts, processing and callbacks that change the list;
   `ServerStream` and the hotword handlers on top of it.
4. The rest of `cras_bt_policy.c`: suspend and connection-watch timers of BlueZ
   devices, and several managers on one `profile_switch_policies` list.

## 7. Not modelled

* Driver access and configuration (ALSA, UCM, udev, jacks) and the Bluetooth
  stack (D-Bus, SCO and A2DP sockets): input and output with the outside, of
  which the models have the outcomes.
* Signal processing (DSP, format conversion, mixing, APM, `audio_processor`):
  functions of sample data and floating-point numbers.
* Feature decisions in Rust (`server/s2` and its neighbours): pure functions of
  flags.
* Metrics, logging, tests, command-line tools and the deprecated test client.

`PROJECT.json` gives the reason for each component.
