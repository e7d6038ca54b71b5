-------------------------------- MODULE BtIo --------------------------------
(***************************************************************************)
(* Profile switching of a Bluetooth headset: src/cras/src/server/          *)
(* cras_bt_io.c, the profile-switch policy of cras_bt_policy.c and the     *)
(* Floss events of cras_fl_media_adapter.c that drive them.                *)
(*                                                                         *)
(* A headset offers A2DP (output only) and HFP (both directions).  Its     *)
(* bt_io_manager shows the router one wrapper iodev per direction; each    *)
(* wrapper passes calls on to the profile device its active node points    *)
(* at.  A switch is requested by setting is_profile_switching and posting  *)
(* a message to the main thread itself; handling the message closes both   *)
(* wrappers, points them at the new profile and opens them again, an A2DP  *)
(* output only after a delay.  All of this is one thread: a handler is one *)
(* action, and what matters is the order of handlers while a message or    *)
(* the timer is outstanding.                                               *)
(***************************************************************************)
EXTENDS Integers, FiniteSets

CONSTANTS
    PipeSize,     \* messages that fit into the main message pipe
    PipeMayFill,  \* whether messages of others may fill it
    Faults,       \* outcomes of opening a profile device beside success:
                  \* "error", and "again" (-EAGAIN, or a failing configure_dev)
    Singles       \* whether a profile may come or go without the other

ASSUME BtAssumption ==
    /\ PipeSize \in Nat \ {0}
    /\ PipeMayFill \in BOOLEAN
    /\ Singles \in BOOLEAN
    /\ Faults \subseteq {"error", "again"}

Out == "output"
In == "input"
Dirs == {Out, In}
A2DP == "a2dp"
HFP == "hfp"
None == "none"
Profiles == {A2DP, HFP}

\* The directions a profile has a device for.
DirsOf(p) == IF p = A2DP THEN {Out} ELSE Dirs

\* What opening the profile device of each direction returns in a handler.
Outcomes == [Dirs -> Faults \cup {"ok"}]

VARIABLES
    io,      \* the bt_io_manager with its wrappers, message and timer
    conn,    \* profiles of the headset known to fl_media (fm->a2dp, fm->hfp)
    calm     \* history: both profiles came and went together, the pipe never filled

vars == <<io, conn, calm>>

(***************************************************************************)
(* Fields of io: exists, the manager is alive; wrap, the directions with a *)
(* wrapper (bt_iodevs); nodes, the profile nodes of a wrapper; active, the *)
(* profile its active node points at; open, wrappers in a state other than *)
(* CLOSE; prof, profile devices opened and not closed; flag,               *)
(* active_btflag; switching, delayed and telephony, the flags of the       *)
(* manager; timer, its entry in profile_switch_policies; queue, its        *)
(* messages in the pipe; full, the pipe has no room; want, the directions  *)
(* in which the router has streams for the wrapper.                        *)
(***************************************************************************)
NoManager ==
    [exists |-> FALSE, wrap |-> {}, nodes |-> [d \in Dirs |-> {}],
     active |-> [d \in Dirs |-> None], open |-> {}, prof |-> {}, flag |-> None,
     switching |-> FALSE, delayed |-> FALSE, telephony |-> FALSE,
     timer |-> FALSE, queue |-> 0, full |-> FALSE, want |-> {}]

HasA2dp(m) == Out \in m.wrap /\ A2DP \in m.nodes[Out]

MutSendUnbounded(m) == [m EXCEPT !.switching = TRUE, !.queue = @ + 1]

\* The pipe is non-blocking and nobody looks at the result of sending.
cras_bt_policy_switch_profile(m) ==
    [m EXCEPT !.switching = TRUE,
              !.queue = IF @ < PipeSize /\ ~m.full THEN @ + 1 ELSE @]

can_switch_to_a2dp(m) ==
    ~m.telephony /\ ~(In \in m.wrap /\ In \in m.open) /\ HasA2dp(m)

possibly_switch_to_a2dp(m) ==
    IF HasA2dp(m)
    THEN cras_bt_policy_switch_profile([m EXCEPT !.flag = A2DP])
    ELSE m

switch_to_hfp(m) == cras_bt_policy_switch_profile([m EXCEPT !.flag = HFP])

MutUpdateWhileSwitching(m, d) ==
    IF m.active[d] # m.flag /\ m.flag \in m.nodes[d]
    THEN [m EXCEPT !.active[d] = m.flag]
    ELSE m

update_active_node(m, d) ==
    IF ~m.switching /\ m.active[d] # m.flag /\ m.flag \in m.nodes[d]
    THEN [m EXCEPT !.active[d] = m.flag]
    ELSE m

-----------------------------------------------------------------------------
\* Opening and closing a wrapper, as the router does.

MutOpenWhileSwitching(m, d, outcome) ==
    IF d = In /\ m.flag = A2DP THEN switch_to_hfp(m)
    ELSE IF m.active[d] # None /\ outcome[d] = "ok"
    THEN [m EXCEPT !.open = @ \cup {d}, !.prof = @ \cup {<<d, m.active[d]>>}]
    ELSE m

MutSwitchBackOnAgain(m, d, outcome) ==
    IF m.switching \/ (d = Out /\ m.flag = A2DP /\ m.delayed) THEN m
    ELSE IF d = In /\ m.flag = A2DP THEN switch_to_hfp(m)
    ELSE IF m.active[d] = None THEN m
    ELSE IF outcome[d] = "ok"
    THEN [m EXCEPT !.open = @ \cup {d}, !.prof = @ \cup {<<d, m.active[d]>>}]
    ELSE IF d = In THEN possibly_switch_to_a2dp(m)
    ELSE m

\* open_dev and what cras_iodev_open does with its result.
open_dev(m, d, outcome) ==
    IF \/ m.switching
       \/ d = Out /\ m.flag = A2DP /\ m.delayed
    THEN m
    ELSE IF d = In /\ m.flag = A2DP
    THEN switch_to_hfp(m)
    ELSE IF m.active[d] = None
    THEN m                        \* configure_dev fails, close_dev does nothing
    ELSE IF outcome[d] = "ok"
    THEN [m EXCEPT !.open = @ \cup {d}, !.prof = @ \cup {<<d, m.active[d]>>}]
    ELSE IF outcome[d] = "error" /\ d = In
    THEN possibly_switch_to_a2dp(m)
    ELSE m

\* close_dev under cras_iodev_close, which marks the wrapper closed even
\* when close_dev failed because the active node points nowhere.
close_dev(m, d) ==
    LET leaves == /\ ~m.telephony
                  /\ m.flag = HFP
                  /\ d = In
                  /\ ~m.switching
        switched == IF leaves THEN possibly_switch_to_a2dp(m) ELSE m
    IN  IF d \notin m.open THEN m
        ELSE IF m.active[d] = None THEN [m EXCEPT !.open = @ \ {d}]
        ELSE [switched EXCEPT !.open = @ \ {d}, !.prof = @ \ {<<d, m.active[d]>>}]

cras_iodev_list_suspend_dev(m, d) ==
    IF d \in m.wrap THEN update_active_node(close_dev(m, d), d) ELSE m

\* init_and_attach_streams opens the device when it has streams.
cras_iodev_list_resume_dev(m, d, outcome) ==
    LET n == update_active_node(m, d)
    IN  IF d \in m.want \ m.open THEN open_dev(n, d, outcome) ELSE n

-----------------------------------------------------------------------------
\* The messages and the timer of the policy.

switch_profile_with_delay(m) == [m EXCEPT !.timer = TRUE, !.delayed = TRUE]

MutSwitchWithoutToggle(m, outcome) ==
    LET n == cras_iodev_list_suspend_dev(cras_iodev_list_suspend_dev(m, Out), In)
    IN  IF n.flag # HFP /\ Out \in m.wrap THEN switch_profile_with_delay(n) ELSE n

\* The output comes first in both loops.
switch_profile(m, outcome) ==
    LET suspended == cras_iodev_list_suspend_dev(cras_iodev_list_suspend_dev(m, Out), In)
        toggled   == [suspended EXCEPT !.switching = FALSE]
        output    == IF Out \notin m.wrap THEN toggled
                     ELSE LET n == update_active_node(toggled, Out)
                          IN  IF n.flag = HFP
                              THEN cras_iodev_list_resume_dev(n, Out, outcome)
                              ELSE switch_profile_with_delay(n)
    IN  IF In \notin m.wrap THEN output
        ELSE cras_iodev_list_resume_dev(update_active_node(output, In), In, outcome)

\* A message of a manager that is gone is dropped.
MessageHandled(outcome) ==
    LET m == [io EXCEPT !.queue = @ - 1]
    IN  IF m.exists THEN switch_profile(m, outcome) ELSE m

process_bt_policy_msg ==
    /\ io.queue > 0
    /\ \E outcome \in Outcomes : io' = MessageHandled(outcome)
    /\ UNCHANGED <<conn, calm>>

profile_switch_delay_cb ==
    /\ io.timer
    /\ LET m == [io EXCEPT !.timer = FALSE, !.delayed = FALSE]
       IN  \E outcome \in Outcomes :
              io' = IF Out \in m.wrap
                    THEN cras_iodev_list_resume_dev(update_active_node(m, Out), Out, outcome)
                    ELSE m
    /\ UNCHANGED <<conn, calm>>

-----------------------------------------------------------------------------
\* Profile devices come and go.

bt_io_create(m, d, p) ==
    [m EXCEPT !.nodes[d] = {p},
              !.active[d] = p,
              !.flag = IF @ = None \/ (p = A2DP /\ can_switch_to_a2dp(m)) THEN p ELSE @,
              !.wrap = @ \cup {d}]

bt_io_append(m, d, p) ==
    LET n == [m EXCEPT !.nodes[d] = @ \cup {p}]
    IN  IF p = A2DP /\ can_switch_to_a2dp(n) THEN possibly_switch_to_a2dp(n) ELSE n

bt_io_manager_append_iodev(m, d, p) ==
    IF d \notin m.wrap THEN bt_io_create(m, d, p)
    ELSE IF p \in m.nodes[d] THEN m
    ELSE bt_io_append(m, d, p)

MutRemoveKeepsActive(m, d, p) == update_active_node([m EXCEPT !.nodes[d] = @ \ {p}], d)

bt_io_remove(m, d, p) ==
    update_active_node(
        [m EXCEPT !.nodes[d] = @ \ {p},
                  !.active[d] = IF @ = p THEN None ELSE @], d)

\* The router closes the wrapper before it forgets it.
bt_io_destroy(m, d) ==
    LET n == close_dev([m EXCEPT !.wrap = @ \ {d}], d)
    IN  [n EXCEPT !.nodes[d] = {},
                  !.active[d] = None,
                  !.want = @ \ {d},
                  !.flag = IF n.wrap = {} THEN None ELSE @]

bt_io_manager_remove_iodev(m, d, p) ==
    LET others == m.nodes[d] \ {p}
        new_flag == IF m.active[d] # p THEN m.active[d]
                    ELSE IF others = {} THEN None
                    ELSE CHOOSE q \in others : TRUE
        moved == IF new_flag # m.active[d]
                 THEN cras_bt_policy_switch_profile([m EXCEPT !.flag = new_flag])
                 ELSE m
        removed == bt_io_remove(moved, d, p)
    IN  IF d \notin m.wrap THEN m
        ELSE IF new_flag = None THEN bt_io_destroy(m, d)
        ELSE IF removed.active[d] = None THEN bt_io_destroy(removed, d)
        ELSE removed

\* The profile device is destroyed after it was removed from the manager;
\* that closes it if the wrapper did not.
Destroyed(m, p) == [m EXCEPT !.prof = {x \in @ : x[2] # p}]

floss_media_a2dp_suspend(m) ==
    Destroyed(bt_io_manager_remove_iodev(m, Out, A2DP), A2DP)

floss_media_hfp_suspend(m) ==
    Destroyed(bt_io_manager_remove_iodev(
                  bt_io_manager_remove_iodev(m, In, HFP), Out, HFP), HFP)

bt_io_manager_set_telephony_use(m, use) ==
    LET n == [m EXCEPT !.telephony = use]
    IN  IF n.flag # A2DP /\ can_switch_to_a2dp(n) THEN possibly_switch_to_a2dp(n)
        ELSE IF n.flag # HFP /\ ~can_switch_to_a2dp(n) THEN switch_to_hfp(n)
        ELSE n

-----------------------------------------------------------------------------
\* Events of the Bluetooth stack.

\* A new manager may get the address of one whose messages are in the pipe.
bt_io_manager_create(m) ==
    {[NoManager EXCEPT !.exists = TRUE, !.queue = q, !.full = m.full] : q \in {0, m.queue}}

\* Profiles in avail replace older ones, one after the other; of those, made are
\* created (cras_floss_a2dp_create and cras_floss_hfp_create may return NULL).
handle_on_bluetooth_device_added(avail, made) ==
    /\ Singles \/ conn = {}
    /\ \E m \in IF io.exists THEN {io} ELSE bt_io_manager_create(io) :
           LET old == IF A2DP \in avail \cap conn THEN floss_media_a2dp_suspend(m) ELSE m
               a2dp == IF A2DP \in made THEN bt_io_manager_append_iodev(old, Out, A2DP)
                       ELSE old
               older == IF HFP \in avail \cap conn THEN floss_media_hfp_suspend(a2dp)
                        ELSE a2dp
               hfp == IF HFP \in made
                      THEN bt_io_manager_append_iodev(
                               bt_io_manager_append_iodev(older, In, HFP), Out, HFP)
                      ELSE older
           IN  /\ io' = bt_io_manager_set_telephony_use(hfp, FALSE)  \* nobody sets fm->telephony_use
               /\ conn' = (conn \ avail) \cup made
    /\ calm' = (calm /\ conn = {})

cras_bt_policy_remove_io_manager(m) == [m EXCEPT !.timer = FALSE]

\* Its messages stay in the pipe.
bt_io_manager_destroy(m) == [NoManager EXCEPT !.queue = m.queue, !.full = m.full]

\* Both profiles go: on the event, or because Bluetooth stops, in which case
\* the manager goes too and the policy's timer is cancelled.
Suspended(m) ==
    LET n == IF A2DP \in conn THEN floss_media_a2dp_suspend(m) ELSE m
    IN  IF HFP \in conn THEN floss_media_hfp_suspend(n) ELSE n

handle_on_bluetooth_device_removed ==
    /\ io.exists
    /\ io' = Suspended(io)
    /\ conn' = {}
    /\ UNCHANGED calm

fl_media_destroy ==
    /\ io.exists
    /\ io' = bt_io_manager_destroy(cras_bt_policy_remove_io_manager(Suspended(io)))
    /\ conn' = {}
    /\ UNCHANGED calm

\* A2DP alone is given up after transmit errors.
a2dp_suspend_cb ==
    /\ Singles
    /\ A2DP \in conn
    /\ io' = floss_media_a2dp_suspend(io)
    /\ conn' = conn \ {A2DP}
    /\ calm' = FALSE

handle_on_hfp_telephony_event(use) ==
    /\ io.exists
    /\ io' = bt_io_manager_set_telephony_use(io, use)
    /\ UNCHANGED <<conn, calm>>

\* The headset closed the SCO link while it was in use
\* (cras_floss_hfp_handle_audio_disconnection): reconnect.
handle_on_hfp_audio_disconnected ==
    /\ \E d \in Dirs : <<d, HFP>> \in io.prof
    /\ io' = cras_bt_policy_switch_profile(io)
    /\ UNCHANGED <<conn, calm>>

-----------------------------------------------------------------------------
\* The router: it opens a wrapper for streams or to retry, closes it, and
\* switches the node of a closed wrapper when it is selected or disabled.

RouterOpens(d) ==
    /\ d \in io.wrap \ io.open
    /\ \E outcome \in Outcomes :
          io' = open_dev([io EXCEPT !.want = @ \cup {d}], d, outcome)
    /\ UNCHANGED <<conn, calm>>

RouterCloses(d) ==
    /\ d \in io.open
    /\ io' = close_dev(io, d)
    /\ UNCHANGED <<conn, calm>>

\* The last stream for the wrapper goes; an output is closed some time later.
StreamsLeave(d) ==
    /\ d \in io.want
    /\ io' = [io EXCEPT !.want = @ \ {d}]
    /\ UNCHANGED <<conn, calm>>

RouterSelects(d) ==
    /\ d \in io.wrap \ io.open
    /\ io' = update_active_node(io, d)
    /\ UNCHANGED <<conn, calm>>

\* Messages of other senders fill the pipe, or are read.
OthersFill ==
    /\ PipeMayFill
    /\ io' = [io EXCEPT !.full = ~@]
    /\ calm' = FALSE
    /\ UNCHANGED conn

-----------------------------------------------------------------------------
Init == io = NoManager /\ conn = {} /\ calm = TRUE

Next ==
    \/ process_bt_policy_msg
    \/ profile_switch_delay_cb
    \/ \E avail \in SUBSET Profiles \ {{}} : \E made \in SUBSET avail :
          handle_on_bluetooth_device_added(avail, made)
    \/ handle_on_bluetooth_device_removed
    \/ fl_media_destroy
    \/ a2dp_suspend_cb
    \/ \E use \in BOOLEAN : handle_on_hfp_telephony_event(use)
    \/ handle_on_hfp_audio_disconnected
    \/ \E d \in Dirs : RouterOpens(d) \/ RouterCloses(d) \/ RouterSelects(d) \/ StreamsLeave(d)
    \/ OthersFill

Spec == Init /\ [][Next]_vars

\* The poll loop reads the pipe again and again, and calls expired timers:
\* WF_vars of both actions, with ENABLED written out.
FairSpec ==
    /\ Spec
    /\ <>[](io.queue > 0 /\ \E outcome \in Outcomes : MessageHandled(outcome) # io)
          => []<><<process_bt_policy_msg>>_vars
    /\ <>[](io.timer) => []<><<profile_switch_delay_cb>>_vars

-----------------------------------------------------------------------------
\* The types of the manager's fields; the pipe never holds more than it can.
TypeOK ==
    /\ io \in [exists : BOOLEAN, wrap : SUBSET Dirs, nodes : [Dirs -> SUBSET Profiles],
               active : [Dirs -> Profiles \cup {None}], open : SUBSET Dirs,
               prof : SUBSET (Dirs \X Profiles), flag : Profiles \cup {None},
               switching : BOOLEAN, delayed : BOOLEAN, telephony : BOOLEAN,
               timer : BOOLEAN, queue : 0..PipeSize, full : BOOLEAN,
               want : SUBSET Dirs]
    /\ conn \subseteq Profiles /\ calm \in BOOLEAN

\* A wrapper that is open drives the profile device it opened, and no profile
\* device is open without its wrapper: update_active_node never moves the
\* active node under an open wrapper, or close_dev would close the wrong one.
DrivesWhatItOpened ==
    /\ io.open \subseteq io.wrap
    /\ io.prof = {<<d, io.active[d]>> : d \in io.open}

\* The nodes of a wrapper point at profile devices that still exist, and the
\* active node of an existing wrapper points at one of them: a profile that
\* went away (bt_io_remove) is referenced by nobody.
NoDanglingProfile ==
    /\ \A d \in Dirs : io.nodes[d] \subseteq conn
    /\ \A d \in io.wrap : io.active[d] \in io.nodes[d]

\* A2DP and HFP are never open at the same time: open_dev refuses while a
\* switch is under way, and the switch closes both wrappers first.  Where a
\* profile comes or goes alone, or a message is lost, they can be.
OneProfile == calm => ~\E d \in Dirs : {<<d, HFP>>, <<Out, A2DP>>} \subseteq io.prof

\* While is_profile_switching keeps the wrappers from being opened, a message
\* that ends the switch is on its way, unless one was lost in a full pipe.
RequestPending == calm /\ io.switching => io.exists /\ io.queue > 0

\* The headset, the user and the router's other work are quiet from some
\* point on, and opening a profile device may at most be put off.
EventsStop ==
    <>[][\/ \E outcome \in [Dirs -> {"ok", "again"}] : io' = MessageHandled(outcome)
         \/ profile_switch_delay_cb]_vars

\* Once events stop, is_profile_switching does not stay set: what was
\* requested is carried out.
RequestsServed == EventsStop /\ []calm => []<>~io.switching

\* Carrying out one switch asks for at most one other (by opening an input that
\* needs HFP): suspending the wrappers asks for none, so the requests that are
\* outstanding do not multiply.
RequestsDoNotMultiply == [][process_bt_policy_msg => io'.queue <= io.queue]_vars

=============================================================================
