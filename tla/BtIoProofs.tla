----------------------------- MODULE BtIoProofs -----------------------------
(***************************************************************************)
(* Proofs about the profile switch of a Bluetooth headset, for every pipe  *)
(* size, every set of faults and every order of the stack's events.        *)
(*                                                                         *)
(* None of the invariants is inductive.  An open wrapper drives what it    *)
(* opened only if update_active_node never finds it open with the flag     *)
(* pointing at another of its nodes; that can happen to the output alone,  *)
(* when the delay timer fires, and is excluded by what Flags and Aligned   *)
(* say: while the delay runs the output is opened for HFP only, and a      *)
(* settled manager whose flag is HFP has its output on HFP.  With A2DP in  *)
(* the place of HFP the last clause is false: A2DP that comes back during  *)
(* a call is not asked for.                                                *)
(*                                                                         *)
(* Good collects what every C function keeps, and there is one lemma per   *)
(* function; Aligned and Complete hold between two handlers only.          *)
(***************************************************************************)
EXTENDS BtIo, TLAPS

\* The record of the manager, as in TypeOK.
Manager ==
    [exists : BOOLEAN, wrap : SUBSET Dirs, nodes : [Dirs -> SUBSET Profiles],
     active : [Dirs -> Profiles \cup {None}], open : SUBSET Dirs,
     prof : SUBSET (Dirs \X Profiles), flag : Profiles \cup {None},
     switching : BOOLEAN, delayed : BOOLEAN, telephony : BOOLEAN,
     timer : BOOLEAN, queue : 0..PipeSize, full : BOOLEAN, want : SUBSET Dirs]

\* DrivesWhatItOpened, but for the devices of the profiles P, which are being
\* destroyed: a wrapper that lost its active node leaves them to Destroyed.
Drives(m, P) ==
    /\ m.open \subseteq m.wrap
    /\ \A d \in Dirs, p \in Profiles \ P :
          <<d, p>> \in m.prof <=> d \in m.open /\ m.active[d] = p

\* The nodes of the wrappers, with C the connected profiles.
Nodes(m, C) ==
    /\ \A d \in Dirs : m.nodes[d] \subseteq C
    /\ \A d \in m.wrap : m.active[d] \in m.nodes[d]
    /\ \A d \in Dirs \ m.wrap : m.nodes[d] = {}
    /\ A2DP \notin m.nodes[In]

\* What the flag and the timer say of the wrappers that are open; a request
\* that is under way suspends both rules.
Flags(m) ==
    /\ m.flag = None => m.wrap = {}
    /\ m.timer => m.delayed
    /\ In \in m.open /\ ~m.switching => m.flag = HFP
    /\ m.timer /\ Out \in m.open /\ ~m.switching => m.flag # A2DP

\* What holds as long as the headset is calm: no message was lost, and an output
\* that is open beside the input is on HFP.
Quiet(m) ==
    /\ ~m.full
    /\ m.switching => m.queue > 0
    /\ Dirs \subseteq m.open => m.active[Out] = HFP

\* A good manager, in the middle of a handler too; c is calm.
Good(m, C, P, c) == m \in Manager /\ Drives(m, P) /\ Nodes(m, C) /\ Flags(m) /\ (c => Quiet(m))

\* What most functions leave alone.
Kept(n, m) ==
    /\ n.exists = m.exists /\ n.wrap = m.wrap /\ n.nodes = m.nodes
    /\ n.telephony = m.telephony

\* The fields that only the timer, the pipe and the router write.
Same(n, m) ==
    n.timer = m.timer /\ n.delayed = m.delayed /\ n.full = m.full /\ n.want = m.want

-----------------------------------------------------------------------------
\* What a request changes.
LEMMA RequestFields ==
    ASSUME NEW m \in Manager
    PROVE  LET n == cras_bt_policy_switch_profile(m)
           IN  /\ n \in Manager
               /\ Kept(n, m) /\ Same(n, m)
               /\ n.switching /\ n.flag = m.flag
               /\ n.open = m.open /\ n.active = m.active /\ n.prof = m.prof
               /\ ~m.full => n.queue > 0
    <1> DEFINE n == cras_bt_policy_switch_profile(m)
               q == IF m.queue < PipeSize /\ ~m.full THEN m.queue + 1 ELSE m.queue
    <1>1. q \in 0..PipeSize /\ (~m.full => q > 0)
        BY BtAssumption DEF Manager
    <1>2. n = [m EXCEPT !.switching = TRUE, !.queue = q]
        BY DEF cras_bt_policy_switch_profile, Manager
    <1> HIDE DEF q, n
    <1>3. /\ n \in Manager
          /\ Kept(n, m) /\ Same(n, m) /\ n.switching /\ n.flag = m.flag
          /\ n.open = m.open /\ n.active = m.active /\ n.prof = m.prof
          /\ n.queue = q
        BY <1>1, <1>2 DEF Manager, Kept, Same
    <1> QED
        BY <1>1, <1>3 DEF n

\* The same with a new active_btflag.
LEMMA FlagRequestFields ==
    ASSUME NEW m \in Manager, NEW f \in Profiles
    PROVE  LET n == cras_bt_policy_switch_profile([m EXCEPT !.flag = f])
           IN  /\ n \in Manager
               /\ Kept(n, m) /\ Same(n, m)
               /\ n.switching /\ n.flag = f
               /\ n.open = m.open /\ n.active = m.active /\ n.prof = m.prof
               /\ ~m.full => n.queue > 0
    <1> DEFINE k == [m EXCEPT !.flag = f]
    <1>1. /\ k \in Manager /\ Kept(k, m) /\ Same(k, m) /\ k.flag = f
          /\ k.open = m.open /\ k.active = m.active /\ k.prof = m.prof /\ k.full = m.full
        BY DEF Manager, Kept, Same
    <1> HIDE DEF k
    <1> QED
        BY <1>1, RequestFields DEF Kept, Same, k

\* A request keeps a good manager good, whatever profile it asks for.
LEMMA RequestGood ==
    ASSUME NEW m, NEW C, NEW P, NEW c, Good(m, C, P, c),
           NEW n \in Manager, Kept(n, m), Same(n, m), n.switching, n.flag \in Profiles,
           n.open = m.open, n.active = m.active, n.prof = m.prof, ~m.full => n.queue > 0
    PROVE  Good(n, C, P, c)
    <1>5. Drives(n, P) /\ Nodes(n, C)
        BY DEF Good, Drives, Nodes, Kept
    <1>6. Flags(n)
        BY DEF Good, Flags, Kept, Same, Profiles, None, A2DP, HFP
    <1>7. c => Quiet(n)
        BY DEF Good, Quiet, Same
    <1> QED
        BY <1>5, <1>6, <1>7 DEF Good

\* update_active_node keeps a good manager good, unless it finds the wrapper open
\* and the flag at another of its nodes.
LEMMA UpdateGood ==
    ASSUME NEW m, NEW C, NEW P, NEW c, Good(m, C, P, c), NEW d \in Dirs,
           d \in m.open => m.switching \/ m.active[d] = m.flag \/ m.flag \notin m.nodes[d]
    PROVE  LET n == update_active_node(m, d)
           IN  /\ Good(n, C, P, c)
               /\ Kept(n, m)
               /\ n.open = m.open /\ n.flag = m.flag /\ n.switching = m.switching
               /\ Same(n, m)
               /\ \A e \in Dirs \ {d} : n.active[e] = m.active[e]
               /\ ~m.switching /\ m.flag \in m.nodes[d] => n.active[d] = m.flag
    <1> DEFINE n == update_active_node(m, d)
               a == [m.active EXCEPT ![d] = m.flag]
    <1>1. m \in Manager
        BY DEF Good
    <1>2. CASE ~(~m.switching /\ m.active[d] # m.flag /\ m.flag \in m.nodes[d])
        <2>1. n = m
            BY <1>2 DEF update_active_node
        <2> QED
            BY <1>2, <2>1 DEF Kept, Same
    <1>3. CASE ~m.switching /\ m.active[d] # m.flag /\ m.flag \in m.nodes[d]
        <2>1. n = [m EXCEPT !.active = a]
            BY <1>1, <1>3 DEF update_active_node, Manager
        <2>2. a \in [Dirs -> Profiles \cup {None}] /\ a[d] = m.flag
              /\ \A e \in Dirs \ {d} : a[e] = m.active[e]
            BY <1>1 DEF Manager
        <2> HIDE DEF a, n
        <2>3. n \in Manager /\ Kept(n, m) /\ n.active = a
              /\ n.open = m.open /\ n.flag = m.flag /\ n.switching = m.switching
              /\ n.prof = m.prof /\ n.queue = m.queue /\ Same(n, m)
            BY <1>1, <2>1, <2>2 DEF Manager, Kept, Same
        <2>4. d \notin m.open
            BY <1>3
        <2>5. Drives(n, P)
            BY <2>2, <2>3, <2>4 DEF Good, Drives, Kept
        <2>6. Nodes(n, C)
            BY <1>1, <1>3, <2>2, <2>3 DEF Good, Nodes, Kept, Manager
        <2>7. Flags(n)
            BY <2>3 DEF Good, Flags, Kept, Same
        <2>8. c => Quiet(n)
            BY <2>2, <2>3, <2>4 DEF Good, Quiet, Same
        <2> QED
            BY <2>2, <2>3, <2>5, <2>6, <2>7, <2>8 DEF Good, n
    <1> QED
        BY <1>2, <1>3
\* A settled manager that is to use HFP has its output on HFP, if it can.
Aligned(m) ==
    ~m.switching /\ m.flag = HFP /\ HFP \in m.nodes[Out] => m.active[Out] = HFP

\* A calm headset that has an input can use HFP for its output too.
HasInput(m, c) == c /\ In \in m.wrap => HFP \in m.nodes[Out]

\* Opening a wrapper: it is opened on its active node, or a switch is asked for,
\* or nothing happens.
LEMMA OpenGood ==
    ASSUME NEW m, NEW C, NEW P, NEW c, Good(m, C, P, c), Aligned(m), HasInput(m, c),
           NEW d \in Dirs, d \in m.wrap, NEW outcome
    PROVE  LET n == open_dev(m, d, outcome)
           IN  /\ Good(n, C, P, c) /\ Aligned(n) /\ Kept(n, m) /\ Same(n, m)
               /\ n.open \subseteq m.open \cup {d}
    <1> DEFINE n == open_dev(m, d, outcome)
               k == [m EXCEPT !.open = @ \cup {d}, !.prof = @ \cup {<<d, m.active[d]>>}]
    <1>1. m \in Manager
        BY DEF Good
    <1>2. CASE n = m
        BY <1>2 DEF Kept, Same
    <1>3. CASE n = switch_to_hfp(m)
        <2>1. /\ n \in Manager /\ Kept(n, m) /\ Same(n, m)
              /\ n.switching /\ n.flag = HFP
              /\ n.open = m.open /\ n.active = m.active /\ n.prof = m.prof
              /\ ~m.full => n.queue > 0
            BY <1>1, <1>3, FlagRequestFields DEF switch_to_hfp, Profiles
        <2>2. Good(n, C, P, c) /\ Aligned(n)
            BY <2>1, RequestGood DEF Aligned, Profiles
        <2> QED
            BY <2>1, <2>2
    <1>4. CASE n = possibly_switch_to_a2dp(m) /\ n # m
        <2>1. /\ n \in Manager /\ Kept(n, m) /\ Same(n, m)
              /\ n.switching /\ n.flag = A2DP
              /\ n.open = m.open /\ n.active = m.active /\ n.prof = m.prof
              /\ ~m.full => n.queue > 0
            BY <1>1, <1>4, FlagRequestFields DEF possibly_switch_to_a2dp, Profiles
        <2>2. Good(n, C, P, c) /\ Aligned(n)
            BY <2>1, RequestGood DEF Aligned, Profiles
        <2> QED
            BY <2>1, <2>2
    <1>5. CASE /\ n = k /\ ~m.switching /\ m.active[d] # None
               /\ ~(d = Out /\ m.flag = A2DP /\ m.delayed)
               /\ ~(d = In /\ m.flag = A2DP)
        <2>1. m.active[d] \in Profiles
            BY <1>1, <1>5 DEF Manager
        <2>2. /\ n \in Manager /\ Kept(n, m) /\ Same(n, m)
              /\ n.switching = m.switching /\ n.flag = m.flag /\ n.queue = m.queue
              /\ n.open = m.open \cup {d} /\ n.prof = m.prof \cup {<<d, m.active[d]>>}
              /\ n.active = m.active
            <3> DEFINE o == m.open \cup {d}
                       r == m.prof \cup {<<d, m.active[d]>>}
            <3>1. o \in SUBSET Dirs /\ r \in SUBSET (Dirs \X Profiles)
                BY <1>1, <2>1 DEF Manager
            <3>2. n = [m EXCEPT !.open = o, !.prof = r]
                BY <1>1, <1>5
            <3> HIDE DEF n, o, r
            <3>3. /\ n \in Manager /\ Kept(n, m) /\ Same(n, m)
                  /\ n.switching = m.switching /\ n.flag = m.flag /\ n.queue = m.queue
                  /\ n.open = o /\ n.prof = r /\ n.active = m.active
                BY <1>1, <3>1, <3>2 DEF Manager, Kept, Same
            <3> QED
                BY <3>3 DEF o, r
        <2> HIDE DEF n, k
        <2>3. Drives(n, P)
            BY <2>2 DEF Good, Drives, Kept
        <2>4. Nodes(n, C) /\ Aligned(n)
            BY <2>2 DEF Good, Nodes, Kept, Aligned
        <2>5. m.flag \in Profiles
            BY <1>1 DEF Good, Flags, Manager
        <2>6. Flags(n)
            BY <1>5, <2>2, <2>5 DEF Good, Flags, Kept, Same, Profiles, A2DP, HFP, In, Out, Dirs
        <2>7. In \in n.open /\ ~n.switching => n.flag = HFP
            BY <2>6 DEF Flags
        <2>8. c => Quiet(n)
            BY <1>5, <2>2, <2>7 DEF Good, Quiet, Same, Aligned, HasInput, Drives, In, Out, Dirs
        <2> QED
            BY <2>2, <2>3, <2>4, <2>6, <2>8 DEF Good, n
    <1> QED
        BY <1>2, <1>3, <1>4, <1>5 DEF open_dev

\* What closing changes; closing the input may ask for A2DP.
LEMMA CloseFields ==
    ASSUME NEW m \in Manager, NEW d \in Dirs
    PROVE  LET n == close_dev(m, d)
           IN  /\ n \in Manager /\ Kept(n, m) /\ Same(n, m)
               /\ n.open = m.open \ {d} /\ n.active = m.active
               /\ n.prof = IF d \in m.open /\ m.active[d] # None
                           THEN m.prof \ {<<d, m.active[d]>>} ELSE m.prof
               /\ \/ n.flag = m.flag /\ n.switching = m.switching /\ n.queue = m.queue
                  \/ /\ n.flag = A2DP /\ n.switching /\ (~m.full => n.queue > 0)
                     /\ In \in m.open /\ HasA2dp(m)
    <1> DEFINE n == close_dev(m, d)
               s == possibly_switch_to_a2dp(m)
               off(k) == [k EXCEPT !.open = @ \ {d}]
               shut(k) == [k EXCEPT !.open = @ \ {d}, !.prof = @ \ {<<d, m.active[d]>>}]
    <1>1. \A k \in Manager :
             /\ off(k) \in Manager /\ Kept(off(k), k) /\ Same(off(k), k)
             /\ off(k).open = k.open \ {d} /\ off(k).active = k.active
             /\ off(k).prof = k.prof
             /\ off(k).flag = k.flag /\ off(k).switching = k.switching
             /\ off(k).queue = k.queue
        BY DEF Manager, Kept, Same
    <1>2. \A k \in Manager :
             /\ shut(k) \in Manager /\ Kept(shut(k), k) /\ Same(shut(k), k)
             /\ shut(k).open = k.open \ {d} /\ shut(k).active = k.active
             /\ shut(k).prof = k.prof \ {<<d, m.active[d]>>}
             /\ shut(k).flag = k.flag /\ shut(k).switching = k.switching
             /\ shut(k).queue = k.queue
        BY DEF Manager, Kept, Same
    <1>3. HasA2dp(m) =>
             /\ s \in Manager /\ Kept(s, m) /\ Same(s, m)
             /\ s.switching /\ s.flag = A2DP
             /\ s.open = m.open /\ s.active = m.active /\ s.prof = m.prof
             /\ ~m.full => s.queue > 0
        BY FlagRequestFields DEF possibly_switch_to_a2dp, Profiles
    <1>4. ~HasA2dp(m) => s = m
        BY DEF possibly_switch_to_a2dp
    <1> HIDE DEF s, off, shut
    <1>5. \/ d \notin m.open /\ n = m
          \/ d \in m.open /\ m.active[d] = None /\ n = off(m)
          \/ d \in m.open /\ m.active[d] # None /\ n = shut(m)
          \/ d \in m.open /\ m.active[d] # None /\ n = shut(s) /\ d = In
        BY DEF close_dev, off, shut, s
    <1> HIDE DEF n
    <1>6. CASE d \notin m.open /\ n = m
        BY <1>6 DEF Kept, Same, n
    <1>7. CASE d \in m.open /\ m.active[d] = None /\ n = off(m)
        BY <1>1, <1>7 DEF n
    <1>8. CASE d \in m.open /\ m.active[d] # None /\ n = shut(m)
        BY <1>2, <1>8 DEF n
    <1>9. CASE d \in m.open /\ m.active[d] # None /\ n = shut(s) /\ d = In
        <2>1. CASE HasA2dp(m)
            BY <1>2, <1>3, <1>9, <2>1 DEF n, Kept, Same
        <2>2. CASE ~HasA2dp(m)
            BY <1>2, <1>4, <1>9, <2>2 DEF n
        <2> QED
            BY <2>1, <2>2
    <1> QED
        BY <1>5, <1>6, <1>7, <1>8, <1>9

\* Closing a wrapper keeps a good manager good.
LEMMA CloseGood ==
    ASSUME NEW m, NEW C, NEW P, NEW c, Good(m, C, P, c), NEW d \in Dirs
    PROVE  LET n == close_dev(m, d)
           IN  /\ Good(n, C, P, c) /\ Kept(n, m) /\ Same(n, m)
               /\ n.open = m.open \ {d} /\ n.active = m.active
               /\ n.switching \/ (n.flag = m.flag /\ ~m.switching)
    <1> DEFINE n == close_dev(m, d)
    <1>1. m \in Manager
        BY DEF Good
    <1>2. /\ n \in Manager /\ Kept(n, m) /\ Same(n, m)
          /\ n.open = m.open \ {d} /\ n.active = m.active
          /\ n.prof = IF d \in m.open /\ m.active[d] # None
                      THEN m.prof \ {<<d, m.active[d]>>} ELSE m.prof
          /\ \/ n.flag = m.flag /\ n.switching = m.switching /\ n.queue = m.queue
             \/ n.flag = A2DP /\ n.switching /\ (~m.full => n.queue > 0)
        BY <1>1, CloseFields
    <1> HIDE DEF n
    <1>3. Drives(n, P)
        BY <1>1, <1>2 DEF Good, Drives, Kept, Manager, Profiles, None, A2DP, HFP
    <1>4. Nodes(n, C)
        BY <1>2 DEF Good, Nodes, Kept
    <1>5. Flags(n)
        BY <1>2 DEF Good, Flags, Kept, Same, A2DP, None
    <1>6. c => Quiet(n)
        BY <1>2 DEF Good, Quiet, Same
    <1> QED
        BY <1>1, <1>2, <1>3, <1>4, <1>5, <1>6 DEF Good, n, Manager
-----------------------------------------------------------------------------
\* Suspending a wrapper closes it before its node is moved.
LEMMA SuspendGood ==
    ASSUME NEW m, NEW C, NEW P, NEW c, Good(m, C, P, c), NEW d \in Dirs
    PROVE  LET n == cras_iodev_list_suspend_dev(m, d)
           IN  Good(n, C, P, c) /\ Kept(n, m) /\ Same(n, m) /\ n.open = m.open \ {d}
    <1>1. CASE d \notin m.wrap
        BY <1>1 DEF cras_iodev_list_suspend_dev, Kept, Same, Good, Drives
    <1>2. CASE d \in m.wrap
        <2> DEFINE k == close_dev(m, d)
                   n == update_active_node(k, d)
        <2>1. Good(k, C, P, c) /\ Kept(k, m) /\ Same(k, m) /\ k.open = m.open \ {d}
            BY CloseGood
        <2> HIDE DEF k
        <2>2. Good(n, C, P, c) /\ Kept(n, k) /\ Same(n, k) /\ n.open = k.open
            BY <2>1, UpdateGood
        <2>3. cras_iodev_list_suspend_dev(m, d) = n
            BY <1>2 DEF cras_iodev_list_suspend_dev, k
        <2> HIDE DEF n
        <2> QED
            BY <2>1, <2>2, <2>3 DEF Kept, Same
    <1> QED
        BY <1>1, <1>2

\* Moving the output's node aligns it; moving the input's does not matter.
LEMMA UpdateAligned ==
    ASSUME NEW m, NEW C, NEW P, NEW c, Good(m, C, P, c), NEW d \in Dirs,
           d \in m.open => m.switching \/ m.active[d] = m.flag \/ m.flag \notin m.nodes[d],
           d = Out \/ Aligned(m)
    PROVE  Aligned(update_active_node(m, d))
    <1> DEFINE n == update_active_node(m, d)
    <1>1. /\ Kept(n, m) /\ n.flag = m.flag /\ n.switching = m.switching
          /\ \A e \in Dirs \ {d} : n.active[e] = m.active[e]
          /\ ~m.switching /\ m.flag \in m.nodes[d] => n.active[d] = m.flag
        BY UpdateGood
    <1> HIDE DEF n
    <1>2. Aligned(n)
        BY <1>1 DEF Aligned, Kept, Dirs, Out, In
    <1> QED
        BY <1>2 DEF n

\* Resuming a wrapper moves its node and then opens it.
LEMMA ResumeGood ==
    ASSUME NEW m, NEW C, NEW P, NEW c, Good(m, C, P, c), HasInput(m, c),
           NEW d \in Dirs, d \in m.wrap, NEW outcome,
           d \in m.open => m.switching \/ m.active[d] = m.flag \/ m.flag \notin m.nodes[d],
           d = Out \/ Aligned(m)
    PROVE  LET n == cras_iodev_list_resume_dev(m, d, outcome)
           IN  /\ Good(n, C, P, c) /\ Aligned(n) /\ Kept(n, m) /\ Same(n, m)
               /\ n.open \subseteq m.open \cup {d}
    <1> DEFINE k == update_active_node(m, d)
               n == cras_iodev_list_resume_dev(m, d, outcome)
    <1>1. /\ Good(k, C, P, c) /\ Kept(k, m) /\ Same(k, m) /\ k.open = m.open
          /\ Aligned(k)
        BY UpdateGood, UpdateAligned
    <1>2. n = k \/ n = open_dev(k, d, outcome)
        BY DEF cras_iodev_list_resume_dev
    <1> HIDE DEF k, n
    <1>3. HasInput(k, c) /\ d \in k.wrap
        BY <1>1 DEF HasInput, Kept
    <1>4. CASE n = k
        BY <1>1, <1>4 DEF n
    <1>5. CASE n = open_dev(k, d, outcome)
        <2>1. /\ Good(n, C, P, c) /\ Aligned(n) /\ Kept(n, k) /\ Same(n, k)
              /\ n.open \subseteq k.open \cup {d}
            BY <1>1, <1>3, <1>5, OpenGood
        <2> QED
            BY <1>1, <2>1 DEF n, Kept, Same
    <1> QED
        BY <1>2, <1>4, <1>5

\* Handling a message.  The message is out of the pipe, so that nothing is known
\* of queue until is_profile_switching is cleared.
LEMMA SwitchGood ==
    ASSUME NEW m, NEW C, NEW c, Good(m, C, {}, FALSE), HasInput(m, c), c => ~m.full,
           NEW outcome
    PROVE  LET n == switch_profile(m, outcome)
           IN  Good(n, C, {}, c) /\ Aligned(n) /\ Kept(n, m)
    <1> DEFINE s1 == cras_iodev_list_suspend_dev(m, Out)
               s == cras_iodev_list_suspend_dev(s1, In)
               t == [s EXCEPT !.switching = FALSE]
               u == update_active_node(t, Out)
               o == IF Out \notin m.wrap THEN t
                    ELSE IF u.flag = HFP
                         THEN cras_iodev_list_resume_dev(u, Out, outcome)
                         ELSE switch_profile_with_delay(u)
               i == update_active_node(o, In)
               n == switch_profile(m, outcome)
    <1>0. Out \in Dirs /\ In \in Dirs /\ Dirs = {Out, In} /\ Out # In
        BY DEF Dirs, Out, In
    <1>1. /\ Good(s1, C, {}, FALSE) /\ Kept(s1, m) /\ Same(s1, m) /\ s1.open = m.open \ {Out}
        BY <1>0, SuspendGood
    <1>2. n = IF In \notin m.wrap THEN o ELSE cras_iodev_list_resume_dev(i, In, outcome)
        BY DEF switch_profile
    <1> HIDE DEF s1, n
    <1>3. /\ Good(s, C, {}, FALSE) /\ Kept(s, m) /\ Same(s, m) /\ s.open = {}
        <2>1. /\ Good(s, C, {}, FALSE) /\ Kept(s, s1) /\ Same(s, s1) /\ s.open = s1.open \ {In}
            BY <1>0, <1>1, SuspendGood
        <2>2. m.open \subseteq Dirs
            BY DEF Good, Manager
        <2> QED
            BY <1>0, <1>1, <2>1, <2>2 DEF Kept, Same
    <1> HIDE DEF s
    <1>4. /\ Good(t, C, {}, c) /\ Kept(t, m) /\ Same(t, m) /\ t.open = {}
        <2>1. s \in Manager
            BY <1>3 DEF Good
        <2>2. /\ t \in Manager /\ Kept(t, m) /\ Same(t, m) /\ t.open = {} /\ ~t.switching
              /\ t.active = s.active /\ t.prof = s.prof /\ t.flag = s.flag
              /\ Kept(t, s) /\ Same(t, s)
            BY <1>3, <2>1 DEF Manager, Kept, Same
        <2> HIDE DEF t
        <2>3. Drives(t, {}) /\ Nodes(t, C) /\ Flags(t)
            BY <1>3, <2>2 DEF Good, Drives, Nodes, Flags, Kept, Same
        <2>4. c => Quiet(t)
            BY <1>0, <2>2 DEF Quiet, Same
        <2> QED
            BY <2>2, <2>3, <2>4 DEF Good
    <1> HIDE DEF t
    <1>5. Good(u, C, {}, c) /\ Kept(u, m) /\ Same(u, m) /\ u.open = {} /\ Aligned(u)
        <2>1. Good(u, C, {}, c) /\ Kept(u, t) /\ Same(u, t) /\ u.open = t.open /\ Aligned(u)
            BY <1>0, <1>4, UpdateGood, UpdateAligned
        <2> QED
            BY <1>4, <2>1 DEF Kept, Same
    <1> HIDE DEF u
    <1>6. Good(o, C, {}, c) /\ Kept(o, m) /\ o.open \subseteq {Out} /\ Aligned(o)
        <2>1. CASE Out \notin m.wrap
            <3>1. o = t
                BY <2>1
            <3>2. t.nodes[Out] = {}
                BY <1>0, <1>4, <2>1 DEF Good, Nodes, Kept
            <3> QED
                BY <1>4, <3>1, <3>2 DEF Aligned
        <2>2. CASE Out \in m.wrap /\ u.flag = HFP
            <3>1. o = cras_iodev_list_resume_dev(u, Out, outcome)
                BY <2>2
            <3> HIDE DEF o
            <3>2. HasInput(u, c) /\ Out \in u.wrap
                BY <1>5, <2>2 DEF HasInput, Kept
            <3>3. /\ Good(o, C, {}, c) /\ Aligned(o) /\ Kept(o, u)
                  /\ o.open \subseteq u.open \cup {Out}
                BY <1>0, <1>5, <3>1, <3>2, ResumeGood
            <3> QED
                BY <1>5, <3>3 DEF Kept
        <2>3. CASE Out \in m.wrap /\ u.flag # HFP
            <3>1. o = [u EXCEPT !.timer = TRUE, !.delayed = TRUE]
                BY <2>3 DEF switch_profile_with_delay
            <3>2. u \in Manager
                BY <1>5 DEF Good
            <3> HIDE DEF o
            <3>3. /\ o \in Manager /\ Kept(o, u) /\ o.open = {} /\ o.active = u.active
                  /\ o.prof = u.prof /\ o.flag = u.flag /\ o.switching = u.switching
                  /\ o.full = u.full /\ o.queue = u.queue /\ o.timer /\ o.delayed
                BY <1>5, <3>1, <3>2 DEF Manager, Kept
            <3>4. Drives(o, {}) /\ Nodes(o, C) /\ Flags(o) /\ (c => Quiet(o)) /\ Aligned(o)
                BY <1>5, <3>3 DEF Good, Drives, Nodes, Flags, Quiet, Kept, Aligned
            <3> QED
                BY <1>5, <3>3, <3>4 DEF Good, Kept
        <2> QED
            BY <2>1, <2>2, <2>3
    <1> HIDE DEF o
    <1>7. CASE In \notin m.wrap
        BY <1>2, <1>6, <1>7 DEF n
    <1>8. CASE In \in m.wrap
        <2>1. Good(i, C, {}, c) /\ Kept(i, o) /\ i.open = o.open /\ Aligned(i)
            BY <1>0, <1>6, UpdateGood, UpdateAligned
        <2> HIDE DEF i
        <2>2. HasInput(i, c) /\ In \in i.wrap
            BY <1>6, <1>8, <2>1 DEF HasInput, Kept
        <2>3. Good(n, C, {}, c) /\ Aligned(n) /\ Kept(n, i)
            BY <1>0, <1>2, <1>6, <1>8, <2>1, <2>2, ResumeGood
        <2> QED
            BY <1>6, <2>1, <2>3 DEF n, Kept
    <1> QED
        BY <1>7, <1>8
-----------------------------------------------------------------------------
\* The two directions.
LEMMA DirFacts == Dirs = {Out, In} /\ Out # In /\ Out \in Dirs /\ In \in Dirs
    BY DEF Dirs, Out, In

\* The two profiles.
LEMMA ProfileFacts ==
    /\ Profiles = {A2DP, HFP} /\ A2DP # HFP /\ A2DP # None /\ HFP # None
    /\ A2DP \in Profiles /\ HFP \in Profiles /\ None \notin Profiles
    BY DEF Profiles, A2DP, HFP, None

\* bt_io_create: the first profile of a direction.
LEMMA CreateGood ==
    ASSUME NEW m, NEW C, NEW P, NEW c, Good(m, C, P, c), NEW d \in Dirs, NEW p \in Profiles,
           d \notin m.wrap, d = In => p = HFP
    PROVE  LET n == bt_io_create(m, d, p)
           IN  /\ Good(n, C \cup {p}, P, c)
               /\ n.nodes[d] = {p} /\ \A e \in Dirs \ {d} : n.nodes[e] = m.nodes[e]
               /\ n.exists = m.exists /\ n.telephony = m.telephony /\ n.open = m.open
               /\ Same(n, m)
    <1> DEFINE n == bt_io_create(m, d, p)
               f == IF m.flag = None \/ (p = A2DP /\ can_switch_to_a2dp(m)) THEN p ELSE m.flag
               nd == [m.nodes EXCEPT ![d] = {p}]
               a == [m.active EXCEPT ![d] = p]
               w == m.wrap \cup {d}
    <1>1. m \in Manager
        BY DEF Good
    <1>2. /\ f \in Profiles /\ (f = m.flag \/ m.flag = None)
          /\ nd \in [Dirs -> SUBSET Profiles] /\ a \in [Dirs -> Profiles \cup {None}]
          /\ w \in SUBSET Dirs
        BY <1>1, DirFacts, ProfileFacts DEF Manager, can_switch_to_a2dp, HasA2dp
    <1>3. n = [m EXCEPT !.nodes = nd, !.active = a, !.flag = f, !.wrap = w]
        BY <1>1 DEF bt_io_create, Manager
    <1>4. /\ nd[d] = {p} /\ a[d] = p
          /\ \A e \in Dirs \ {d} : nd[e] = m.nodes[e] /\ a[e] = m.active[e]
        BY <1>1 DEF Manager
    <1> HIDE DEF f, nd, a, w, n
    <1>5. /\ n \in Manager /\ n.nodes = nd /\ n.active = a /\ n.flag = f /\ n.wrap = w
          /\ n.exists = m.exists /\ n.telephony = m.telephony /\ n.open = m.open
          /\ n.prof = m.prof /\ n.switching = m.switching /\ n.queue = m.queue
          /\ Same(n, m)
        BY <1>1, <1>2, <1>3 DEF Manager, Same
    <1>6. d \notin m.open
        BY DEF Good, Drives
    <1>7. Drives(n, P)
        BY <1>4, <1>5, <1>6 DEF Good, Drives, w
    <1>8. Nodes(n, C \cup {p})
        BY <1>1, <1>4, <1>5, DirFacts, ProfileFacts DEF Good, Nodes, w, Manager
    <1>9. Flags(n)
        BY <1>2, <1>5, ProfileFacts DEF Good, Flags, Same, Drives
    <1>10. c => Quiet(n)
        BY <1>4, <1>5, <1>6 DEF Good, Quiet, Same
    <1> QED
        BY <1>2, <1>4, <1>5, <1>7, <1>8, <1>9, <1>10 DEF Good, n

\* bt_io_append: another profile for a wrapper that exists.
LEMMA AppendGood ==
    ASSUME NEW m, NEW C, NEW P, NEW c, Good(m, C, P, c), NEW d \in Dirs, NEW p \in Profiles,
           d \in m.wrap, d = In => p = HFP
    PROVE  LET n == bt_io_append(m, d, p)
           IN  /\ Good(n, C \cup {p}, P, c)
               /\ n.nodes = [m.nodes EXCEPT ![d] = @ \cup {p}] /\ n.wrap = m.wrap
               /\ n.exists = m.exists /\ n.telephony = m.telephony /\ n.open = m.open
               /\ Same(n, m) /\ n.active = m.active
               /\ (n.switching = m.switching /\ n.flag = m.flag) \/ n.switching
    <1> DEFINE n == bt_io_append(m, d, p)
               nd == [m.nodes EXCEPT ![d] = @ \cup {p}]
               k == [m EXCEPT !.nodes = nd]
    <1>1. m \in Manager
        BY DEF Good
    <1>2. nd \in [Dirs -> SUBSET Profiles]
        BY <1>1 DEF Manager
    <1>3. nd[d] = m.nodes[d] \cup {p} /\ \A e \in Dirs \ {d} : nd[e] = m.nodes[e]
        BY <1>1 DEF Manager
    <1>4. n = k \/ n = possibly_switch_to_a2dp(k)
        BY DEF bt_io_append
    <1> HIDE DEF nd
    <1>5. /\ k \in Manager /\ k.nodes = nd /\ k.active = m.active /\ k.flag = m.flag
          /\ k.wrap = m.wrap /\ k.exists = m.exists /\ k.telephony = m.telephony
          /\ k.open = m.open /\ k.prof = m.prof /\ k.switching = m.switching
          /\ k.queue = m.queue /\ Same(k, m)
        BY <1>1, <1>2 DEF Manager, Same
    <1> HIDE DEF k, n
    <1>6. Nodes(k, C \cup {p})
        <2>1. \A e \in Dirs : k.nodes[e] \subseteq C \cup {p}
            BY <1>3, <1>5 DEF Good, Nodes
        <2>2. \A e \in k.wrap : k.active[e] \in k.nodes[e]
            BY <1>1, <1>3, <1>5 DEF Good, Nodes, Manager
        <2>3. \A e \in Dirs \ k.wrap : k.nodes[e] = {}
            BY <1>3, <1>5 DEF Good, Nodes
        <2>4. A2DP \notin k.nodes[In]
            BY <1>3, <1>5, DirFacts, ProfileFacts DEF Good, Nodes
        <2> QED
            BY <2>1, <2>2, <2>3, <2>4 DEF Nodes
    <1>7. Drives(k, P) /\ Flags(k) /\ (c => Quiet(k))
        BY <1>5 DEF Good, Drives, Flags, Quiet, Same
    <1>8. Good(k, C \cup {p}, P, c)
        BY <1>5, <1>6, <1>7 DEF Good
    <1>9. CASE n = k
        BY <1>5, <1>8, <1>9 DEF n, nd
    <1>10. CASE n = possibly_switch_to_a2dp(k) /\ n # k
        <2>1. /\ n \in Manager /\ Kept(n, k) /\ Same(n, k)
              /\ n.switching /\ n.flag = A2DP
              /\ n.open = k.open /\ n.active = k.active /\ n.prof = k.prof
              /\ ~k.full => n.queue > 0
            BY <1>5, <1>10, FlagRequestFields, ProfileFacts DEF possibly_switch_to_a2dp
        <2>2. Good(n, C \cup {p}, P, c)
            BY <1>8, <2>1, RequestGood, ProfileFacts
        <2> QED
            BY <1>5, <2>1, <2>2 DEF n, nd, Kept, Same
    <1> QED
        BY <1>4, <1>9, <1>10

\* bt_io_manager_append_iodev; an A2DP node leaves the output aligned.
LEMMA AppendIodevGood ==
    ASSUME NEW m, NEW C, NEW P, NEW c, Good(m, C, P, c), NEW d \in Dirs, NEW p \in Profiles,
           d = In => p = HFP
    PROVE  LET n == bt_io_manager_append_iodev(m, d, p)
           IN  /\ Good(n, C \cup {p}, P, c)
               /\ n.nodes[d] = m.nodes[d] \cup {p}
               /\ \A e \in Dirs \ {d} : n.nodes[e] = m.nodes[e]
               /\ n.exists = m.exists /\ n.telephony = m.telephony /\ n.open = m.open
               /\ n.full = m.full
               /\ p = A2DP /\ Aligned(m) => Aligned(n)
    <1> DEFINE n == bt_io_manager_append_iodev(m, d, p)
    <1>0. m \in Manager
        BY DEF Good
    <1>1. CASE d \notin m.wrap
        <2>1. n = bt_io_create(m, d, p)
            BY <1>1 DEF bt_io_manager_append_iodev
        <2> DEFINE k == bt_io_create(m, d, p)
        <2>2. /\ Good(k, C \cup {p}, P, c)
              /\ k.nodes[d] = {p} /\ \A e \in Dirs \ {d} : k.nodes[e] = m.nodes[e]
              /\ k.exists = m.exists /\ k.telephony = m.telephony /\ k.open = m.open
              /\ Same(k, m)
            BY <1>1, CreateGood
        <2> HIDE DEF n, k
        <2>3. m.nodes[d] = {}
            BY <1>1 DEF Good, Nodes
        <2>4. n.nodes[d] = {p} /\ \A e \in Dirs \ {d} : n.nodes[e] = m.nodes[e]
            BY <1>0, <2>1, <2>2 DEF Manager, k
        <2>5. p = A2DP => Aligned(n)
            BY <2>4, DirFacts, ProfileFacts DEF Aligned
        <2> QED
            BY <2>1, <2>2, <2>3, <2>4, <2>5 DEF n, k, Same
    <1>2. CASE d \in m.wrap /\ p \in m.nodes[d]
        <2>1. n = m
            BY <1>2 DEF bt_io_manager_append_iodev
        <2>2. Nodes(m, C \cup {p})
            BY DEF Good, Nodes
        <2> QED
            BY <1>2, <2>1, <2>2 DEF Good
    <1>3. CASE d \in m.wrap /\ p \notin m.nodes[d]
        <2>1. n = bt_io_append(m, d, p)
            BY <1>3 DEF bt_io_manager_append_iodev
        <2> HIDE DEF n
        <2>2. /\ Good(n, C \cup {p}, P, c)
              /\ n.nodes = [m.nodes EXCEPT ![d] = @ \cup {p}]
              /\ n.exists = m.exists /\ n.telephony = m.telephony /\ n.open = m.open
              /\ Same(n, m) /\ n.active = m.active
              /\ (n.switching = m.switching /\ n.flag = m.flag) \/ n.switching
            BY <1>3, <2>1, AppendGood
        <2>4. n.nodes[d] = m.nodes[d] \cup {p} /\ \A e \in Dirs \ {d} : n.nodes[e] = m.nodes[e]
            BY <1>0, <2>2 DEF Manager
        <2>5. p = A2DP /\ Aligned(m) => Aligned(n)
            BY <2>2, <2>4, DirFacts, ProfileFacts DEF Aligned
        <2> QED
            BY <2>2, <2>4, <2>5 DEF n, Same
    <1> QED
        BY <1>1, <1>2, <1>3
-----------------------------------------------------------------------------
\* What bt_io_destroy changes.
LEMMA DestroyFields ==
    ASSUME NEW m \in Manager, NEW d \in Dirs
    PROVE  LET n == bt_io_destroy(m, d)
           IN  /\ n \in Manager /\ n.wrap = m.wrap \ {d} /\ n.open = m.open \ {d}
               /\ n.nodes[d] = {} /\ n.active[d] = None
               /\ \A e \in Dirs \ {d} : n.nodes[e] = m.nodes[e] /\ n.active[e] = m.active[e]
               /\ d \in m.open /\ m.active[d] # None => n.prof = m.prof \ {<<d, m.active[d]>>}
               /\ d \notin m.open \/ m.active[d] = None => n.prof = m.prof
               /\ n.exists = m.exists /\ n.telephony = m.telephony /\ n.full = m.full
               /\ n.timer = m.timer /\ n.delayed = m.delayed
               /\ \/ n.switching = m.switching /\ n.queue = m.queue
                  \/ n.switching /\ (~m.full => n.queue > 0)
               /\ n.wrap = {} => n.flag = None
               /\ n.wrap # {} => n.flag = m.flag \/ (n.switching /\ n.flag = A2DP)
    <1> DEFINE w == m.wrap \ {d}
               k == [m EXCEPT !.wrap = w]
               b == close_dev(k, d)
               nd == [b.nodes EXCEPT ![d] = {}]
               a == [b.active EXCEPT ![d] = None]
               wt == b.want \ {d}
               f == IF b.wrap = {} THEN None ELSE b.flag
               n == bt_io_destroy(m, d)
    <1>1. w \in SUBSET Dirs
        BY DEF Manager
    <1>2. n = [b EXCEPT !.nodes[d] = {}, !.active[d] = None, !.want = @ \ {d},
                        !.flag = IF b.wrap = {} THEN None ELSE @]
        BY DEF bt_io_destroy
    <1> HIDE DEF w, n
    <1>3. /\ k \in Manager /\ k.wrap = w /\ k.open = m.open /\ k.nodes = m.nodes
          /\ k.active = m.active /\ k.prof = m.prof /\ k.exists = m.exists
          /\ k.telephony = m.telephony /\ k.full = m.full /\ k.timer = m.timer
          /\ k.delayed = m.delayed /\ k.switching = m.switching /\ k.queue = m.queue
          /\ k.flag = m.flag
        BY <1>1 DEF Manager
    <1> HIDE DEF k
    <1>4. /\ b \in Manager /\ Kept(b, k) /\ Same(b, k)
          /\ b.open = k.open \ {d} /\ b.active = k.active
          /\ b.prof = IF d \in k.open /\ k.active[d] # None
                      THEN k.prof \ {<<d, k.active[d]>>} ELSE k.prof
          /\ \/ b.flag = k.flag /\ b.switching = k.switching /\ b.queue = k.queue
             \/ b.flag = A2DP /\ b.switching /\ (~k.full => b.queue > 0)
        BY <1>3, CloseFields
    <1> HIDE DEF b
    <1>5. /\ nd \in [Dirs -> SUBSET Profiles] /\ a \in [Dirs -> Profiles \cup {None}]
          /\ nd[d] = {} /\ a[d] = None
          /\ \A e \in Dirs \ {d} : nd[e] = b.nodes[e] /\ a[e] = b.active[e]
          /\ wt \in SUBSET Dirs /\ f \in Profiles \cup {None}
        BY <1>4 DEF Manager
    <1>6. n = [b EXCEPT !.nodes = nd, !.active = a, !.want = wt, !.flag = f]
        BY <1>2, <1>4 DEF Manager
    <1> HIDE DEF nd, a, wt, f
    <1>7. /\ n \in Manager /\ n.wrap = b.wrap /\ n.open = b.open
          /\ n.nodes = nd /\ n.active = a /\ n.prof = b.prof
          /\ n.exists = b.exists /\ n.telephony = b.telephony /\ n.full = b.full
          /\ n.timer = b.timer /\ n.delayed = b.delayed
          /\ n.switching = b.switching /\ n.queue = b.queue /\ n.flag = f
        BY <1>4, <1>5, <1>6 DEF Manager
    <1>8. n.prof = IF d \in m.open /\ m.active[d] # None
                   THEN m.prof \ {<<d, m.active[d]>>} ELSE m.prof
        BY <1>3, <1>4, <1>7
    <1>9. /\ n.wrap = m.wrap \ {d} /\ n.open = m.open \ {d}
          /\ n.nodes[d] = {} /\ n.active[d] = None
          /\ \A e \in Dirs \ {d} : n.nodes[e] = m.nodes[e] /\ n.active[e] = m.active[e]
          /\ n.exists = m.exists /\ n.telephony = m.telephony /\ n.full = m.full
          /\ n.timer = m.timer /\ n.delayed = m.delayed
        BY <1>3, <1>4, <1>5, <1>7 DEF Kept, Same, w
    <1>10. /\ \/ n.switching = m.switching /\ n.queue = m.queue
              \/ n.switching /\ (~m.full => n.queue > 0)
           /\ n.wrap = {} => n.flag = None
           /\ n.wrap # {} => n.flag = m.flag \/ (n.switching /\ n.flag = A2DP)
        BY <1>3, <1>4, <1>7 DEF f, Same
    <1> QED
        BY <1>7, <1>8, <1>9, <1>10 DEF n

\* The part of it that callers need.
LEMMA DestroyKeeps ==
    ASSUME NEW m \in Manager, NEW d \in Dirs
    PROVE  LET n == bt_io_destroy(m, d)
           IN  /\ n.nodes[d] = {} /\ \A e \in Dirs \ {d} : n.nodes[e] = m.nodes[e]
               /\ n.exists = m.exists /\ n.full = m.full
    BY DestroyFields

\* Forgetting a wrapper leaves a good manager, if only that wrapper was not good.
LEMMA DestroyGood ==
    ASSUME NEW m \in Manager, NEW C, NEW P, NEW c, NEW d \in Dirs,
           m.open \subseteq m.wrap,
           \A e \in Dirs \ {d}, p \in Profiles \ P :
               <<e, p>> \in m.prof <=> e \in m.open /\ m.active[e] = p,
           \A p \in Profiles \ P : <<d, p>> \in m.prof => d \in m.open /\ m.active[d] = p,
           \A e \in Dirs \ {d} : m.nodes[e] \subseteq C,
           \A e \in m.wrap \ {d} : m.active[e] \in m.nodes[e],
           \A e \in Dirs \ m.wrap : m.nodes[e] = {},
           A2DP \notin m.nodes[In], Flags(m), Aligned(m),
           c => ~m.full /\ (m.switching => m.queue > 0)
    PROVE  Good(bt_io_destroy(m, d), C, P, c) /\ Aligned(bt_io_destroy(m, d))
    <1> DEFINE n == bt_io_destroy(m, d)
    <1>1. /\ n \in Manager /\ n.wrap = m.wrap \ {d} /\ n.open = m.open \ {d}
          /\ n.nodes[d] = {} /\ n.active[d] = None
          /\ \A e \in Dirs \ {d} : n.nodes[e] = m.nodes[e] /\ n.active[e] = m.active[e]
          /\ n.full = m.full /\ n.timer = m.timer /\ n.delayed = m.delayed
          /\ \/ n.switching = m.switching /\ n.queue = m.queue
             \/ n.switching /\ (~m.full => n.queue > 0)
          /\ n.wrap = {} => n.flag = None
          /\ n.wrap # {} => n.flag = m.flag \/ (n.switching /\ n.flag = A2DP)
        BY DestroyFields
    <1>2. /\ d \in m.open /\ m.active[d] # None => n.prof = m.prof \ {<<d, m.active[d]>>}
          /\ d \notin m.open \/ m.active[d] = None => n.prof = m.prof
        BY DestroyFields
    <1> HIDE DEF n
    <1>3. Drives(n, P)
        <2>1. ASSUME NEW e \in Dirs, NEW p \in Profiles \ P
              PROVE  <<e, p>> \in n.prof <=> e \in n.open /\ n.active[e] = p
            <3>1. CASE e = d
                BY <1>1, <1>2, <3>1, ProfileFacts
            <3>2. CASE e # d
                BY <1>1, <1>2, <3>2
            <3> QED
                BY <3>1, <3>2
        <2> QED
            BY <1>1, <2>1 DEF Drives
    <1>4. Nodes(n, C)
        <2>1. m.wrap \subseteq Dirs
            BY DEF Manager
        <2>2. \A e \in n.wrap : n.active[e] \in n.nodes[e]
            BY <1>1, <2>1
        <2>3. A2DP \notin n.nodes[In]
            BY <1>1, DirFacts
        <2>4. \A e \in Dirs : n.nodes[e] \subseteq C
            BY <1>1
        <2>5. \A e \in Dirs \ n.wrap : n.nodes[e] = {}
            BY <1>1
        <2> QED
            BY <2>2, <2>3, <2>4, <2>5 DEF Nodes
    <1>5. Flags(n)
        <2>1. n.open # {} => n.wrap # {}
            BY <1>1
        <2> QED
            BY <1>1, <2>1, ProfileFacts DEF Flags
    <1>6. c => Quiet(n)
        <2> SUFFICES ASSUME c PROVE Quiet(n)
            OBVIOUS
        <2>1. ~m.full /\ (m.switching => m.queue > 0)
            OBVIOUS
        <2>2. ~n.full /\ (n.switching => n.queue > 0)
            BY <1>1, <2>1
        <2>3. ~(Dirs \subseteq n.open)
            BY <1>1
        <2> QED
            BY <2>2, <2>3 DEF Quiet
    <1>7. Aligned(n)
        BY <1>1, DirFacts, ProfileFacts DEF Aligned
    <1> QED
        BY <1>1, <1>3, <1>4, <1>5, <1>6, <1>7 DEF Good, n
\* bt_io_manager_remove_iodev, while the devices of the profiles P are destroyed.
LEMMA RemoveGood ==
    ASSUME NEW m, NEW C, NEW P, NEW c, Good(m, C, P, c), Aligned(m), NEW d \in Dirs,
           NEW p \in Profiles, p \in P
    PROVE  LET n == bt_io_manager_remove_iodev(m, d, p)
           IN  /\ Good(n, C, P, c) /\ Aligned(n)
               /\ n.nodes[d] \subseteq m.nodes[d] \ {p}
               /\ \A e \in Dirs \ {d} : n.nodes[e] = m.nodes[e]
               /\ n.exists = m.exists /\ n.full = m.full
               /\ m.wrap = {} => n = m
    <1> DEFINE others == m.nodes[d] \ {p}
               new_flag == IF m.active[d] # p THEN m.active[d]
                           ELSE IF others = {} THEN None
                           ELSE CHOOSE q \in others : TRUE
               moved == IF new_flag # m.active[d]
                        THEN cras_bt_policy_switch_profile([m EXCEPT !.flag = new_flag])
                        ELSE m
               removed == bt_io_remove(moved, d, p)
               n == bt_io_manager_remove_iodev(m, d, p)
    <1>1. m \in Manager
        BY DEF Good
    <1>2. n = IF d \notin m.wrap THEN m
              ELSE IF new_flag = None THEN bt_io_destroy(m, d)
              ELSE IF removed.active[d] = None THEN bt_io_destroy(removed, d)
              ELSE removed
        BY DEF bt_io_manager_remove_iodev
    <1>3. CASE d \notin m.wrap
        <2>1. n = m
            BY <1>2, <1>3
        <2>2. m.nodes[d] = {}
            BY <1>3 DEF Good, Nodes
        <2> QED
            BY <2>1, <2>2
    <1>4. CASE d \in m.wrap /\ new_flag = None
        <2>1. n = bt_io_destroy(m, d)
            BY <1>2, <1>4
        <2> HIDE DEF n
        <2>2. Good(n, C, P, c) /\ Aligned(n)
            <3>1. m.open \subseteq m.wrap /\ Flags(m)
                BY DEF Good, Drives
            <3>2. \A e \in Dirs, q \in Profiles \ P :
                     <<e, q>> \in m.prof <=> e \in m.open /\ m.active[e] = q
                BY DEF Good, Drives
            <3>3. /\ \A e \in Dirs : m.nodes[e] \subseteq C
                  /\ \A e \in m.wrap : m.active[e] \in m.nodes[e]
                  /\ \A e \in Dirs \ m.wrap : m.nodes[e] = {}
                  /\ A2DP \notin m.nodes[In]
                BY DEF Good, Nodes
            <3>4. c => ~m.full /\ (m.switching => m.queue > 0)
                BY DEF Good, Quiet
            <3> QED
                BY <1>1, <2>1, <3>1, <3>2, <3>3, <3>4, DestroyGood
        <2>3. /\ n.nodes[d] = {} /\ n.exists = m.exists /\ n.full = m.full
              /\ \A e \in Dirs \ {d} : n.nodes[e] = m.nodes[e]
            BY <1>1, <2>1, DestroyKeeps
        <2> QED
            BY <1>4, <2>2, <2>3 DEF n
    <1>5. CASE d \in m.wrap /\ m.active[d] # p
        <2> DEFINE nd == [m.nodes EXCEPT ![d] = @ \ {p}]
                   k == [m EXCEPT !.nodes = nd]
        <2>0. m.active[d] \in m.nodes[d] /\ m.active[d] \in Profiles
            BY <1>1, <1>5 DEF Good, Nodes, Manager
        <2>1. /\ nd \in [Dirs -> SUBSET Profiles] /\ nd[d] = m.nodes[d] \ {p}
              /\ \A e \in Dirs \ {d} : nd[e] = m.nodes[e]
            BY <1>1 DEF Manager
        <2>2. moved = m
            BY <1>5
        <2>3. [m EXCEPT !.nodes[d] = @ \ {p}, !.active[d] = IF @ = p THEN None ELSE @] = k
            <3>1. [m.active EXCEPT ![d] = IF @ = p THEN None ELSE @] = m.active
                BY <1>1, <1>5 DEF Manager
            <3>2. [m EXCEPT !.nodes[d] = @ \ {p}, !.active[d] = IF @ = p THEN None ELSE @]
                  = [m EXCEPT !.nodes = nd,
                              !.active = [m.active EXCEPT ![d] = IF @ = p THEN None ELSE @]]
                BY <1>1 DEF Manager
            <3>3. [m EXCEPT !.nodes = nd, !.active = m.active] = k
                BY <1>1 DEF Manager
            <3> QED
                BY <3>1, <3>2, <3>3
        <2>4. removed = update_active_node(k, d)
            BY <2>2, <2>3 DEF bt_io_remove
        <2> HIDE DEF nd, removed
        <2>5. /\ k \in Manager /\ Same(k, m) /\ k.nodes = nd /\ k.active = m.active
              /\ k.wrap = m.wrap /\ k.open = m.open /\ k.prof = m.prof /\ k.flag = m.flag
              /\ k.switching = m.switching /\ k.queue = m.queue /\ k.exists = m.exists
              /\ k.telephony = m.telephony
            BY <1>1, <2>1 DEF Manager, Same
        <2>6. update_active_node(k, d) = k
            BY <1>5, <2>0, <2>1, <2>5, ProfileFacts DEF update_active_node
        <2>7. n = k
            <3>1. new_flag = m.active[d]
                BY <1>5
            <3> HIDE DEF new_flag
            <3>2. removed.active[d] # None
                BY <2>0, <2>4, <2>5, <2>6, ProfileFacts
            <3> QED
                BY <1>2, <1>5, <2>0, <2>4, <2>6, <3>1, <3>2, ProfileFacts
        <2> HIDE DEF k, n
        <2>8. Drives(k, P) /\ Flags(k) /\ (c => Quiet(k))
            BY <2>5 DEF Good, Drives, Flags, Quiet, Same
        <2>9. Nodes(k, C)
            BY <1>1, <1>5, <2>1, <2>5, DirFacts DEF Good, Nodes, Manager
        <2>10. Aligned(k)
            BY <2>1, <2>5, DirFacts DEF Aligned
        <2> QED
            BY <1>5, <2>1, <2>5, <2>7, <2>8, <2>9, <2>10 DEF Good, n, Same
    <1>6. CASE d \in m.wrap /\ m.active[d] = p /\ others # {}
        <2> DEFINE r == [moved EXCEPT !.nodes[d] = @ \ {p},
                                      !.active[d] = IF @ = p THEN None ELSE @]
                   nd == [moved.nodes EXCEPT ![d] = @ \ {p}]
                   a == [moved.active EXCEPT ![d] = IF @ = p THEN None ELSE @]
        <2>1. new_flag \in Profiles /\ new_flag # p
            <3>1. \E q \in others : TRUE
                BY <1>6
            <3>2. (CHOOSE q \in others : TRUE) \in others
                BY <3>1
            <3> QED
                BY <1>1, <1>6, <3>2 DEF Manager
        <2>2. removed = update_active_node(r, d)
            BY DEF bt_io_remove
        <2>3. moved = cras_bt_policy_switch_profile([m EXCEPT !.flag = new_flag])
            BY <1>6, <2>1
        <2> HIDE DEF new_flag, others, moved, removed
        <2>4. /\ moved \in Manager /\ Kept(moved, m) /\ Same(moved, m)
              /\ moved.switching /\ moved.flag = new_flag
              /\ moved.open = m.open /\ moved.active = m.active /\ moved.prof = m.prof
              /\ ~m.full => moved.queue > 0
            BY <1>1, <2>1, <2>3, FlagRequestFields
        <2>5. /\ nd \in [Dirs -> SUBSET Profiles] /\ nd[d] = m.nodes[d] \ {p}
              /\ a \in [Dirs -> Profiles \cup {None}] /\ a[d] = None
              /\ \A e \in Dirs \ {d} : nd[e] = m.nodes[e] /\ a[e] = m.active[e]
            BY <1>1, <1>6, <2>4 DEF Manager, Kept
        <2>6. r = [moved EXCEPT !.nodes = nd, !.active = a]
            BY <2>4 DEF Manager
        <2> HIDE DEF nd, a, r
        <2>7. /\ r \in Manager /\ r.nodes = nd /\ r.active = a
              /\ r.wrap = m.wrap /\ r.open = m.open /\ r.prof = m.prof
              /\ r.flag = new_flag /\ r.switching /\ (~m.full => r.queue > 0)
              /\ r.exists = m.exists /\ Same(r, m)
            <3>1. /\ r \in Manager /\ r.nodes = nd /\ r.active = a
                  /\ r.wrap = moved.wrap /\ r.open = moved.open /\ r.prof = moved.prof
                  /\ r.flag = moved.flag /\ r.switching = moved.switching
                  /\ r.queue = moved.queue /\ r.exists = moved.exists /\ Same(r, moved)
                BY <2>4, <2>5, <2>6 DEF Manager, Same
            <3> QED
                BY <2>4, <3>1 DEF Kept, Same
        <2>8. removed = r
            BY <2>2, <2>7 DEF update_active_node
        <2>9. n = bt_io_destroy(r, d)
            BY <1>2, <1>6, <2>1, <2>5, <2>7, <2>8, ProfileFacts
        <2> HIDE DEF n
        <2>10. Flags(r) /\ Aligned(r) /\ (c => ~r.full /\ (r.switching => r.queue > 0))
            <3>1. Flags(r)
                BY <2>1, <2>7, ProfileFacts DEF Good, Flags, Same
            <3>2. c => ~r.full /\ r.queue > 0
                BY <2>7 DEF Good, Quiet, Same
            <3> QED
                BY <2>7, <3>1, <3>2 DEF Aligned
        <2>11. /\ r.open \subseteq r.wrap
               /\ \A e \in Dirs \ {d}, q \in Profiles \ P :
                     <<e, q>> \in r.prof <=> e \in r.open /\ r.active[e] = q
               /\ \A q \in Profiles \ P : <<d, q>> \in r.prof => d \in r.open /\ r.active[d] = q
            BY <1>6, <2>5, <2>7 DEF Good, Drives
        <2>12. /\ \A e \in Dirs \ {d} : r.nodes[e] \subseteq C
               /\ \A e \in r.wrap \ {d} : r.active[e] \in r.nodes[e]
               /\ \A e \in Dirs \ r.wrap : r.nodes[e] = {}
               /\ A2DP \notin r.nodes[In]
            BY <1>1, <1>6, <2>5, <2>7, DirFacts DEF Good, Nodes, Manager
        <2>13. Good(n, C, P, c) /\ Aligned(n)
            BY <2>7, <2>9, <2>10, <2>11, <2>12, DestroyGood
        <2>14. /\ n.nodes[d] = {} /\ n.exists = r.exists /\ n.full = r.full
               /\ \A e \in Dirs \ {d} : n.nodes[e] = r.nodes[e]
            BY <2>7, <2>9, DestroyKeeps
        <2> QED
            BY <1>6, <2>5, <2>7, <2>13, <2>14 DEF n, Same
    <1>7. CASE d \in m.wrap /\ m.active[d] = p /\ others = {}
        BY <1>4, <1>7
    <1> QED
        BY <1>3, <1>5, <1>6, <1>7
\* Good is monotone in the connected profiles and in those being destroyed.
LEMMA GoodWeaken ==
    ASSUME NEW m, NEW C, NEW P, NEW c, Good(m, C, P, c),
           NEW C2, C \subseteq C2, NEW P2, P \subseteq P2, NEW c2, c2 => c
    PROVE  Good(m, C2, P2, c2)
    <1>1. Drives(m, P2)
        BY DEF Good, Drives
    <1>2. Nodes(m, C2)
        BY DEF Good, Nodes
    <1> QED
        BY <1>1, <1>2 DEF Good

\* Destroying a profile device that no node points at.
LEMMA DestroyedGood ==
    ASSUME NEW m, NEW C, NEW c, NEW p \in Profiles, Good(m, C, {p}, c), Aligned(m),
           \A d \in Dirs : p \notin m.nodes[d]
    PROVE  LET n == Destroyed(m, p)
           IN  /\ Good(n, C \ {p}, {}, c) /\ Aligned(n) /\ Kept(n, m)
               /\ n.full = m.full /\ n.switching = m.switching
    <1> DEFINE r == {x \in m.prof : x[2] # p}
               n == [m EXCEPT !.prof = r]
    <1>1. m \in Manager
        BY DEF Good
    <1>2. Destroyed(m, p) = n
        BY <1>1 DEF Destroyed
    <1>3. r \in SUBSET (Dirs \X Profiles)
        BY <1>1 DEF Manager
    <1>4. \A d \in Dirs, q \in Profiles : <<d, q>> \in r <=> <<d, q>> \in m.prof /\ q # p
        OBVIOUS
    <1> HIDE DEF r
    <1>5. /\ n \in Manager /\ n.prof = r /\ Kept(n, m) /\ Same(n, m)
          /\ n.open = m.open /\ n.active = m.active /\ n.flag = m.flag
          /\ n.switching = m.switching /\ n.queue = m.queue
        BY <1>1, <1>3 DEF Manager, Kept, Same
    <1> HIDE DEF n
    <1>6. \A d \in m.open : m.active[d] # p
        BY <1>1 DEF Good, Nodes, Drives, Manager
    <1>7. Drives(n, {})
        BY <1>4, <1>5, <1>6 DEF Good, Drives, Kept
    <1>8. Nodes(n, C \ {p})
        BY <1>5 DEF Good, Nodes, Kept
    <1>9. Flags(n) /\ (c => Quiet(n)) /\ Aligned(n)
        BY <1>5 DEF Good, Flags, Quiet, Aligned, Kept, Same
    <1> QED
        BY <1>2, <1>5, <1>7, <1>8, <1>9 DEF Good, Same

\* A2DP goes away.
LEMMA A2dpSuspendGood ==
    ASSUME NEW m, NEW C, NEW c, Good(m, C, {}, c), Aligned(m)
    PROVE  LET n == floss_media_a2dp_suspend(m)
           IN  /\ Good(n, C \ {A2DP}, {}, c) /\ Aligned(n)
               /\ n.nodes[In] = m.nodes[In] /\ n.nodes[Out] \subseteq m.nodes[Out] \ {A2DP}
               /\ n.exists = m.exists /\ n.full = m.full
               /\ m.wrap = {} => n.wrap = {} /\ n.switching = m.switching
    <1> DEFINE k == bt_io_manager_remove_iodev(m, Out, A2DP)
               n == Destroyed(k, A2DP)
    <1>1. Good(m, C, {A2DP}, c)
        BY GoodWeaken
    <1>2. /\ Good(k, C, {A2DP}, c) /\ Aligned(k)
          /\ k.nodes[Out] \subseteq m.nodes[Out] \ {A2DP}
          /\ k.nodes[In] = m.nodes[In]
          /\ k.exists = m.exists /\ k.full = m.full
          /\ m.wrap = {} => k = m
        BY <1>1, RemoveGood, DirFacts, ProfileFacts
    <1> HIDE DEF k
    <1>3. \A d \in Dirs : A2DP \notin k.nodes[d]
        BY <1>2, DirFacts DEF Good, Nodes
    <1>4. /\ Good(n, C \ {A2DP}, {}, c) /\ Aligned(n) /\ Kept(n, k)
          /\ n.full = k.full /\ n.switching = k.switching
        BY <1>2, <1>3, DestroyedGood, ProfileFacts
    <1>5. n = floss_media_a2dp_suspend(m)
        BY DEF floss_media_a2dp_suspend, k
    <1> HIDE DEF n
    <1> QED
        BY <1>2, <1>4, <1>5 DEF Kept

\* HFP goes away: the input's wrapper first, then the output's.
LEMMA HfpSuspendGood ==
    ASSUME NEW m, NEW C, NEW c, Good(m, C, {}, c), Aligned(m)
    PROVE  LET n == floss_media_hfp_suspend(m)
           IN  /\ Good(n, C \ {HFP}, {}, c) /\ Aligned(n)
               /\ n.nodes[In] = {} /\ n.nodes[Out] \subseteq m.nodes[Out] \ {HFP}
               /\ n.exists = m.exists /\ n.full = m.full
               /\ m.wrap = {} => n.wrap = {} /\ n.switching = m.switching
    <1> DEFINE j == bt_io_manager_remove_iodev(m, In, HFP)
               k == bt_io_manager_remove_iodev(j, Out, HFP)
               n == Destroyed(k, HFP)
    <1>1. Good(m, C, {HFP}, c)
        BY GoodWeaken
    <1>2. /\ Good(j, C, {HFP}, c) /\ Aligned(j)
          /\ j.nodes[In] \subseteq m.nodes[In] \ {HFP}
          /\ j.nodes[Out] = m.nodes[Out]
          /\ j.exists = m.exists /\ j.full = m.full
          /\ m.wrap = {} => j = m
        BY <1>1, RemoveGood, DirFacts, ProfileFacts
    <1> HIDE DEF j
    <1>3. /\ Good(k, C, {HFP}, c) /\ Aligned(k)
          /\ k.nodes[Out] \subseteq j.nodes[Out] \ {HFP}
          /\ k.nodes[In] = j.nodes[In]
          /\ k.exists = j.exists /\ k.full = j.full
          /\ j.wrap = {} => k = j
        BY <1>2, RemoveGood, DirFacts, ProfileFacts
    <1> HIDE DEF k
    <1>4. \A d \in Dirs : HFP \notin k.nodes[d]
        BY <1>2, <1>3, DirFacts
    <1>5. /\ Good(n, C \ {HFP}, {}, c) /\ Aligned(n) /\ Kept(n, k)
          /\ n.full = k.full /\ n.switching = k.switching
        BY <1>3, <1>4, DestroyedGood, ProfileFacts
    <1>6. n = floss_media_hfp_suspend(m)
        BY DEF floss_media_hfp_suspend, k, j
    <1> HIDE DEF n
    <1>7. n.nodes[In] = {}
        <2>1. n.nodes[In] \subseteq Profiles /\ HFP \notin n.nodes[In] /\ A2DP \notin n.nodes[In]
            BY <1>4, <1>5, DirFacts DEF Good, Nodes, Manager, Kept
        <2> QED
            BY <2>1, ProfileFacts
    <1> QED
        BY <1>2, <1>3, <1>5, <1>6, <1>7 DEF Kept

\* A telephony event.  Its end aligns the output unless the input is open.
LEMMA TelephonyGood ==
    ASSUME NEW m, NEW C, NEW c, Good(m, C, {}, c), NEW use \in BOOLEAN,
           Aligned(m) \/ (~use /\ In \notin m.open)
    PROVE  LET n == bt_io_manager_set_telephony_use(m, use)
           IN  /\ Good(n, C, {}, c) /\ Aligned(n)
               /\ n.nodes = m.nodes /\ n.exists = m.exists
    <1> DEFINE k == [m EXCEPT !.telephony = use]
               n == bt_io_manager_set_telephony_use(m, use)
    <1>1. m \in Manager
        BY DEF Good
    <1>2. \/ n = cras_bt_policy_switch_profile([k EXCEPT !.flag = A2DP])
          \/ n = cras_bt_policy_switch_profile([k EXCEPT !.flag = HFP])
          \/ n = k /\ (k.flag = HFP => ~can_switch_to_a2dp(k))
        BY ProfileFacts DEF bt_io_manager_set_telephony_use, possibly_switch_to_a2dp,
                            switch_to_hfp, can_switch_to_a2dp
    <1>3. /\ k \in Manager /\ Same(k, m) /\ k.telephony = use
          /\ k.exists = m.exists /\ k.wrap = m.wrap /\ k.nodes = m.nodes
          /\ k.open = m.open /\ k.active = m.active /\ k.prof = m.prof
          /\ k.flag = m.flag /\ k.switching = m.switching /\ k.queue = m.queue
        BY <1>1 DEF Manager, Same
    <1> HIDE DEF k, n
    <1>4. Good(k, C, {}, c)
        <2>1. Drives(k, {}) /\ Nodes(k, C) /\ Flags(k) /\ (c => Quiet(k))
            BY <1>3 DEF Good, Drives, Nodes, Flags, Quiet, Same
        <2> QED
            BY <1>3, <2>1 DEF Good
    <1>5. ASSUME NEW f \in Profiles, n = cras_bt_policy_switch_profile([k EXCEPT !.flag = f])
          PROVE  Good(n, C, {}, c) /\ Aligned(n) /\ n.nodes = m.nodes /\ n.exists = m.exists
        <2>1. /\ n \in Manager /\ Kept(n, k) /\ Same(n, k)
              /\ n.switching /\ n.flag = f
              /\ n.open = k.open /\ n.active = k.active /\ n.prof = k.prof
              /\ ~k.full => n.queue > 0
            BY <1>3, <1>5, FlagRequestFields
        <2>2. Good(n, C, {}, c)
            BY <1>4, <2>1, RequestGood
        <2> QED
            BY <1>3, <2>1, <2>2 DEF Kept, Aligned
    <1>6. CASE n = k /\ (k.flag = HFP => ~can_switch_to_a2dp(k))
        <2>1. CASE Aligned(m)
            BY <1>3, <1>4, <1>6, <2>1 DEF Aligned, n
        <2>2. CASE ~use /\ In \notin m.open
            <3>1. k.flag = HFP => ~(Out \in k.wrap /\ A2DP \in k.nodes[Out])
                BY <1>3, <1>6, <2>2 DEF can_switch_to_a2dp, HasA2dp
            <3>2. HFP \in k.nodes[Out] => Out \in k.wrap /\ k.active[Out] \in k.nodes[Out]
                BY <1>4, DirFacts DEF Good, Nodes
            <3>3. k.nodes[Out] \subseteq Profiles
                BY <1>3, DirFacts DEF Manager
            <3>4. Aligned(k)
                BY <3>1, <3>2, <3>3, ProfileFacts DEF Aligned
            <3> QED
                BY <1>3, <1>4, <1>6, <3>4 DEF n
        <2> QED
            BY <2>1, <2>2
    <1> QED
        BY <1>2, <1>5, <1>6, ProfileFacts DEF n
-----------------------------------------------------------------------------
\* What holds between two handlers.
Complete(m, C, c) ==
    /\ m.nodes[In] = C \cap {HFP}
    /\ c => m.nodes[Out] = C
    /\ m.exists \/ (m.wrap = {} /\ ~m.switching)

\* The inductive invariant.
Inv(m, C, c) ==
    /\ C \in SUBSET Profiles /\ c \in BOOLEAN
    /\ Good(m, C, {}, c) /\ Aligned(m) /\ Complete(m, C, c)

IInv == Inv(io, conn, calm)

\* HasInput follows between two handlers.
LEMMA InputServed ==
    ASSUME NEW m, NEW C, NEW c, Inv(m, C, c)
    PROVE  HasInput(m, c)
    <1>1. In \in m.wrap => HFP \in C
        BY DirFacts DEF Inv, Good, Nodes, Complete
    <1> QED
        BY <1>1 DEF HasInput, Inv, Complete

\* Only want changes.
LEMMA WantInv ==
    ASSUME NEW m, NEW C, NEW c, Inv(m, C, c), NEW w \in SUBSET Dirs
    PROVE  Inv([m EXCEPT !.want = w], C, c) /\ Kept([m EXCEPT !.want = w], m)
    <1> DEFINE n == [m EXCEPT !.want = w]
    <1>1. m \in Manager
        BY DEF Inv, Good
    <1>2. /\ n \in Manager /\ Kept(n, m) /\ n.timer = m.timer /\ n.delayed = m.delayed
          /\ n.full = m.full /\ n.open = m.open /\ n.active = m.active /\ n.prof = m.prof
          /\ n.flag = m.flag /\ n.switching = m.switching /\ n.queue = m.queue
        BY <1>1 DEF Manager, Kept
    <1> HIDE DEF n
    <1>3. Drives(n, {}) /\ Nodes(n, C) /\ Flags(n) /\ (c => Quiet(n))
        BY <1>2 DEF Inv, Good, Drives, Nodes, Flags, Quiet, Kept
    <1>4. Aligned(n) /\ Complete(n, C, c)
        BY <1>2 DEF Inv, Aligned, Complete, Kept
    <1>5. Inv(n, C, c) /\ Kept(n, m)
        BY <1>2, <1>3, <1>4 DEF Inv, Good
    <1> QED
        BY <1>5 DEF n

\* A handler that keeps the nodes.
LEMMA KeptInv ==
    ASSUME NEW m, NEW C, NEW c, Inv(m, C, c), NEW n, Kept(n, m),
           Good(n, C, {}, c), Aligned(n), m.exists
    PROVE  Inv(n, C, c)
    BY DEF Inv, Complete, Kept

\* A wrapper has a manager, and the manager a flag.
LEMMA WrapExists ==
    ASSUME NEW m, NEW C, NEW c, Inv(m, C, c), NEW d, d \in m.wrap \/ d \in m.open
    PROVE  m.exists /\ m.flag \in Profiles
    <1>1. m.wrap # {}
        BY DEF Inv, Good, Drives
    <1> QED
        BY <1>1 DEF Inv, Complete, Good, Flags, Manager

\* process_bt_policy_msg.
LEMMA MessageInv == IInv /\ process_bt_policy_msg => IInv'
    <1> SUFFICES ASSUME IInv, io.queue > 0, conn' = conn, calm' = calm,
                        NEW outcome \in Outcomes, io' = MessageHandled(outcome)
                 PROVE  Inv(io', conn, calm)
        BY DEF IInv, process_bt_policy_msg
    <1> DEFINE m == [io EXCEPT !.queue = @ - 1]
    <1>1. io \in Manager
        BY DEF IInv, Inv, Good
    <1>2. /\ m \in Manager /\ Kept(m, io) /\ Same(m, io) /\ m.open = io.open
          /\ m.active = io.active /\ m.prof = io.prof /\ m.flag = io.flag
          /\ m.switching = io.switching
        BY <1>1, BtAssumption DEF Manager, Kept, Same
    <1>3. io' = IF m.exists THEN switch_profile(m, outcome) ELSE m
        BY DEF MessageHandled
    <1> HIDE DEF m
    <1>4. Good(m, conn, {}, FALSE)
        <2>1. Drives(m, {}) /\ Nodes(m, conn) /\ Flags(m)
            BY <1>2 DEF IInv, Inv, Good, Drives, Nodes, Flags, Kept, Same
        <2> QED
            BY <1>2, <2>1 DEF Good
    <1>5. calm => ~m.full
        BY <1>2 DEF IInv, Inv, Good, Quiet, Same
    <1>6. CASE m.exists
        <2>1. HasInput(m, calm)
            BY <1>2, InputServed DEF IInv, HasInput, Kept
        <2>2. Good(io', conn, {}, calm) /\ Aligned(io') /\ Kept(io', m)
            BY <1>3, <1>4, <1>5, <1>6, <2>1, SwitchGood
        <2> QED
            BY <1>2, <1>6, <2>2, KeptInv DEF IInv, Kept
    <1>7. CASE ~m.exists
        <2>1. ~io.exists /\ ~io.switching /\ io' = m
            BY <1>2, <1>3, <1>7 DEF IInv, Inv, Complete, Kept
        <2>2. calm => Quiet(m)
            BY <1>2, <1>5, <2>1 DEF IInv, Inv, Good, Quiet
        <2>3. Aligned(m) /\ Complete(m, conn, calm)
            BY <1>2 DEF IInv, Inv, Aligned, Complete, Kept
        <2> QED
            BY <1>4, <2>1, <2>2, <2>3 DEF IInv, Inv, Good
    <1> QED
        BY <1>6, <1>7

\* profile_switch_delay_cb: Flags and Aligned keep it from moving the node of an
\* output that is open.
LEMMA TimerInv == IInv /\ profile_switch_delay_cb => IInv'
    <1> DEFINE m == [io EXCEPT !.timer = FALSE, !.delayed = FALSE]
               k == update_active_node(m, Out)
    <1> SUFFICES ASSUME IInv, io.timer, conn' = conn, calm' = calm, NEW outcome \in Outcomes,
                        io' = IF Out \in m.wrap
                              THEN cras_iodev_list_resume_dev(k, Out, outcome) ELSE m
                 PROVE  Inv(io', conn, calm)
        BY DEF IInv, profile_switch_delay_cb
    <1>1. io \in Manager
        BY DEF IInv, Inv, Good
    <1>2. /\ m \in Manager /\ Kept(m, io) /\ m.open = io.open
          /\ m.active = io.active /\ m.prof = io.prof /\ m.flag = io.flag
          /\ m.switching = io.switching /\ m.queue = io.queue /\ m.full = io.full
          /\ ~m.timer
        BY <1>1 DEF Manager, Kept
    <1> HIDE DEF m
    <1>3. Good(m, conn, {}, calm)
        <2>1. /\ Drives(m, {}) /\ Nodes(m, conn) /\ Flags(m) /\ (calm => Quiet(m))
            BY <1>2 DEF IInv, Inv, Good, Drives, Nodes, Flags, Quiet, Kept
        <2> QED
            BY <1>2, <2>1 DEF Good
    <1>4. CASE Out \in m.wrap
        <2>1. io.exists /\ io.flag \in Profiles
            BY <1>2, <1>4, WrapExists DEF IInv, Kept
        <2>2. Out \in m.open => m.switching \/ m.active[Out] = m.flag \/ m.flag \notin m.nodes[Out]
            BY <1>2, <2>1, ProfileFacts DEF IInv, Inv, Good, Flags, Aligned, Kept
        <2>3. /\ Good(k, conn, {}, calm) /\ Kept(k, m) /\ k.open = m.open /\ k.flag = m.flag
              /\ k.switching = m.switching
              /\ ~m.switching /\ m.flag \in m.nodes[Out] => k.active[Out] = m.flag
            BY <1>3, <2>2, UpdateGood, DirFacts
        <2> HIDE DEF k
        <2>4. /\ HasInput(k, calm) /\ Out \in k.wrap
              /\ Out \in k.open => k.switching \/ k.active[Out] = k.flag \/ k.flag \notin k.nodes[Out]
            BY <1>2, <1>4, <2>3, InputServed DEF IInv, HasInput, Kept
        <2>5. Good(io', conn, {}, calm) /\ Aligned(io') /\ Kept(io', k)
            BY <1>4, <2>3, <2>4, ResumeGood, DirFacts
        <2> QED
            BY <1>2, <2>1, <2>3, <2>5, KeptInv DEF IInv, Kept
    <1>5. CASE Out \notin m.wrap
        BY <1>2, <1>3, <1>5 DEF IInv, Inv, Complete, Aligned, Kept
    <1> QED
        BY <1>4, <1>5
\* A manager that has no wrapper.
LEMMA BlankGood ==
    ASSUME NEW n \in Manager, n.wrap = {}, n.open = {}, n.prof = {}, n.flag = None,
           ~n.switching, ~n.timer, \A d \in Dirs : n.nodes[d] = {},
           NEW C, NEW c, c => ~n.full
    PROVE  Good(n, C, {}, c) /\ Aligned(n)
    <1>1. Drives(n, {}) /\ Nodes(n, C) /\ Flags(n) /\ (c => Quiet(n)) /\ Aligned(n)
        BY DirFacts DEF Drives, Nodes, Flags, Quiet, Aligned
    <1> QED
        BY <1>1 DEF Good

\* handle_on_bluetooth_device_added, one profile after the other.  Between them the
\* nodes are incomplete and the output need not be aligned; setting telephony ends that.
LEMMA AddedInv ==
    ASSUME NEW avail \in SUBSET Profiles, NEW made \in SUBSET avail, IInv,
           handle_on_bluetooth_device_added(avail, made)
    PROVE  IInv'
    <1>0. /\ io \in Manager /\ Good(io, conn, {}, calm) /\ Aligned(io)
          /\ Complete(io, conn, calm) /\ conn \in SUBSET Profiles /\ calm \in BOOLEAN
        BY DEF IInv, Inv, Good
    <1> PICK m \in IF io.exists THEN {io} ELSE bt_io_manager_create(io) :
           LET old == IF A2DP \in avail \cap conn THEN floss_media_a2dp_suspend(m) ELSE m
               a2dp == IF A2DP \in made THEN bt_io_manager_append_iodev(old, Out, A2DP)
                       ELSE old
               older == IF HFP \in avail \cap conn THEN floss_media_hfp_suspend(a2dp)
                        ELSE a2dp
               hfp == IF HFP \in made
                      THEN bt_io_manager_append_iodev(
                               bt_io_manager_append_iodev(older, In, HFP), Out, HFP)
                      ELSE older
           IN  /\ io' = bt_io_manager_set_telephony_use(hfp, FALSE)
               /\ conn' = (conn \ avail) \cup made
        BY DEF handle_on_bluetooth_device_added
    <1> DEFINE old == IF A2DP \in avail \cap conn THEN floss_media_a2dp_suspend(m) ELSE m
               a2dp == IF A2DP \in made THEN bt_io_manager_append_iodev(old, Out, A2DP)
                       ELSE old
               older == IF HFP \in avail \cap conn THEN floss_media_hfp_suspend(a2dp)
                        ELSE a2dp
               input == bt_io_manager_append_iodev(older, In, HFP)
               hfp == IF HFP \in made THEN bt_io_manager_append_iodev(input, Out, HFP)
                      ELSE older
               C0 == conn \ (avail \cap {A2DP})
               C1 == C0 \cup (made \cap {A2DP})
               C2 == C1 \ (avail \cap {HFP})
               C == C2 \cup (made \cap {HFP})
               c == calm /\ conn = {}
    <1>1. /\ io' = bt_io_manager_set_telephony_use(hfp, FALSE) /\ conn' = C
          /\ calm' = c /\ c \in BOOLEAN /\ C \in SUBSET Profiles
        BY <1>0, ProfileFacts DEF handle_on_bluetooth_device_added, Profiles
    <1>2. /\ Good(m, conn, {}, c) /\ Aligned(m) /\ m.exists
          /\ m.nodes[In] = conn \cap {HFP} /\ (c => m.nodes[Out] = {})
        <2>1. CASE io.exists
            <3>1. m = io
                BY <2>1
            <3>2. Good(m, conn, {}, c)
                BY <1>0, <3>1, GoodWeaken
            <3>3. c => m.nodes[Out] = {}
                BY <1>0, <3>1, DirFacts DEF Good, Nodes
            <3> QED
                BY <1>0, <2>1, <3>1, <3>2, <3>3 DEF Complete
        <2>2. CASE ~io.exists
            <3>1. PICK q \in {0, io.queue} :
                      m = [NoManager EXCEPT !.exists = TRUE, !.queue = q, !.full = io.full]
                BY <2>2 DEF bt_io_manager_create
            <3>2. q \in 0..PipeSize /\ io.full \in BOOLEAN /\ (c => ~io.full)
                BY <1>0, BtAssumption DEF Manager, Good, Quiet
            <3>3. io.nodes[In] = {}
                BY <1>0, <2>2, DirFacts DEF Complete, Good, Nodes
            <3>4. /\ m \in Manager /\ m.exists /\ m.wrap = {} /\ m.open = {} /\ m.prof = {}
                  /\ m.flag = None /\ ~m.switching /\ ~m.timer /\ m.full = io.full
                  /\ \A d \in Dirs : m.nodes[d] = {}
                BY <3>1, <3>2 DEF NoManager, Manager
            <3>5. Good(m, conn, {}, c) /\ Aligned(m)
                BY <3>2, <3>4, BlankGood
            <3> QED
                BY <1>0, <3>3, <3>4, <3>5, DirFacts DEF Complete
        <2> QED
            BY <2>1, <2>2
    <1>3. /\ Good(old, C0, {}, c) /\ Aligned(old) /\ old.exists
          /\ old.nodes[In] = conn \cap {HFP} /\ (c => old.nodes[Out] = {})
        <2>1. CASE A2DP \in avail \cap conn
            <3>1. old = floss_media_a2dp_suspend(m) /\ C0 = conn \ {A2DP}
                BY <2>1
            <3> HIDE DEF old, c, C0
            <3>2. /\ Good(old, conn \ {A2DP}, {}, c) /\ Aligned(old)
                  /\ old.nodes[In] = m.nodes[In] /\ old.nodes[Out] \subseteq m.nodes[Out] \ {A2DP}
                  /\ old.exists = m.exists
                BY <1>2, <3>1, A2dpSuspendGood
            <3> QED
                BY <1>2, <3>1, <3>2
        <2>2. CASE A2DP \notin avail \cap conn
            <3>1. old = m /\ C0 = conn
                BY <2>2
            <3> QED
                BY <1>2, <3>1
        <2> QED
            BY <2>1, <2>2
    <1> HIDE DEF old
    <1>4. /\ Good(a2dp, C1, {}, c) /\ Aligned(a2dp) /\ a2dp.exists
          /\ a2dp.nodes[In] = conn \cap {HFP} /\ (c => a2dp.nodes[Out] = made \cap {A2DP})
        <2>1. CASE A2DP \in made
            <3>1. a2dp = bt_io_manager_append_iodev(old, Out, A2DP) /\ C1 = C0 \cup {A2DP}
                BY <2>1
            <3> HIDE DEF a2dp, c, C0, C1
            <3>2. /\ Good(a2dp, C0 \cup {A2DP}, {}, c)
                  /\ a2dp.nodes[Out] = old.nodes[Out] \cup {A2DP}
                  /\ \A e \in Dirs \ {Out} : a2dp.nodes[e] = old.nodes[e]
                  /\ a2dp.exists = old.exists /\ Aligned(a2dp)
                <4>1. Out \in Dirs /\ A2DP \in Profiles /\ ~(Out = In)
                    BY DirFacts, ProfileFacts
                <4>2. Good(old, C0, {}, c) /\ Aligned(old)
                    BY <1>3
                <4>3. a2dp = bt_io_manager_append_iodev(old, Out, A2DP)
                    BY <3>1
                <4> QED
                    BY <4>1, <4>2, <4>3, AppendIodevGood
            <3> QED
                BY <1>3, <2>1, <3>1, <3>2, DirFacts
        <2>2. CASE A2DP \notin made
            <3>1. a2dp = old /\ C1 = C0 /\ made \cap {A2DP} = {}
                BY <2>2
            <3> QED
                BY <1>3, <3>1
        <2> QED
            BY <2>1, <2>2
    <1> HIDE DEF a2dp
    <1>5. /\ Good(older, C2, {}, c) /\ Aligned(older) /\ older.exists
          /\ older.nodes[In] = IF HFP \in avail THEN {} ELSE conn \cap {HFP}
          /\ (c => older.nodes[Out] = made \cap {A2DP})
        <2>1. CASE HFP \in avail \cap conn
            <3>1. older = floss_media_hfp_suspend(a2dp) /\ C2 = C1 \ {HFP}
                BY <2>1
            <3>0. ~c
                BY <2>1
            <3> HIDE DEF older, c, C1, C2
            <3>2. /\ Good(older, C1 \ {HFP}, {}, c) /\ Aligned(older)
                  /\ older.nodes[In] = {} /\ older.exists = a2dp.exists
                BY <1>4, <3>1, HfpSuspendGood
            <3> QED
                BY <1>4, <2>1, <3>0, <3>1, <3>2
        <2>2. CASE HFP \notin avail \cap conn
            <3>1. older = a2dp /\ C2 = C1 /\ (HFP \in avail => conn \cap {HFP} = {})
                BY <2>2, ProfileFacts
            <3> QED
                BY <1>4, <3>1
        <2> QED
            BY <2>1, <2>2
    <1> HIDE DEF older
    <1>6. /\ Good(hfp, C, {}, c) /\ hfp.exists
          /\ Aligned(hfp) \/ In \notin hfp.open
          /\ hfp.nodes[In] = C \cap {HFP} /\ (c => hfp.nodes[Out] = C)
        <2>1. CASE HFP \in made
            <3>1. hfp = bt_io_manager_append_iodev(input, Out, HFP) /\ C = C2 \cup {HFP}
                  /\ C \cap {HFP} = {HFP} /\ (c => C = (made \cap {A2DP}) \cup {HFP})
                  /\ HFP \in avail
                BY <2>1, ProfileFacts
            <3>2. In \notin older.open
                BY <1>5, <3>1 DEF Good, Drives, Nodes
            <3> HIDE DEF hfp, c, C, C2
            <3>3. /\ Good(input, C2 \cup {HFP}, {}, c)
                  /\ input.nodes[In] = older.nodes[In] \cup {HFP}
                  /\ \A e \in Dirs \ {In} : input.nodes[e] = older.nodes[e]
                  /\ input.exists = older.exists /\ input.open = older.open
                <4>1. In \in Dirs /\ HFP \in Profiles
                    BY DirFacts, ProfileFacts
                <4>2. Good(older, C2, {}, c)
                    BY <1>5
                <4>3. input = bt_io_manager_append_iodev(older, In, HFP)
                    OBVIOUS
                <4> HIDE DEF input
                <4> QED
                    BY <4>1, <4>2, <4>3, AppendIodevGood
            <3> HIDE DEF input
            <3>4. /\ Good(hfp, C, {}, c)
                  /\ hfp.nodes[Out] = input.nodes[Out] \cup {HFP}
                  /\ \A e \in Dirs \ {Out} : hfp.nodes[e] = input.nodes[e]
                  /\ hfp.exists = input.exists /\ hfp.open = input.open
                <4>1. Out \in Dirs /\ HFP \in Profiles
                    BY DirFacts, ProfileFacts
                <4>2. Good(input, C, {}, c) /\ C \cup {HFP} = C
                    BY <3>1, <3>3
                <4>3. Good(hfp, C \cup {HFP}, {}, c)
                    BY <3>1, <4>1, <4>2, AppendIodevGood
                <4> QED
                    BY <3>1, <4>1, <4>2, <4>3, AppendIodevGood
            <3>5. hfp.nodes[In] = {HFP} /\ (c => hfp.nodes[Out] = C)
                BY <1>5, <3>1, <3>3, <3>4, DirFacts
            <3> QED
                BY <1>5, <3>1, <3>2, <3>3, <3>4, <3>5
        <2>2. CASE HFP \notin made
            <3>1. /\ hfp = older /\ C = C2
                  /\ C \cap {HFP} = IF HFP \in avail THEN {} ELSE conn \cap {HFP}
                  /\ (c => C = made \cap {A2DP})
                BY <2>2, ProfileFacts
            <3> QED
                BY <1>5, <3>1
        <2> QED
            BY <2>1, <2>2
    <1> HIDE DEF hfp, c, C, C0, C1, C2
    <1>7. Good(io', C, {}, c) /\ Aligned(io') /\ io'.nodes = hfp.nodes /\ io'.exists = hfp.exists
        <2> DEFINE use == FALSE
        <2>1. io' = bt_io_manager_set_telephony_use(hfp, use) /\ use \in BOOLEAN /\ ~use
            BY <1>1
        <2> HIDE DEF use
        <2>2. Good(hfp, C, {}, c) /\ (Aligned(hfp) \/ (~use /\ In \notin hfp.open))
            BY <1>6, <2>1
        <2> DEFINE n == bt_io_manager_set_telephony_use(hfp, use)
        <2>3. /\ Good(n, C, {}, c) /\ Aligned(n)
              /\ n.nodes = hfp.nodes /\ n.exists = hfp.exists
            BY <2>1, <2>2, TelephonyGood
        <2> HIDE DEF n
        <2> QED
            BY <2>1, <2>3 DEF n
    <1>8. Inv(io', C, c)
        BY <1>1, <1>6, <1>7 DEF Inv, Complete
    <1> QED
        BY <1>1, <1>8 DEF IInv

\* Both profiles go away.
LEMMA SuspendedGood ==
    ASSUME IInv
    PROVE  LET n == Suspended(io)
           IN  /\ Good(n, {}, {}, calm) /\ Aligned(n)
               /\ \A d \in Dirs : n.nodes[d] = {}
               /\ n.exists = io.exists /\ n.full = io.full
    <1> DEFINE k == IF A2DP \in conn THEN floss_media_a2dp_suspend(io) ELSE io
               n == IF HFP \in conn THEN floss_media_hfp_suspend(k) ELSE k
    <1>0. Suspended(io) = n
        BY DEF Suspended
    <1>1. /\ Good(io, conn, {}, calm) /\ Aligned(io) /\ conn \in SUBSET Profiles
        BY DEF IInv, Inv
    <1>2. /\ Good(k, conn \ {A2DP}, {}, calm) /\ Aligned(k)
          /\ k.exists = io.exists /\ k.full = io.full
        <2>1. CASE A2DP \in conn
            BY <1>1, <2>1, A2dpSuspendGood
        <2>2. CASE A2DP \notin conn
            <3>1. conn \ {A2DP} = conn
                BY <2>2
            <3> QED
                BY <1>1, <2>2, <3>1
        <2> QED
            BY <2>1, <2>2
    <1> HIDE DEF k
    <1>3. /\ Good(n, (conn \ {A2DP}) \ {HFP}, {}, calm) /\ Aligned(n)
          /\ n.exists = io.exists /\ n.full = io.full
        <2>1. CASE HFP \in conn
            BY <1>2, <2>1, HfpSuspendGood
        <2>2. CASE HFP \notin conn
            <3>1. (conn \ {A2DP}) \ {HFP} = conn \ {A2DP}
                BY <2>2
            <3> QED
                BY <1>2, <2>2, <3>1
        <2> QED
            BY <2>1, <2>2
    <1> HIDE DEF n
    <1>4. (conn \ {A2DP}) \ {HFP} = {}
        BY <1>1, ProfileFacts
    <1>5. \A d \in Dirs : n.nodes[d] = {}
        BY <1>3, <1>4 DEF Good, Nodes
    <1> QED
        BY <1>0, <1>3, <1>4, <1>5

\* handle_on_bluetooth_device_removed.
LEMMA RemovedInv == IInv /\ handle_on_bluetooth_device_removed => IInv'
    <1> SUFFICES ASSUME IInv, handle_on_bluetooth_device_removed PROVE IInv'
        OBVIOUS
    <1>1. /\ io.exists /\ io' = Suspended(io) /\ conn' = {} /\ calm' = calm /\ calm \in BOOLEAN
        BY DEF handle_on_bluetooth_device_removed, IInv, Inv
    <1>2. /\ Good(io', {}, {}, calm) /\ Aligned(io') /\ io'.exists
          /\ \A d \in Dirs : io'.nodes[d] = {}
        BY <1>1, SuspendedGood
    <1> QED
        BY <1>1, <1>2, DirFacts DEF IInv, Inv, Complete

\* fl_media_destroy.
LEMMA DestroyInv == IInv /\ fl_media_destroy => IInv'
    <1> SUFFICES ASSUME IInv, fl_media_destroy PROVE IInv'
        OBVIOUS
    <1> DEFINE m == Suspended(io)
               k == cras_bt_policy_remove_io_manager(m)
               new == [NoManager EXCEPT !.queue = k.queue, !.full = k.full]
    <1>1. /\ io' = new /\ conn' = {} /\ calm' = calm /\ calm \in BOOLEAN
        BY DEF fl_media_destroy, bt_io_manager_destroy, IInv, Inv
    <1>2. Good(m, {}, {}, calm)
        BY SuspendedGood
    <1> HIDE DEF m
    <1>3. k.queue \in 0..PipeSize /\ k.full \in BOOLEAN /\ (calm => ~k.full)
        BY <1>2 DEF Good, Manager, Quiet, cras_bt_policy_remove_io_manager
    <1> HIDE DEF k
    <1>4. /\ new \in Manager /\ new.wrap = {} /\ new.open = {} /\ new.prof = {}
          /\ new.flag = None /\ ~new.switching /\ ~new.timer /\ new.full = k.full
          /\ \A d \in Dirs : new.nodes[d] = {}
        BY <1>3 DEF NoManager, Manager
    <1> HIDE DEF new
    <1>5. Good(io', {}, {}, calm) /\ Aligned(io')
        BY <1>1, <1>3, <1>4, BlankGood
    <1> QED
        BY <1>1, <1>4, <1>5, DirFacts DEF IInv, Inv, Complete

\* a2dp_suspend_cb.
LEMMA A2dpGoneInv == IInv /\ a2dp_suspend_cb => IInv'
    <1> SUFFICES ASSUME IInv, a2dp_suspend_cb PROVE IInv'
        OBVIOUS
    <1>1. /\ io' = floss_media_a2dp_suspend(io) /\ conn' = conn \ {A2DP} /\ calm' = FALSE
          /\ conn \in SUBSET Profiles /\ Good(io, conn, {}, calm) /\ Aligned(io)
          /\ Complete(io, conn, calm)
        BY DEF a2dp_suspend_cb, IInv, Inv
    <1>2. /\ Good(io', conn \ {A2DP}, {}, calm) /\ Aligned(io')
          /\ io'.nodes[In] = io.nodes[In] /\ io'.exists = io.exists
          /\ io.wrap = {} => io'.wrap = {} /\ io'.switching = io.switching
        BY <1>1, A2dpSuspendGood
    <1>3. Good(io', conn \ {A2DP}, {}, FALSE)
        BY <1>2, GoodWeaken
    <1>4. (conn \ {A2DP}) \cap {HFP} = conn \cap {HFP}
        BY ProfileFacts
    <1> QED
        BY <1>1, <1>2, <1>3, <1>4 DEF IInv, Inv, Complete
\* handle_on_hfp_telephony_event.
LEMMA TelephonyInv ==
    ASSUME NEW use \in BOOLEAN, IInv, handle_on_hfp_telephony_event(use)
    PROVE  IInv'
    <1>1. /\ io.exists /\ io' = bt_io_manager_set_telephony_use(io, use)
          /\ conn' = conn /\ calm' = calm
        BY DEF handle_on_hfp_telephony_event
    <1>2. Good(io, conn, {}, calm) /\ Aligned(io)
        BY DEF IInv, Inv
    <1> DEFINE n == bt_io_manager_set_telephony_use(io, use)
    <1>3. /\ Good(n, conn, {}, calm) /\ Aligned(n)
          /\ n.nodes = io.nodes /\ n.exists = io.exists
        BY <1>2, TelephonyGood
    <1> HIDE DEF n
    <1>4. Inv(n, conn, calm)
        BY <1>1, <1>3 DEF IInv, Inv, Complete
    <1> QED
        BY <1>1, <1>4 DEF IInv, n

\* handle_on_hfp_audio_disconnected.
LEMMA DisconnectedInv == IInv /\ handle_on_hfp_audio_disconnected => IInv'
    <1> SUFFICES ASSUME IInv, handle_on_hfp_audio_disconnected PROVE IInv'
        OBVIOUS
    <1>1. PICK d \in Dirs : <<d, HFP>> \in io.prof
        BY DEF handle_on_hfp_audio_disconnected
    <1>2. d \in io.open
        BY <1>1, ProfileFacts DEF IInv, Inv, Good, Drives
    <1>3. io.exists /\ io.flag \in Profiles
        BY <1>2, WrapExists DEF IInv
    <1> DEFINE n == cras_bt_policy_switch_profile(io)
    <1>4. /\ n \in Manager /\ Kept(n, io) /\ Same(n, io)
          /\ n.switching /\ n.flag = io.flag
          /\ n.open = io.open /\ n.active = io.active /\ n.prof = io.prof
          /\ ~io.full => n.queue > 0
        BY RequestFields DEF IInv, Inv, Good
    <1> HIDE DEF n
    <1>5. Good(n, conn, {}, calm)
        BY <1>3, <1>4, RequestGood DEF IInv, Inv
    <1>6. Inv(n, conn, calm)
        BY <1>3, <1>4, <1>5, KeptInv DEF IInv, Aligned
    <1> QED
        BY <1>6 DEF handle_on_hfp_audio_disconnected, IInv, n

\* The router opens a wrapper.
LEMMA OpensInv ==
    ASSUME NEW d \in Dirs, IInv, RouterOpens(d)
    PROVE  IInv'
    <1> DEFINE w == io.want \cup {d}
               m == [io EXCEPT !.want = w]
    <1>1. PICK outcome \in Outcomes : io' = open_dev([io EXCEPT !.want = @ \cup {d}], d, outcome)
        BY DEF RouterOpens
    <1>2. io \in Manager
        BY DEF IInv, Inv, Good
    <1>3. io' = open_dev(m, d, outcome) /\ w \in SUBSET Dirs
        BY <1>1, <1>2 DEF Manager
    <1> HIDE DEF w
    <1>4. Inv(m, conn, calm) /\ Kept(m, io)
        BY <1>3, WantInv DEF IInv
    <1> HIDE DEF m
    <1>5. d \in m.wrap
        BY <1>4 DEF RouterOpens, Kept
    <1>6. m.exists /\ HasInput(m, calm) /\ Good(m, conn, {}, calm) /\ Aligned(m)
        BY <1>4, <1>5, WrapExists, InputServed DEF Inv
    <1> DEFINE n == open_dev(m, d, outcome)
    <1>7. Good(n, conn, {}, calm) /\ Aligned(n) /\ Kept(n, m)
        BY <1>5, <1>6, OpenGood
    <1> HIDE DEF n
    <1>8. Inv(n, conn, calm)
        BY <1>4, <1>6, <1>7, KeptInv
    <1> QED
        BY <1>3, <1>8 DEF IInv, RouterOpens, n

\* The router closes a wrapper.
LEMMA ClosesInv ==
    ASSUME NEW d \in Dirs, IInv, RouterCloses(d)
    PROVE  IInv'
    <1> DEFINE n == close_dev(io, d)
    <1>1. d \in io.open /\ io' = n /\ conn' = conn /\ calm' = calm
        BY DEF RouterCloses
    <1>2. io.exists
        BY <1>1, WrapExists DEF IInv
    <1>3. /\ Good(n, conn, {}, calm) /\ Kept(n, io) /\ n.active = io.active
          /\ n.switching \/ (n.flag = io.flag /\ ~io.switching)
        BY CloseGood DEF IInv, Inv
    <1> HIDE DEF n
    <1>4. Aligned(n)
        BY <1>3 DEF IInv, Inv, Aligned, Kept
    <1> QED
        BY <1>1, <1>2, <1>3, <1>4, KeptInv DEF IInv

\* The router selects the node of a closed wrapper.
LEMMA SelectsInv ==
    ASSUME NEW d \in Dirs, IInv, RouterSelects(d)
    PROVE  IInv'
    <1> DEFINE n == update_active_node(io, d)
    <1>1. d \in io.wrap /\ d \notin io.open /\ io' = n /\ conn' = conn /\ calm' = calm
        BY DEF RouterSelects
    <1>2. io.exists
        BY <1>1, WrapExists DEF IInv
    <1>3. Good(n, conn, {}, calm) /\ Kept(n, io) /\ Aligned(n)
        BY <1>1, UpdateGood, UpdateAligned DEF IInv, Inv
    <1> HIDE DEF n
    <1> QED
        BY <1>1, <1>2, <1>3, KeptInv DEF IInv

\* The last stream leaves a wrapper.
LEMMA LeaveInv ==
    ASSUME NEW d \in Dirs, IInv, StreamsLeave(d)
    PROVE  IInv'
    <1> DEFINE w == io.want \ {d}
    <1>1. /\ w \in SUBSET Dirs /\ io' = [io EXCEPT !.want = w]
          /\ conn' = conn /\ calm' = calm
        BY DEF StreamsLeave, IInv, Inv, Good, Manager
    <1> HIDE DEF w
    <1> QED
        BY <1>1, WantInv DEF IInv

\* Others fill the pipe: the headset is calm no more.
LEMMA FillInv == IInv /\ OthersFill => IInv'
    <1> SUFFICES ASSUME IInv, OthersFill PROVE IInv'
        OBVIOUS
    <1>1. io' = [io EXCEPT !.full = ~@] /\ conn' = conn /\ calm' = FALSE /\ io \in Manager
        BY DEF OthersFill, IInv, Inv, Good
    <1>2. /\ io' \in Manager /\ Kept(io', io) /\ io'.timer = io.timer /\ io'.delayed = io.delayed
          /\ io'.open = io.open /\ io'.active = io.active /\ io'.prof = io.prof
          /\ io'.flag = io.flag /\ io'.switching = io.switching
        BY <1>1 DEF Manager, Kept
    <1>3. Drives(io', {}) /\ Nodes(io', conn) /\ Flags(io') /\ Aligned(io')
        BY <1>2 DEF IInv, Inv, Good, Drives, Nodes, Flags, Aligned, Kept
    <1>4. Complete(io', conn, FALSE)
        BY <1>2 DEF IInv, Inv, Complete, Kept
    <1> QED
        BY <1>1, <1>2, <1>3, <1>4 DEF IInv, Inv, Good

\* There is no manager at first.
LEMMA InitInv == Init => IInv
    <1> SUFFICES ASSUME Init PROVE IInv
        OBVIOUS
    <1>1. /\ io \in Manager /\ io.wrap = {} /\ io.open = {} /\ io.prof = {} /\ io.flag = None
          /\ ~io.switching /\ ~io.timer /\ ~io.full /\ \A d \in Dirs : io.nodes[d] = {}
        BY BtAssumption DEF Init, NoManager, Manager
    <1>2. conn = {} /\ calm = TRUE
        BY DEF Init
    <1>3. Good(io, conn, {}, calm) /\ Aligned(io)
        BY <1>1, BlankGood
    <1> QED
        BY <1>1, <1>2, <1>3, DirFacts DEF IInv, Inv, Complete

\* Every step keeps the invariant.
LEMMA NextInv == IInv /\ [Next]_vars => IInv'
    <1> SUFFICES ASSUME IInv, [Next]_vars PROVE IInv'
        OBVIOUS
    <1>1. CASE UNCHANGED vars
        BY <1>1 DEF vars, IInv
    <1>2. CASE Next
        BY <1>2, MessageInv, TimerInv, AddedInv, RemovedInv, DestroyInv, A2dpGoneInv,
           TelephonyInv, DisconnectedInv, OpensInv, ClosesInv, SelectsInv, LeaveInv, FillInv
           DEF Next
    <1> QED
        BY <1>1, <1>2

\* The invariant holds in every behaviour.
LEMMA IInvHolds == Spec => []IInv
    BY InitInv, NextInv, PTL DEF Spec

\* What the invariant says, in the words of the properties.
LEMMA InvType == IInv => TypeOK
    BY DEF IInv, Inv, Good, Manager, TypeOK

LEMMA InvDrives == IInv => DrivesWhatItOpened
    <1> SUFFICES ASSUME IInv PROVE DrivesWhatItOpened
        OBVIOUS
    <1>1. /\ io.prof \subseteq Dirs \X Profiles /\ io.open \subseteq io.wrap /\ io.wrap \subseteq Dirs
          /\ \A d \in Dirs, p \in Profiles : <<d, p>> \in io.prof <=> d \in io.open /\ io.active[d] = p
        BY DEF IInv, Inv, Good, Drives, Manager
    <1>2. \A d \in io.open : io.active[d] \in Profiles
        BY <1>1 DEF IInv, Inv, Good, Nodes, Manager
    <1>3. ASSUME NEW x \in io.prof PROVE x \in {<<d, io.active[d]>> : d \in io.open}
        <2>1. PICK d \in Dirs, p \in Profiles : x = <<d, p>>
            BY <1>1
        <2> QED
            BY <1>1, <2>1
    <1>4. \A d \in io.open : <<d, io.active[d]>> \in io.prof
        BY <1>1, <1>2
    <1> QED
        BY <1>1, <1>3, <1>4 DEF DrivesWhatItOpened

LEMMA InvNodes == IInv => NoDanglingProfile
    BY DEF IInv, Inv, Good, Nodes, NoDanglingProfile

LEMMA InvProfile == IInv => OneProfile
    <1> SUFFICES ASSUME IInv, calm, NEW d \in Dirs, <<d, HFP>> \in io.prof,
                        <<Out, A2DP>> \in io.prof
                 PROVE  FALSE
        BY DEF OneProfile
    <1>1. d \in io.open /\ io.active[d] = HFP /\ Out \in io.open /\ io.active[Out] = A2DP
        BY DirFacts, ProfileFacts DEF IInv, Inv, Good, Drives
    <1>2. Dirs \subseteq io.open
        BY <1>1, DirFacts, ProfileFacts
    <1> QED
        BY <1>1, <1>2, ProfileFacts DEF IInv, Inv, Good, Quiet

LEMMA InvPending == IInv => RequestPending
    BY DEF IInv, Inv, Good, Quiet, Complete, RequestPending

\* The manager's fields keep their types, and the message pipe is never filled
\* beyond its size by cras_bt_policy_switch_profile.
THEOREM BtTypeCorrect == Spec => []TypeOK
    BY IInvHolds, InvType, PTL

\* An open wrapper's active node is the profile device that open_dev opened, and no
\* profile device is open without its wrapper: close_dev closes what was opened.
THEOREM OpenWrapperDrivesItsProfile == Spec => []DrivesWhatItOpened
    BY IInvHolds, InvDrives, PTL

\* No node of a wrapper points at a profile device that bt_io_manager_remove_iodev's
\* caller has destroyed, and every wrapper has an active node.
THEOREM ProfilesDoNotDangle == Spec => []NoDanglingProfile
    BY IInvHolds, InvNodes, PTL

\* A calm headset never has A2DP and HFP open together, in whatever order open_dev,
\* the messages and the timer come.
THEOREM NeverBothProfiles == Spec => []OneProfile
    BY IInvHolds, InvProfile, PTL

\* For a calm headset is_profile_switching is set only while a message that clears
\* it is in the pipe: the wrappers are not barred from opening for ever.
THEOREM SwitchIsPending == Spec => []RequestPending
    BY IInvHolds, InvPending, PTL
=============================================================================
