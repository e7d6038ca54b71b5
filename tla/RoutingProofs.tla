---------------------------- MODULE RoutingProofs ----------------------------
(***************************************************************************)
(* Proofs about the router of IodevList in behaviours without faults: when *)
(* devices open and take their streams (FaultFree), every normal stream is *)
(* served, whatever the devices and the streams do, the two handlers that  *)
(* CalmNext names excepted.                                                *)
(*                                                                         *)
(* The invariant of IodevListProofs (Good) is about what is attached where *)
(* and says nothing about what is missing.  Calm adds                      *)
(*   - Steady: no direction is without an enabled device, groups are       *)
(*     enabled as a whole, nodes are on, and what is open has a reason;    *)
(*   - Served(V, X): every enabled device outside of X plays the normal    *)
(*     streams of V.  A handler disables, closes and opens devices one     *)
(*     after the other; X holds those it has not filled yet, and the       *)
(*     handler ends with X empty.  V is the whole list but in resume_devs, *)
(*     which connects the streams one by one;                              *)
(*   - Unidle: no device is idle while a normal stream plays to it, which  *)
(*     Served needs when idle_dev_check closes the idle devices;           *)
(*   - Apart: a device that is in use is listed, so that suspend_devs      *)
(*     finds the device a stream is pinned to and takes the stream off.    *)
(* One lemma per function of cras_iodev_list.c says what it does to Calm,  *)
(* one per handler that Calm is back at its end.                           *)
(***************************************************************************)
EXTENDS IodevListProofs

-----------------------------------------------------------------------------
(* The invariant.                                                          *)

\* What is enabled and open: groups are enabled as a whole, every direction has an
\* enabled device, the nodes of enabled and open devices are on, and a device that
\* is not enabled is open for its pinned streams only, unless set_aec_ref opened it.
NoPinnedEcho == \A s \in ApmStreams : ~Pinned(s)

Steady(l) ==
    /\ l.retry = {} /\ l.thr = l.open
    /\ \A d \in l.enabled : Group[d] \subseteq l.enabled
    /\ \A dir \in Directions : \E d \in l.enabled : Dir[d] = dir
    /\ \A d \in l.open \cup l.enabled : d \in Fallbacks \/ d \in l.nodeOn
    /\ \A d \in l.nodeOn : Group[d] \subseteq l.nodeOn
    /\ \A d \in l.open : d \in Fallbacks => d \in l.enabled
    /\ NoPinnedEcho => \A d \in l.open : d \in l.enabled \/ l.pins[d] > 0
    /\ l.suspended => l.enabled \cap l.open = {}

\* Device d is one to play normal stream s.
Wants(d, s) == ~Pinned(s) /\ Dir[s] = Dir[d] /\ s \in Attachable[d]

\* Every enabled device, those of X excepted, plays the normal streams of V.
Served(l, V, X) ==
    ~l.suspended => \A d \in l.enabled \ X : \A s \in V : Wants(d, s) => s \in l.att[d]

\* No idle device plays a normal stream of L it is meant for.
Unidle(l, L) ==
    \A d \in l.idle : \A s \in l.att[d] \cap L : Pinned(s) \/ s \notin Attachable[d]

\* The devices of a group are listed together, those in use are listed, and
\* suspending takes the listed streams off all devices but the other members of a
\* pinned stream's group.
Apart(l, L) ==
    /\ \A d \in l.devs : Group[d] \subseteq l.devs
    /\ \A d \in l.enabled \cup l.open : d \in Fallbacks \/ d \in l.devs
    /\ l.suspended => \A d \in Devs : \A s \in l.att[d] \cap L :
          Pinned(s) /\ d \in Group[PinnedTo[s]] \ {PinnedTo[s]}

\* The invariant of the router, for the listed streams L among all streams A.
Calm(l, L, A, V, X) ==
    Good(l, L, A) /\ Steady(l) /\ Served(l, V, X) /\ Unidle(l, L) /\ Apart(l, L)

\* The same for the streams of a list.
Ready(l, list, A, V, X) ==
    /\ list \in Seq(Streams) /\ Range(list) \subseteq A /\ V \subseteq Range(list)
    /\ Calm(l, Range(list), A, V, X)

\* States with the same devices in use, up to what is open and attached.
SameUse(m, l) ==
    /\ m.enabled = l.enabled /\ m.pins = l.pins /\ m.nodeOn = l.nodeOn
    /\ m.devs = l.devs /\ m.suspended = l.suspended

\* The choices of a handler when nothing fails.
LEMMA NoFault ==
    ASSUME FaultFree, NEW f \in Faults
    PROVE  f.open = {} /\ f.append = {}
    BY DEF FaultFree, Faults

-----------------------------------------------------------------------------
(* Devices.                                                                *)

\* Closing the devices of D.
LEMMA CloseCalm ==
    ASSUME NEW l, NEW L, NEW A, NEW V, NEW X, Calm(l, L, A, V, X), NEW D \in SUBSET Devs,
           NEW k, k = close_devs(l, D)
    PROVE  /\ Calm(k, L, A, V, X \cup D) /\ SameUse(k, l) /\ k.open = l.open \ D
           /\ \A d \in Devs : k.att[d] = IF d \in D \cap l.open THEN {} ELSE l.att[d]
    <1> DEFINE m == close_devs(l, D)
    <1>1. l \in RouterState /\ Good(l, L, A) /\ Steady(l)
        BY DEF Calm, Good
    <1>2. /\ m.open = l.open \ (D \cap l.open) /\ m.thr = l.thr \ (D \cap l.open)
          /\ m.att = [d \in Devs |-> IF d \in D \cap l.open THEN {} ELSE l.att[d]]
          /\ m.retry = l.retry /\ m.pins = l.pins /\ m.enabled = l.enabled
          /\ m.devs = l.devs /\ m.suspended = l.suspended
        BY <1>1, CloseFields
    <1>3. m.nodeOn = l.nodeOn /\ m.idle = l.idle \ (D \cap l.open)
        BY <1>1 DEF close_devs, RouterState
    <1>4. Good(m, L, A)
        BY <1>1, CloseGood
    <1> HIDE DEF m
    <1>5. Steady(m)
        BY <1>1, <1>2, <1>3 DEF Steady
    <1>6. Served(m, V, X \cup D)
        BY <1>1, <1>2 DEF Calm, Served, RouterState
    <1>7. Unidle(m, L)
        BY <1>1, <1>2, <1>3 DEF Calm, Unidle, RouterState
    <1>8. Apart(m, L)
        BY <1>1, <1>2 DEF Calm, Apart
    <1>9. /\ m.open = l.open \ D
          /\ \A d \in Devs : m.att[d] = IF d \in D \cap l.open THEN {} ELSE l.att[d]
        BY <1>2
    <1> QED
        BY <1>2, <1>3, <1>4, <1>5, <1>6, <1>7, <1>8, <1>9 DEF Calm, SameUse, m

\* The state with another set of nodes that are on.
LEMMA NodeCalm ==
    ASSUME NEW l, NEW L, NEW A, NEW V, NEW X, Calm(l, L, A, V, X), NEW N \in SUBSET Devs,
           \A d \in l.open \cup l.enabled : d \in Fallbacks \/ d \in N,
           \A d \in N : Group[d] \subseteq N, NEW m, m = [l EXCEPT !.nodeOn = N]
    PROVE  /\ Calm(m, L, A, V, X) /\ m.nodeOn = N
           /\ m.open = l.open /\ m.enabled = l.enabled /\ m.pins = l.pins
           /\ m.devs = l.devs /\ m.suspended = l.suspended /\ m.att = l.att
    <1>1. l \in RouterState /\ Good(l, L, A) /\ Steady(l)
        BY DEF Calm, Good
    <1>2. /\ m.nodeOn = N /\ m.idle = l.idle /\ m.retry = l.retry
          /\ m.open = l.open /\ m.enabled = l.enabled /\ m.pins = l.pins
          /\ m.devs = l.devs /\ m.suspended = l.suspended /\ m.att = l.att /\ m.thr = l.thr
        BY <1>1 DEF RouterState
    <1>3. Good(m, L, A)
        BY <1>1, NodeGood
    <1>4. Steady(m)
        BY <1>1, <1>2 DEF Steady
    <1>5. Served(m, V, X) /\ Unidle(m, L) /\ Apart(m, L)
        BY <1>2 DEF Calm, Served, Unidle, Apart
    <1> QED
        BY <1>2, <1>3, <1>4, <1>5 DEF Calm

\* State m after the node of the group of d was switched.
SwitchedOn(m, l, d) == m = SwitchNode(l, d, TRUE)
SwitchedOff(m, l, d) == m = SwitchNode(l, d, FALSE)

\* No device of the group of d is open or enabled.
NotInUse(l, d) == Group[d] \cap (l.open \cup l.enabled) = {}

\* The node of a group is switched on.
LEMMA SwitchOnCalm ==
    ASSUME NEW l, NEW L, NEW A, NEW V, NEW X, Calm(l, L, A, V, X), NEW d \in Devs,
           NEW m, SwitchedOn(m, l, d)
    PROVE  /\ Calm(m, L, A, V, X) /\ Group[d] \subseteq m.nodeOn
           /\ m.open = l.open /\ m.enabled = l.enabled /\ m.pins = l.pins
           /\ m.devs = l.devs /\ m.suspended = l.suspended /\ m.att = l.att
    <1> DEFINE N == l.nodeOn \cup Group[d]
    <1>1. l \in RouterState /\ Steady(l)
        BY DEF Calm, Good
    <1>2. m = [l EXCEPT !.nodeOn = N]
        BY DEF SwitchNode, SwitchedOn
    <1>3. N \in SUBSET Devs
        BY <1>1, GroupFacts DEF RouterState
    <1>4. \A e \in N : Group[e] \subseteq N
        BY <1>1, GroupFacts DEF Steady
    <1>5. \A e \in l.open \cup l.enabled : e \in Fallbacks \/ e \in N
        BY <1>1 DEF Steady
    <1>6. Group[d] \subseteq N
        OBVIOUS
    <1> HIDE DEF N
    <1> QED
        BY <1>2, <1>3, <1>4, <1>5, <1>6, NodeCalm

\* The node of a group that is not in use is switched off.
LEMMA SwitchOffCalm ==
    ASSUME NEW l, NEW L, NEW A, NEW V, NEW X, Calm(l, L, A, V, X), NEW d \in Devs,
           NotInUse(l, d), NEW m, SwitchedOff(m, l, d)
    PROVE  /\ Calm(m, L, A, V, X)
           /\ m.open = l.open /\ m.enabled = l.enabled /\ m.pins = l.pins
           /\ m.devs = l.devs /\ m.suspended = l.suspended /\ m.att = l.att
    <1> DEFINE N == l.nodeOn \ Group[d]
    <1>1. l \in RouterState /\ Steady(l)
        BY DEF Calm, Good
    <1>2. m = [l EXCEPT !.nodeOn = N]
        BY DEF SwitchNode, SwitchedOff
    <1>3. N \in SUBSET Devs
        BY <1>1 DEF RouterState
    <1>4. ASSUME NEW e \in N PROVE Group[e] \subseteq N
        <2>1. e \in Devs /\ e \in l.nodeOn /\ e \notin Group[d]
            BY <1>3
        <2>2. \A g \in Group[e] : g \notin Group[d]
            BY <2>1, GroupFacts
        <2> QED
            BY <1>1, <2>1, <2>2 DEF Steady
    <1>5. \A e \in l.open \cup l.enabled : e \in Fallbacks \/ e \in N
        BY <1>1 DEF Steady, NotInUse
    <1> HIDE DEF N
    <1> QED
        BY <1>2, <1>3, <1>4, <1>5, NodeCalm

\* Opening enabled devices.
LEMMA InitCalm ==
    ASSUME FaultFree, NEW l, NEW L, NEW A, NEW V, NEW X, Calm(l, L, A, V, X), ~l.suspended,
           NEW D \in SUBSET l.enabled, NEW fmt \in FormatOf(D), NEW f \in Faults
    PROVE  LET m == init_devices(l, D, fmt, f)
           IN /\ Calm(m, L, A, V, X) /\ init_failed(l, D, f) = {}
              /\ m.open = l.open \cup D /\ m.thr = m.open /\ m.idle = l.idle \ D
              /\ m.enabled = l.enabled /\ m.pins = l.pins /\ m.nodeOn = l.nodeOn
              /\ m.devs = l.devs /\ m.suspended = l.suspended /\ m.att = l.att
    <1> DEFINE m == init_devices(l, D, fmt, f)
    <1>1. l \in RouterState /\ Good(l, L, A) /\ Steady(l) /\ D \in SUBSET Devs
        BY DEF Calm, Good, RouterState
    <1>2. f.open = {}
        BY NoFault
    <1>3. /\ m.open = l.open \cup ((D \ l.open) \ f.open)
          /\ m.thr = l.thr \cup ((D \ l.open) \ f.open)
          /\ m.att = l.att /\ m.retry = l.retry \ (D \ l.open)
          /\ m.pins = l.pins /\ m.enabled = l.enabled
          /\ m.devs = l.devs /\ m.suspended = l.suspended
        BY <1>1, InitFields
    <1>4. m.nodeOn = l.nodeOn /\ m.idle = l.idle \ D
        BY <1>1 DEF init_devices, RouterState
    <1>5. Good(m, L, A) /\ init_failed(l, D, f) = {}
        BY <1>1, <1>2, InitGood DEF init_failed
    <1> HIDE DEF m
    <1>6. m.open = l.open \cup D /\ m.thr = l.thr \cup (D \ l.open) /\ m.retry = {}
        BY <1>1, <1>2, <1>3 DEF Steady
    <1>7. Steady(m)
        BY <1>1, <1>3, <1>4, <1>6 DEF Steady
    <1>8. Served(m, V, X) /\ Unidle(m, L)
        BY <1>1, <1>3, <1>4 DEF Calm, Served, Unidle
    <1>9. Apart(m, L)
        BY <1>1, <1>3, <1>6 DEF Calm, Apart
    <1> QED
        BY <1>3, <1>4, <1>5, <1>6, <1>7, <1>8, <1>9 DEF Calm, Steady, m

-----------------------------------------------------------------------------
(* Attaching streams.                                                      *)

\* Two states that differ in the attached streams only.
OnlyAtt(m, l) ==
    /\ m.open = l.open /\ m.thr = l.thr /\ m.retry = l.retry /\ m.pins = l.pins
    /\ m.enabled = l.enabled /\ m.devs = l.devs /\ m.suspended = l.suspended
    /\ m.idle = l.idle /\ m.nodeOn = l.nodeOn

\* Attaching streams leaves the devices as they are.
LEMMA OnlyAttSteady ==
    ASSUME NEW l, NEW m, Steady(l), OnlyAtt(m, l)
    PROVE  Steady(m)
    BY DEF Steady, OnlyAtt

\* Replacing att changes nothing else.
LEMMA AttOnly ==
    ASSUME NEW l \in RouterState, NEW a \in [Devs -> SUBSET Streams]
    PROVE  OnlyAtt([l EXCEPT !.att = a], l)
    BY DEF OnlyAtt, RouterState

\* State m is l with s attached to the open devices of D.
Gets(m, l, s, D) ==
    /\ OnlyAtt(m, l)
    /\ \A d \in Devs : m.att[d] = IF d \in D \cap l.open THEN l.att[d] \cup {s} ELSE l.att[d]

\* Attaching one stream to the devices of D, which are not idle if they are to play
\* it.
LEMMA AddCalm ==
    ASSUME FaultFree, NEW l, NEW L, NEW A, NEW V, NEW X, Calm(l, L, A, V, X),
           NEW s \in Streams, s \in A, NEW D \in SUBSET Devs, NEW f \in Faults,
           l.suspended => D \cap l.open = {},
           \A d \in D : Belongs(l, d, s), ~Pinned(s),
           \A d \in D : Pinned(s) \/ s \notin Attachable[d] \/ d \notin l.idle,
           NEW m, m = add_stream(l, s, D, f)
    PROVE  Calm(m, L, A, V, X) /\ ~append_fails(l, s, D, f) /\ Gets(m, l, s, D)
    <1>1. l \in RouterState /\ Good(l, L, A) /\ Steady(l)
        BY DEF Calm, Good
    <1>2. ~append_fails(l, s, D, f)
        BY NoFault DEF append_fails, Refuses
    <1>3. /\ SameButAtt(m, l)
          /\ m.att = [d \in Devs |->
                        IF append_fails(l, s, D, f) THEN l.att[d] \ {s}
                        ELSE IF d \in D \cap l.thr THEN l.att[d] \cup {s} ELSE l.att[d]]
        BY <1>1, AddFields
    <1>4. Good(m, L, A)
        BY <1>1, AddGood
    <1>5. m.idle = l.idle /\ m.nodeOn = l.nodeOn
        BY <1>1 DEF add_stream, RouterState
    <1>6. OnlyAtt(m, l)
        BY <1>3, <1>5 DEF OnlyAtt, SameButAtt
    <1>7. \A d \in Devs : m.att[d] = IF d \in D \cap l.open THEN l.att[d] \cup {s} ELSE l.att[d]
        BY <1>1, <1>2, <1>3 DEF Steady
    <1>8. Steady(m)
        BY <1>1, <1>6, OnlyAttSteady
    <1>9. Served(m, V, X)
        BY <1>1, <1>6, <1>7 DEF Calm, Served, OnlyAtt, RouterState
    <1>10. Unidle(m, L)
        <2> SUFFICES ASSUME NEW d \in l.idle, NEW t \in m.att[d] \cap L
                     PROVE  Pinned(t) \/ t \notin Attachable[d]
            BY <1>6 DEF Unidle, OnlyAtt
        <2>1. d \in Devs
            BY <1>1 DEF RouterState
        <2>2. t \in l.att[d] \/ (d \in D /\ t = s)
            BY <1>7, <2>1
        <2> QED
            BY <2>2 DEF Calm, Unidle
    <1>11. Apart(m, L)
        <2>1. \A d \in Devs : \A t \in m.att[d] \cap L : t \in l.att[d] \/ ~Pinned(t)
            BY <1>7
        <2>2. m.suspended => \A d \in Devs : m.att[d] = l.att[d]
            BY <1>6, <1>7 DEF OnlyAtt
        <2> QED
            BY <1>6, <2>1, <2>2 DEF Calm, Apart, OnlyAtt
    <1> QED
        BY <1>2, <1>4, <1>6, <1>7, <1>8, <1>9, <1>10, <1>11 DEF Calm, Gets

\* The streams of the list that belong on d.
Takes(l, list, d) == {list[i] : i \in Attaching(l, list, d)}

\* The state k after they were attached to the devices of D that are open.
Filled(k, l, list, D) ==
    /\ OnlyAtt(k, l)
    /\ \A d \in Devs : k.att[d] = IF d \in D \cap l.thr
                                  THEN l.att[d] \cup Takes(l, list, d) ELSE l.att[d]

\* Without faults a batch attaches all of them.
LEMMA BatchFields ==
    ASSUME FaultFree, NEW l, l \in RouterState, NEW list \in Seq(Streams), NEW D,
           NEW f \in Faults, NEW k, k = attach_batches(l, list, D, f)
    PROVE  Filled(k, l, list, D)
    <1> DEFINE live == D \cap l.thr
               after(d) == UNION {Refused(l, list, e, f) :
                                    e \in {x \in live : d \in D => Pos[x] >= Pos[d]}}
               a == [d \in Devs |-> (IF d \in live THEN l.att[d] \cup Appended(l, list, d, f)
                                     ELSE l.att[d]) \ after(d)]
               m == [l EXCEPT !.att = a]
    <1>1. \A d, s : ~Refuses(l, d, s, f)
        BY NoFault DEF Refuses
    <1>2. \A d : Refused(l, list, d, f) = {}
        BY <1>1 DEF Refused
    <1>3. \A d : Appended(l, list, d, f) = Takes(l, list, d)
        BY <1>1 DEF Appended, Takes
    <1>4. \A d : after(d) = {}
        BY <1>2
    <1>5. attach_batches(l, list, D, f) = m
        BY DEF attach_batches
    <1>6. \A d : Takes(l, list, d) \subseteq Streams
        BY DEF Takes, Attaching
    <1> HIDE DEF after
    <1>7. \A d \in Devs : a[d] = IF d \in live THEN l.att[d] \cup Takes(l, list, d) ELSE l.att[d]
        BY <1>3, <1>4
    <1>8. a \in [Devs -> SUBSET Streams]
        <2>1. \A d \in Devs : l.att[d] \subseteq Streams
            BY DEF RouterState
        <2>2. \A d \in Devs : a[d] \in SUBSET Streams
            BY <1>6, <1>7, <2>1
        <2> HIDE DEF live
        <2> QED
            BY <2>2
    <1> HIDE DEF a
    <1>9. m.att = a
        BY DEF RouterState
    <1>10. OnlyAtt(m, l)
        BY <1>8, AttOnly
    <1> HIDE DEF m
    <1> QED
        BY <1>5, <1>7, <1>9, <1>10 DEF Filled

\* Opening and filling enabled devices: what they are to play, they play.
LEMMA InitAttachCalm ==
    ASSUME FaultFree, NEW l, NEW list, NEW A, NEW V, NEW X, Ready(l, list, A, V, X),
           NEW D, D \subseteq l.enabled, NEW f \in Faults,
           NEW k, k = init_and_attach_streams(l, list, D, f)
    PROVE  /\ Ready(k, list, A, V, X \ D) /\ SameUse(k, l)
           /\ attach_failed(l, list, D, f) = {}
    <1> USE DEF Ready
    <1>1. CASE l.suspended
        <2>1. init_and_attach_streams(l, list, D, f) = l /\ attach_failed(l, list, D, f) = {}
            BY <1>1 DEF init_and_attach_streams, attach_failed
        <2>2. Served(l, V, X \ D)
            BY <1>1 DEF Served
        <2> QED
            BY <2>1, <2>2 DEF Calm, SameUse
    <1>2. CASE ~l.suspended
        <2> DEFINE L == Range(list)
                   want == HasStreams(l, list, D)
                   fmt == Formats(l, list, want)
                   l1 == init_devices(l, want, fmt, f)
                   m == attach_batches(l1, list, want, f)
        <2>1. want \in SUBSET D /\ want \in SUBSET l.enabled /\ l.enabled \subseteq Devs
            BY DEF HasStreams, Calm, Good, RouterState
        <2>2. fmt \in FormatOf(want)
            BY FormatsType
        <2>3. /\ Calm(l1, L, A, V, X) /\ init_failed(l, want, f) = {}
              /\ l1.open = l.open \cup want /\ l1.thr = l1.open /\ l1.idle = l.idle \ want
              /\ l1.enabled = l.enabled /\ l1.pins = l.pins /\ l1.nodeOn = l.nodeOn
              /\ l1.devs = l.devs /\ l1.suspended = l.suspended /\ l1.att = l.att
            <3> HIDE DEF want, fmt, L
            <3> QED
                BY <1>2, <2>1, <2>2, InitCalm DEF L
        <2>4. init_and_attach_streams(l, list, D, f) = m /\ attach_failed(l, list, D, f) = {}
            BY <1>2, <2>3 DEF init_and_attach_streams, attach_failed
        <2> HIDE DEF l1, fmt
        <2>5. \A d : Takes(l1, list, d) = Takes(l, list, d)
            BY <2>3 DEF Takes, Attaching, MayAttach
        <2>6. l1 \in RouterState /\ Good(l1, L, A) /\ Steady(l1)
            BY <2>3 DEF Calm, Good
        <2>7. /\ OnlyAtt(m, l1)
              /\ \A d \in Devs : m.att[d] = IF d \in want THEN l.att[d] \cup Takes(l, list, d)
                                            ELSE l.att[d]
            <3>1. Filled(m, l1, list, want)
                <4>1. m = attach_batches(l1, list, want, f)
                    OBVIOUS
                <4> HIDE DEF m, want
                <4> QED
                    BY <2>6, <4>1, BatchFields
            <3> HIDE DEF m, want
            <3> QED
                BY <2>3, <2>5, <3>1 DEF Filled
        <2>8. Good(m, L, A)
            BY <2>6, AttachGood
        <2> HIDE DEF m, L, want
        <2>9. Steady(m)
            BY <2>6, <2>7, OnlyAttSteady
        <2>10. \A d \in D : \A s \in V : Wants(d, s) => s \in Takes(l, list, d) /\ d \in want
            <3> SUFFICES ASSUME NEW d \in D, NEW s \in V, Wants(d, s)
                         PROVE  s \in Takes(l, list, d) /\ d \in want
                OBVIOUS
            <3>1. PICK i \in DOMAIN list : list[i] = s
                BY DEF Range
            <3>2. MayAttach(l, d, list[i])
                BY <3>1 DEF MayAttach, Wants
            <3>3. i \in Attaching(l, list, d)
                BY <3>2 DEF Attaching
            <3> QED
                BY <3>1, <3>3 DEF Takes, want, HasStreams
        <2>11. Served(m, V, X \ D)
            <3> SUFFICES ASSUME NEW d \in l.enabled \ (X \ D), NEW s \in V, Wants(d, s)
                         PROVE  s \in m.att[d]
                BY <2>3, <2>7 DEF Served, OnlyAtt
            <3>1. d \in Devs
                BY <2>1
            <3>2. CASE d \in D
                BY <3>1, <3>2, <2>7, <2>10
            <3>3. CASE d \notin X
                BY <3>1, <3>3, <2>7, <1>2 DEF Calm, Served
            <3> QED
                BY <3>2, <3>3
        <2>12. Unidle(m, L)
            BY <2>3, <2>6, <2>7 DEF Calm, Unidle, OnlyAtt, RouterState
        <2>13. Apart(m, L)
            BY <1>2, <2>3, <2>6, <2>7 DEF Calm, Apart, OnlyAtt
        <2> QED
            BY <2>3, <2>4, <2>7, <2>8, <2>9, <2>11, <2>12, <2>13 DEF Calm, OnlyAtt, L, SameUse
    <1> QED
        BY <1>1, <1>2

-----------------------------------------------------------------------------
(* Enabling and disabling.                                                 *)

\* Serving more than is asked for.
LEMMA CalmWeaker ==
    ASSUME NEW l, NEW L, NEW A, NEW V, NEW X, Calm(l, L, A, V, X),
           NEW W \in SUBSET V, NEW Y, X \cap l.enabled \subseteq Y
    PROVE  Calm(l, L, A, W, Y)
    BY DEF Calm, Served

\* Nothing is scheduled where nothing failed.
LEMMA NoRetry ==
    ASSUME NEW l \in RouterState
    PROVE  schedule_init_device_retry(l, {}) = l
    BY DEF schedule_init_device_retry, RouterState

\* What the devices of D need before they are enabled.
MayEnable(l, D) ==
    /\ D \subseteq Devs /\ (D \ l.enabled) \cap l.open = {}
    /\ \A d \in D : Group[d] \subseteq D
    /\ \A d \in D : d \in Fallbacks \/ d \in l.nodeOn
    /\ \A d \in D : d \in Fallbacks \/ d \in l.devs

\* Enabling devices that are closed: they do not play anything yet.
LEMMA EnableMoreCalm ==
    ASSUME NEW l, NEW L, NEW A, NEW V, NEW X, Calm(l, L, A, V, X), NEW D, MayEnable(l, D),
           NEW m, m = [l EXCEPT !.enabled = @ \cup (D \ l.enabled)]
    PROVE  /\ Calm(m, L, A, V, X \cup (D \ l.enabled)) /\ m.enabled = l.enabled \cup D
           /\ m.pins = l.pins /\ m.nodeOn = l.nodeOn
           /\ m.devs = l.devs /\ m.suspended = l.suspended
    <1>1. l \in RouterState /\ Good(l, L, A) /\ Steady(l) /\ D \in SUBSET Devs
        BY DEF Calm, Good, MayEnable
    <1>2. /\ m.open = l.open /\ m.thr = l.thr /\ m.retry = l.retry /\ m.pins = l.pins
          /\ m.devs = l.devs /\ m.suspended = l.suspended /\ m.att = l.att
          /\ m.idle = l.idle /\ m.nodeOn = l.nodeOn /\ m.enabled = l.enabled \cup D
        BY <1>1 DEF RouterState
    <1>3. Good(m, L, A)
        <2> DEFINE new == D \ l.enabled
        <2>1. new \in SUBSET Devs /\ m = [l EXCEPT !.enabled = @ \cup new]
            BY <1>1
        <2> HIDE DEF new
        <2> QED
            BY <1>1, <2>1, EnableMoreGood
    <1>4. Steady(m)
        BY <1>1, <1>2 DEF Steady, MayEnable
    <1>5. Served(m, V, X \cup (D \ l.enabled))
        BY <1>2 DEF Calm, Served
    <1>6. Unidle(m, L)
        BY <1>2 DEF Calm, Unidle
    <1>7. Apart(m, L)
        BY <1>1, <1>2 DEF Calm, Apart, MayEnable
    <1> QED
        BY <1>2, <1>3, <1>4, <1>5, <1>6, <1>7 DEF Calm

\* enable_device for the devices of D: they play all streams they are to play.
LEMMA EnableCalm ==
    ASSUME FaultFree, NEW l, NEW list, NEW A, NEW V, NEW X, Ready(l, list, A, V, X),
           NEW D, MayEnable(l, D), NEW f \in Faults,
           NEW m, m = enable_devices(l, list, D, f)
    PROVE  /\ Ready(m, list, A, V, X) /\ m.enabled = l.enabled \cup D
           /\ m.pins = l.pins /\ m.nodeOn = l.nodeOn
           /\ m.devs = l.devs /\ m.suspended = l.suspended
    <1> DEFINE new == D \ l.enabled
               Y == X \cup new
               l1 == [l EXCEPT !.enabled = @ \cup new]
               l2 == init_and_attach_streams(l1, list, new, f)
    <1>1. /\ m = schedule_init_device_retry(l2, attach_failed(l1, list, new, f))
          /\ l1 = [l EXCEPT !.enabled = @ \cup (D \ l.enabled)]
          /\ l2 = init_and_attach_streams(l1, list, new, f)
        BY DEF enable_devices
    <1> HIDE DEF l1, l2
    <1>2. /\ Ready(l1, list, A, V, Y) /\ l1.enabled = l.enabled \cup D
          /\ l1.pins = l.pins /\ l1.nodeOn = l.nodeOn
          /\ l1.devs = l.devs /\ l1.suspended = l.suspended
        <2> DEFINE L == Range(list)
        <2>1. Calm(l, L, A, V, X)
            BY DEF Ready
        <2> HIDE DEF L
        <2>2. /\ Calm(l1, L, A, V, Y) /\ l1.enabled = l.enabled \cup D
              /\ l1.pins = l.pins /\ l1.nodeOn = l.nodeOn
              /\ l1.devs = l.devs /\ l1.suspended = l.suspended
            BY <1>1, <2>1, EnableMoreCalm
        <2> QED
            BY <2>2 DEF Ready, L
    <1>3. new \subseteq l1.enabled
        BY <1>2
    <1>4. Y \ new \subseteq X
        OBVIOUS
    <1> HIDE DEF new, Y
    <1>5. Ready(l2, list, A, V, Y \ new) /\ SameUse(l2, l1) /\ attach_failed(l1, list, new, f) = {}
        <2>1. l2 = init_and_attach_streams(l1, list, new, f)
            BY <1>1
        <2>2. Ready(l1, list, A, V, Y)
            BY <1>2
        <2> QED
            BY <1>3, <2>1, <2>2, InitAttachCalm
    <1>6. m = l2
        <2>1. l2 \in RouterState
            BY <1>5 DEF Ready, Calm, Good
        <2> QED
            BY <1>1, <1>5, <2>1, NoRetry
    <1>7. Ready(l2, list, A, V, X)
        BY <1>4, <1>5, CalmWeaker DEF Ready
    <1> QED
        BY <1>2, <1>5, <1>6, <1>7 DEF SameUse

\* D are whole groups, and each direction keeps a device without them.
MayDisable(l, D) ==
    /\ D \subseteq l.enabled /\ \A d \in D : Group[d] \subseteq D
    /\ \A dir \in Directions : \E d \in l.enabled \ D : Dir[d] = dir

\* Disabling them.
LEMMA DisableCalm ==
    ASSUME NEW l, NEW list, NEW A, NEW V, NEW X, Calm(l, Range(list), A, V, X),
           NEW D, MayDisable(l, D), NEW force \in BOOLEAN,
           NEW m, m = disable_devices(l, list, D, force)
    PROVE  /\ Calm(m, Range(list), A, V, X) /\ m.enabled = l.enabled \ D
           /\ m.pins = l.pins /\ m.devs = l.devs /\ m.suspended = l.suspended
    <1> DEFINE L == Range(list)
               keep == IF force THEN {} ELSE {d \in D : l.pins[d] > 0}
               normal == {s \in L : ~Pinned(s)}
               a == [d \in Devs |-> IF d \in keep THEN l.att[d] \ normal ELSE l.att[d]]
               r == IF force THEN l.retry \ D ELSE l.retry
               E == l.enabled \ D
               l1 == [l EXCEPT !.enabled = E, !.retry = r, !.att = a]
               l2 == close_devs(l1, D \ keep)
               C == (D \ keep) \cap l1.open
               N == l2.nodeOn \ UNION {Group[d] : d \in {x \in D \ keep : Group[x] \cap l2.open = {}}}
    <1>1. l \in RouterState /\ Good(l, L, A) /\ Steady(l) /\ D \in SUBSET Devs
        BY DEF Calm, Good, RouterState, MayDisable
    <1>2. m = [l2 EXCEPT !.nodeOn = N]
        BY DEF disable_devices
    <1>3. Good(m, L, A)
        BY <1>1, DisableGood
    <1>4. a \in [Devs -> SUBSET Streams] /\ E \in SUBSET Devs /\ r \in SUBSET (Devs \ Fallbacks)
        BY <1>1 DEF RouterState
    <1>5. r = {} /\ keep \subseteq D
        BY <1>1 DEF Steady
    <1> HIDE DEF a, E, r
    <1>6. /\ l1 \in RouterState
          /\ l1.open = l.open /\ l1.thr = l.thr /\ l1.retry = {} /\ l1.pins = l.pins
          /\ l1.devs = l.devs /\ l1.suspended = l.suspended /\ l1.att = a
          /\ l1.idle = l.idle /\ l1.nodeOn = l.nodeOn /\ l1.enabled = E
        BY <1>1, <1>4, <1>5 DEF RouterState
    <1> HIDE DEF l1, keep
    <1>7. /\ l2 \in RouterState
          /\ l2.open = l1.open \ C /\ l2.thr = l1.thr \ C
          /\ l2.att = [d \in Devs |-> IF d \in C THEN {} ELSE l1.att[d]]
          /\ l2.retry = l1.retry /\ l2.pins = l1.pins /\ l2.enabled = l1.enabled
          /\ l2.devs = l1.devs /\ l2.suspended = l1.suspended
        BY <1>1, <1>6, CloseFields
    <1>8. l2.idle = l1.idle \ C /\ l2.nodeOn = l1.nodeOn
        BY <1>6 DEF close_devs, RouterState
    <1> HIDE DEF l2
    <1>9. /\ m.open = l2.open /\ m.thr = l2.thr /\ m.retry = l2.retry /\ m.pins = l2.pins
          /\ m.devs = l2.devs /\ m.suspended = l2.suspended /\ m.att = l2.att
          /\ m.idle = l2.idle /\ m.nodeOn = N /\ m.enabled = l2.enabled
        BY <1>2, <1>7 DEF RouterState
    <1>10. /\ m.open = l.open \ (D \ keep) /\ m.thr = m.open /\ m.retry = {}
           /\ m.pins = l.pins /\ m.enabled = l.enabled \ D
           /\ m.devs = l.devs /\ m.suspended = l.suspended /\ m.idle \subseteq l.idle
        BY <1>1, <1>6, <1>7, <1>8, <1>9 DEF Steady, E
    <1>11. \A d \in Devs : /\ m.att[d] \subseteq l.att[d]
                           /\ d \notin D => m.att[d] = l.att[d]
        BY <1>5, <1>6, <1>7, <1>9 DEF a
    <1>12. /\ \A d \in m.open \cup m.enabled : d \in Fallbacks \/ d \in m.nodeOn
           /\ \A d \in m.nodeOn : Group[d] \subseteq m.nodeOn
        <2> DEFINE off == {x \in D \ keep : Group[x] \cap m.open = {}}
        <2>1. m.nodeOn = l.nodeOn \ UNION {Group[d] : d \in off}
            BY <1>6, <1>8, <1>9
        <2>2. \A x \in off : x \in Devs /\ Group[x] \subseteq D /\ Group[x] \cap m.open = {}
            BY <1>1 DEF MayDisable
        <2> HIDE DEF off
        <2>3. \A d \in m.open \cup m.enabled : \A x \in off : d \notin Group[x]
            BY <1>10, <2>2
        <2>4. \A d \in m.open \cup m.enabled : d \in Fallbacks \/ d \in m.nodeOn
            BY <1>1, <1>10, <2>1, <2>3 DEF Steady
        <2>5. ASSUME NEW d \in m.nodeOn, NEW e \in Group[d]
              PROVE  e \in m.nodeOn
            <3>1. d \in l.nodeOn /\ d \in Devs /\ \A x \in off : d \notin Group[x]
                BY <1>1, <2>1 DEF RouterState
            <3>2. e \in l.nodeOn /\ e \in Devs /\ d \in Group[e]
                BY <3>1, <1>1, GroupFacts DEF Steady
            <3>3. \A x \in off : e \notin Group[x]
                BY <3>1, <3>2, <2>2, GroupFacts
            <3> QED
                BY <2>1, <3>2, <3>3
        <2> QED
            BY <2>4, <2>5
    <1>13. /\ \A d \in m.open : d \in Fallbacks => d \in m.enabled
           /\ NoPinnedEcho => \A d \in m.open : d \in m.enabled \/ m.pins[d] > 0
        <2>1. \A d \in keep : l.pins[d] > 0
            BY DEF keep
        <2>2. \A d \in keep : d \notin Fallbacks
            BY <1>1, <2>1 DEF Good
        <2> QED
            BY <1>1, <1>10, <2>1, <2>2 DEF Steady
    <1>14. \A d \in m.enabled : Group[d] \subseteq m.enabled
        <2> SUFFICES ASSUME NEW d \in m.enabled, NEW e \in Group[d], e \in D
                     PROVE  FALSE
            BY <1>1, <1>10 DEF Steady
        <2>1. d \in Devs /\ d \in Group[e]
            BY <1>1, <1>10, GroupFacts DEF RouterState
        <2> QED
            BY <2>1, <1>10 DEF MayDisable
    <1>15. Steady(m)
        BY <1>1, <1>10, <1>12, <1>13, <1>14 DEF Steady, MayDisable
    <1>16. Served(m, V, X)
        BY <1>1, <1>10, <1>11 DEF Calm, Served, RouterState
    <1>17. Unidle(m, L)
        BY <1>1, <1>10, <1>11 DEF Calm, Unidle, RouterState
    <1>18. Apart(m, L)
        BY <1>10, <1>11 DEF Calm, Apart
    <1> QED
        BY <1>3, <1>10, <1>15, <1>16, <1>17, <1>18 DEF Calm

\* What Ready says of the state alone.
LEMMA ReadyFacts ==
    ASSUME NEW l, NEW list, NEW A, NEW V, NEW X, Ready(l, list, A, V, X)
    PROVE  /\ l \in RouterState /\ Good(l, Range(list), A) /\ Steady(l)
           /\ Calm(l, Range(list), A, V, X)
           /\ l.enabled \subseteq Devs /\ l.open \subseteq Devs
    BY DEF Ready, Calm, Good, RouterState

\* Excepting more devices.
LEMMA ReadyWeaker ==
    ASSUME NEW l, NEW list, NEW A, NEW V, NEW X, Ready(l, list, A, V, X),
           NEW Y, X \cap l.enabled \subseteq Y
    PROVE  Ready(l, list, A, V, Y)
    BY CalmWeaker DEF Ready

\* The fallback device is disabled when there is another one.
LEMMA NoFallbackCalm ==
    ASSUME NEW l, NEW list, NEW A, NEW V, NEW X, Ready(l, list, A, V, X),
           NEW dir \in Directions, \E d \in l.enabled \ Fallbacks : Dir[d] = dir,
           NEW m, m = possibly_disable_fallback(l, list, dir)
    PROVE  /\ Ready(m, list, A, V, X) /\ m.enabled = l.enabled \ {Fallback[dir]}
           /\ m.pins = l.pins /\ m.devs = l.devs /\ m.suspended = l.suspended
    <1> DEFINE D == {Fallback[dir]} \cap l.enabled
               L == Range(list)
    <1>1. m = disable_devices(l, list, D, FALSE)
        BY DEF possibly_disable_fallback
    <1>2. D \in SUBSET l.enabled
        OBVIOUS
    <1>3. \A d \in D : Group[d] \subseteq D
        BY RouterAssumption DEF Fallbacks
    <1>4. \A e \in Directions : \E d \in l.enabled \ D : Dir[d] = e
        BY ReadyFacts, DirFacts DEF Steady
    <1>5. Calm(l, L, A, V, X)
        BY DEF Ready
    <1>6. l.enabled \ D = l.enabled \ {Fallback[dir]}
        OBVIOUS
    <1> HIDE DEF D
    <1>7. /\ Calm(m, Range(list), A, V, X) /\ m.enabled = l.enabled \ D
          /\ m.pins = l.pins /\ m.devs = l.devs /\ m.suspended = l.suspended
        <2> DEFINE no == FALSE
        <2>1. m = disable_devices(l, list, D, no) /\ no \in BOOLEAN
            BY <1>1
        <2>2. MayDisable(l, D)
            BY <1>2, <1>3, <1>4 DEF MayDisable
        <2> HIDE DEF no
        <2> QED
            BY <1>5, <2>1, <2>2, DisableCalm
    <1> QED
        BY <1>6, <1>7 DEF Ready

\* possibly_enable_fallback leaves the direction with a device that plays.
LEMMA FallbackCalm ==
    ASSUME FaultFree, NEW l, NEW list, NEW A, NEW V, NEW X, Ready(l, list, A, V, X),
           NEW dir \in Directions, NEW f \in Faults,
           NEW m, m = possibly_enable_fallback(l, list, dir, f)
    PROVE  /\ Ready(m, list, A, V, X) /\ m.enabled = l.enabled \cup {Fallback[dir]}
           /\ m.pins = l.pins /\ m.devs = l.devs /\ m.suspended = l.suspended
           /\ m.nodeOn = l.nodeOn
    <1> DEFINE D == {Fallback[dir]} \ l.enabled
    <1>1. m = enable_devices(l, list, D, f)
        BY DEF possibly_enable_fallback
    <1>2. MayEnable(l, D)
        <2>1. D \subseteq Fallbacks /\ D \subseteq Devs
            BY DirFacts
        <2>2. \A d \in D : Group[d] \subseteq D
            BY RouterAssumption DEF Fallbacks
        <2>3. \A d \in D : d \notin l.open
            BY <2>1, ReadyFacts DEF Steady
        <2> HIDE DEF D
        <2> QED
            BY <2>1, <2>2, <2>3 DEF MayEnable
    <1>3. l.enabled \cup D = l.enabled \cup {Fallback[dir]}
        OBVIOUS
    <1> HIDE DEF D
    <1>4. /\ Ready(m, list, A, V, X) /\ m.enabled = l.enabled \cup D
          /\ m.pins = l.pins /\ m.nodeOn = l.nodeOn
          /\ m.devs = l.devs /\ m.suspended = l.suspended
        BY <1>1, <1>2, EnableCalm
    <1> QED
        BY <1>3, <1>4

\* disable_device_group: the fallback device comes first.
LEMMA DisableGroupCalm ==
    ASSUME FaultFree, NEW l, NEW list, NEW A, NEW V, NEW X, Ready(l, list, A, V, X),
           NEW d \in Devs \ Fallbacks, NEW force \in BOOLEAN, NEW f \in Faults,
           NEW m, m = disable_device_group(l, list, d, force, f)
    PROVE  /\ Ready(m, list, A, V, X) /\ m.enabled \cap Group[d] = {}
           /\ m.pins = l.pins /\ m.devs = l.devs /\ m.suspended = l.suspended
    <1> DEFINE last == EnabledIn(l, Dir[d]) \subseteq Group[d]
               fbl == possibly_enable_fallback(l, list, Dir[d], f)
               l1 == IF last THEN fbl ELSE l
               D == l1.enabled \cap Group[d]
    <1>1. m = disable_devices(l1, list, D, force)
        BY DEF disable_device_group
    <1>2. Dir[d] \in Directions /\ Fallback[Dir[d]] \notin Group[d]
        BY DirFacts, GroupFacts
    <1>3. /\ Ready(fbl, list, A, V, X) /\ fbl.enabled = l.enabled \cup {Fallback[Dir[d]]}
          /\ fbl.pins = l.pins /\ fbl.devs = l.devs /\ fbl.suspended = l.suspended
        <2> DEFINE dir == Dir[d]
        <2> HIDE DEF fbl, dir
        <2>1. dir \in Directions /\ fbl = possibly_enable_fallback(l, list, dir, f)
            BY <1>2 DEF fbl, dir
        <2>2. /\ Ready(fbl, list, A, V, X) /\ fbl.enabled = l.enabled \cup {Fallback[dir]}
              /\ fbl.pins = l.pins /\ fbl.devs = l.devs /\ fbl.suspended = l.suspended
            BY <2>1, FallbackCalm
        <2> QED
            BY <2>2 DEF dir
    <1> HIDE DEF fbl
    <1>4. /\ Ready(l1, list, A, V, X) /\ l.enabled \subseteq l1.enabled
          /\ l1.pins = l.pins /\ l1.devs = l.devs /\ l1.suspended = l.suspended
          /\ \E e \in l1.enabled : Dir[e] = Dir[d] /\ e \notin Group[d]
        <2>1. CASE last
            BY <1>2, <1>3, <2>1, DirFacts
        <2>2. CASE ~last
            BY <2>2 DEF EnabledIn
        <2> QED
            BY <2>1, <2>2
    <1> HIDE DEF l1
    <1>5. l1.enabled \subseteq Devs /\ Steady(l1) /\ Calm(l1, Range(list), A, V, X)
        BY <1>4, ReadyFacts
    <1>6. D \in SUBSET l1.enabled
        OBVIOUS
    <1>7. \A e \in D : Group[e] \subseteq D
        BY <1>5, GroupFacts DEF Steady
    <1>8. \A dir \in Directions : \E e \in l1.enabled \ D : Dir[e] = dir
        <2> SUFFICES ASSUME NEW dir \in Directions PROVE \E e \in l1.enabled \ D : Dir[e] = dir
            OBVIOUS
        <2>1. CASE dir = Dir[d]
            BY <1>4, <2>1
        <2>2. CASE dir # Dir[d]
            <3>1. PICK e \in l1.enabled : Dir[e] = dir
                BY <1>5 DEF Steady
            <3>2. e \notin Group[d]
                BY <2>2, <3>1, GroupFacts
            <3> QED
                BY <3>1, <3>2
        <2> QED
            BY <2>1, <2>2
    <1>9. (l1.enabled \ D) \cap Group[d] = {}
        OBVIOUS
    <1> HIDE DEF D
    <1>10. /\ Calm(m, Range(list), A, V, X) /\ m.enabled = l1.enabled \ D
           /\ m.pins = l1.pins /\ m.devs = l1.devs /\ m.suspended = l1.suspended
        <2>1. MayDisable(l1, D)
            BY <1>6, <1>7, <1>8 DEF MayDisable
        <2>2. Calm(l1, Range(list), A, V, X)
            BY <1>5
        <2> QED
            BY <1>1, <2>1, <2>2, DisableCalm
    <1> QED
        BY <1>4, <1>9, <1>10 DEF Ready

\* A group that is disabled and closed is not in use.
LEMMA CloseGroupCalm ==
    ASSUME FaultFree, NEW l, NEW list, NEW A, NEW V, NEW X, Ready(l, list, A, V, X),
           NEW d \in Devs \ Fallbacks, NEW f \in Faults,
           NEW m, m = disable_and_close_dev_group(l, list, d, f)
    PROVE  /\ Ready(m, list, A, V, X) /\ Group[d] \cap (m.enabled \cup m.open) = {}
           /\ m.pins = l.pins /\ m.devs = l.devs /\ m.suspended = l.suspended
    <1> DEFINE l1 == disable_device_group(l, list, d, TRUE, f)
               G == Group[d]
               l2 == close_devs(l1, G)
               L == Range(list)
    <1>1. m = l2 \/ m = SwitchNode(l2, d, FALSE)
        BY DEF disable_and_close_dev_group
    <1>2. /\ Ready(l1, list, A, V, X) /\ l1.enabled \cap Group[d] = {}
          /\ l1.pins = l.pins /\ l1.devs = l.devs /\ l1.suspended = l.suspended
        <2> DEFINE yes == TRUE
        <2>1. l1 = disable_device_group(l, list, d, yes, f) /\ yes \in BOOLEAN
            OBVIOUS
        <2> HIDE DEF l1, yes
        <2> QED
            BY <2>1, DisableGroupCalm
    <1> HIDE DEF l1
    <1>3. Calm(l1, L, A, V, X) /\ G \in SUBSET Devs
        BY <1>2, GroupFacts DEF Ready
    <1> HIDE DEF G, L
    <1>4. /\ Calm(l2, L, A, V, X \cup G)
          /\ l2.open = l1.open \ G /\ l2.enabled = l1.enabled
          /\ l2.devs = l1.devs /\ l2.suspended = l1.suspended /\ l2.pins = l1.pins
        <2>1. l2 = close_devs(l1, G)
            OBVIOUS
        <2> HIDE DEF l2
        <2>2. Calm(l2, L, A, V, X \cup G) /\ SameUse(l2, l1) /\ l2.open = l1.open \ G
            BY <1>3, <2>1, CloseCalm
        <2> QED
            BY <2>2 DEF SameUse
    <1> HIDE DEF l2
    <1>5. (X \cup G) \cap l2.enabled \subseteq X /\ G \cap (l2.open \cup l2.enabled) = {}
        BY <1>2, <1>4 DEF G
    <1>6. Calm(l2, L, A, V, X)
        BY <1>4, <1>5, CalmWeaker
    <1>7. Ready(l2, list, A, V, X)
        BY <1>2, <1>6 DEF Ready, L
    <1>8. CASE m = l2
        BY <1>2, <1>4, <1>5, <1>7, <1>8 DEF G
    <1>9. CASE m = SwitchNode(l2, d, FALSE)
        <2>1. NotInUse(l2, d) /\ SwitchedOff(m, l2, d)
            BY <1>5, <1>9 DEF G, NotInUse, SwitchedOff
        <2>2. /\ Calm(m, L, A, V, X)
              /\ m.open = l2.open /\ m.enabled = l2.enabled /\ m.pins = l2.pins
              /\ m.devs = l2.devs /\ m.suspended = l2.suspended
            BY <1>6, <2>1, SwitchOffCalm
        <2> QED
            BY <1>2, <1>4, <1>5, <2>2 DEF Ready, L, G
    <1> QED
        BY <1>1, <1>8, <1>9

\* Restarting enabled devices: afterwards they are served.
LEMMA RestartCalm ==
    ASSUME FaultFree, NEW l, NEW list, NEW A, NEW V, NEW X, Ready(l, list, A, V, X),
           NEW D, D \subseteq l.enabled, NEW f \in Faults,
           NEW m, m = restart_device_groups(l, list, D, f)
    PROVE  /\ Ready(m, list, A, V, X \ D) /\ m.enabled = l.enabled
           /\ m.pins = l.pins /\ m.devs = l.devs /\ m.suspended = l.suspended
    <1> DEFINE G == UNION {Group[d] : d \in D}
               L == Range(list)
               l0 == close_devs(l, G)
               N == l0.nodeOn \cup G
               l1 == [l0 EXCEPT !.nodeOn = N]
               l2 == init_and_attach_streams(l1, list, G, f)
    <1>1. m = schedule_init_device_retry(l2, attach_failed(l1, list, G, f))
        BY DEF restart_device_groups
    <1>2. /\ Calm(l, L, A, V, X) /\ Steady(l) /\ l.enabled \subseteq Devs
          /\ list \in Seq(Streams) /\ L \subseteq A /\ V \subseteq L
        BY ReadyFacts DEF Ready
    <1>3. G \subseteq l.enabled /\ D \subseteq G /\ G \in SUBSET Devs
        BY <1>2, GroupFacts DEF Steady
    <1>4. \A d \in G : Group[d] \subseteq G
        BY <1>2, GroupFacts
    <1> HIDE DEF G, L
    <1>5. /\ Calm(l0, L, A, V, X \cup G)
          /\ l0.open = l.open \ G /\ l0.enabled = l.enabled /\ l0.nodeOn = l.nodeOn
          /\ l0.devs = l.devs /\ l0.suspended = l.suspended /\ l0.pins = l.pins
        <2>1. l0 = close_devs(l, G)
            OBVIOUS
        <2>2. Calm(l, L, A, V, X) /\ G \in SUBSET Devs
            BY <1>2, <1>3
        <2> HIDE DEF l0
        <2>3. Calm(l0, L, A, V, X \cup G) /\ SameUse(l0, l) /\ l0.open = l.open \ G
            BY <2>1, <2>2, CloseCalm
        <2> QED
            BY <2>3 DEF SameUse
    <1> HIDE DEF l0
    <1>6. /\ N \in SUBSET Devs
          /\ \A d \in l0.open \cup l0.enabled : d \in Fallbacks \/ d \in N
          /\ \A d \in N : Group[d] \subseteq N
        BY <1>3, <1>4, <1>5 DEF Calm, Steady, Good, RouterState
    <1> HIDE DEF N
    <1>7. /\ Calm(l1, L, A, V, X \cup G) /\ l1.enabled = l.enabled /\ l1.pins = l.pins
          /\ l1.devs = l.devs /\ l1.suspended = l.suspended
        <2> DEFINE Y == X \cup G
        <2>1. l1 = [l0 EXCEPT !.nodeOn = N]
            OBVIOUS
        <2>2. Calm(l0, L, A, V, Y)
            BY <1>5
        <2> HIDE DEF l1, Y
        <2>3. /\ Calm(l1, L, A, V, Y)
              /\ l1.open = l0.open /\ l1.enabled = l0.enabled /\ l1.pins = l0.pins
              /\ l1.devs = l0.devs /\ l1.suspended = l0.suspended
            BY <1>6, <2>1, <2>2, NodeCalm
        <2> QED
            BY <1>5, <2>3 DEF Y
    <1> HIDE DEF l1
    <1>8. Ready(l2, list, A, V, (X \cup G) \ G) /\ SameUse(l2, l1) /\ attach_failed(l1, list, G, f) = {}
        <2> DEFINE Y == X \cup G
        <2>1. l2 = init_and_attach_streams(l1, list, G, f)
            OBVIOUS
        <2>2. Ready(l1, list, A, V, Y)
            BY <1>2, <1>7 DEF Ready, L
        <2>3. G \subseteq l1.enabled
            BY <1>3, <1>7
        <2> HIDE DEF Y, l2
        <2>4. Ready(l2, list, A, V, Y \ G) /\ SameUse(l2, l1) /\ attach_failed(l1, list, G, f) = {}
            BY <2>1, <2>2, <2>3, InitAttachCalm
        <2> QED
            BY <2>4 DEF Y
    <1> HIDE DEF l2
    <1>9. m = l2
        <2>1. l2 \in RouterState
            BY <1>8, ReadyFacts
        <2> QED
            BY <1>1, <1>8, <2>1, NoRetry
    <1>10. Ready(m, list, A, V, X \ D)
        <2>1. ((X \cup G) \ G) \cap l2.enabled \subseteq X \ D
            BY <1>3
        <2> QED
            BY <1>8, <1>9, <2>1, ReadyWeaker
    <1> QED
        BY <1>7, <1>8, <1>9, <1>10 DEF SameUse

-----------------------------------------------------------------------------
(* Callbacks of the stream list.                                           *)

\* A pinned stream has a device in its group.
LEMMA PinnedMore ==
    ASSUME NEW s \in Streams, Pinned(s)
    PROVE  /\ PinnedTo[s] \in Devs \ Fallbacks
           /\ PinnedDevs(s) # {} /\ PinnedDevs(s) \subseteq Group[PinnedTo[s]]
           /\ PinnedDevs(s) \subseteq Devs \ Fallbacks
           /\ \A d \in PinnedDevs(s) : Group[d] = Group[PinnedTo[s]] 
           /\ \A l : \A d \in PinnedDevs(s) : Belongs(l, d, s)
    <1>1. /\ PinnedTo[s] \in Devs \ Fallbacks /\ Dir[s] = Dir[PinnedTo[s]]
          /\ PinnedDevs(s) \in SUBSET (Devs \ Fallbacks)
          /\ \A l : \A d \in PinnedDevs(s) : Belongs(l, d, s)
        BY PinnedFacts, RouterAssumption
    <1>2. \E e \in Group[PinnedTo[s]] : s \in Attachable[e]
        BY <1>1, RouterAssumption
    <1>3. \A d \in PinnedDevs(s) : d \in Group[PinnedTo[s]]
        BY DEF PinnedDevs
    <1>4. PinnedDevs(s) # {}
        BY <1>2 DEF PinnedDevs
    <1>5. \A d \in PinnedDevs(s) : Group[d] = Group[PinnedTo[s]] /\ PinnedTo[s] \in Group[d]
        BY <1>1, <1>3, GroupFacts
    <1> QED
        BY <1>1, <1>3, <1>4, <1>5

\* The devices of a pinned stream are opened with their node on.
LEMMA PinnedOpened ==
    ASSUME FaultFree, NEW l, NEW L, NEW A, NEW V, NEW X, Calm(l, L, A, V, X),
           NEW s \in Streams, Pinned(s), NEW f \in Faults,
           NEW q, q = init_pinned_devices(l, PinnedDevs(s), s, f)
    PROVE  /\ q \in RouterState
           /\ q.open = l.open \cup PinnedDevs(s) /\ q.thr = q.open /\ q.att = l.att
           /\ q.retry = {} /\ q.pins = l.pins /\ q.enabled = l.enabled
           /\ q.devs = l.devs /\ q.suspended = l.suspended /\ q.idle \subseteq l.idle
           /\ PinnedDevs(s) \subseteq q.nodeOn /\ l.nodeOn \subseteq q.nodeOn
           /\ \A d \in q.nodeOn : Group[d] \subseteq q.nodeOn
    <1> DEFINE D == PinnedDevs(s)
               fmt == [d \in D |-> Channels[s]]
               stay == D \subseteq l.thr \/ \E d \in D : Group[d] \cap l.open # {}
               sw == SwitchNode(l, PinnedTo[s], TRUE)
               l1 == IF stay THEN l ELSE sw
    <1>1. q = init_devices(l1, D, fmt, f)
        BY DEF init_pinned_devices
    <1>2. /\ PinnedTo[s] \in Devs \ Fallbacks
          /\ D # {} /\ D \subseteq Group[PinnedTo[s]] /\ D \subseteq Devs \ Fallbacks
          /\ \A d \in D : Group[d] = Group[PinnedTo[s]]
        BY PinnedMore
    <1>3. fmt \in FormatOf(D)
        BY OneFormat
    <1> HIDE DEF D, fmt
    <1>4. /\ Calm(sw, L, A, V, X) /\ Group[PinnedTo[s]] \subseteq sw.nodeOn
          /\ sw.open = l.open /\ sw.enabled = l.enabled /\ sw.pins = l.pins
          /\ sw.devs = l.devs /\ sw.suspended = l.suspended /\ sw.att = l.att
        <2> DEFINE t == PinnedTo[s]
        <2>1. SwitchedOn(sw, l, t) /\ t \in Devs
            BY <1>2 DEF SwitchedOn
        <2> HIDE DEF t, sw
        <2>2. /\ Calm(sw, L, A, V, X) /\ Group[t] \subseteq sw.nodeOn
              /\ sw.open = l.open /\ sw.enabled = l.enabled /\ sw.pins = l.pins
              /\ sw.devs = l.devs /\ sw.suspended = l.suspended /\ sw.att = l.att
            BY <2>1, SwitchOnCalm
        <2> QED
            BY <2>2 DEF t
    <1>5. l.nodeOn \subseteq sw.nodeOn /\ sw.idle = l.idle
        BY DEF SwitchNode, Calm, Good, RouterState
    <1> HIDE DEF sw
    <1>6. l \in RouterState /\ Steady(l) /\ Steady(sw) /\ sw \in RouterState
        BY <1>4 DEF Calm, Good
    <1>7. stay => D \subseteq l.nodeOn
        <2>1. CASE D \subseteq l.thr
            BY <1>2, <1>6, <2>1 DEF Steady
        <2>2. CASE \E d \in D : Group[d] \cap l.open # {}
            <3>1. PICK d \in D : Group[d] \cap l.open # {}
                BY <2>2
            <3>2. PICK e \in Group[d] : e \in l.open
                BY <3>1
            <3>3. e \notin Fallbacks /\ Group[e] = Group[d]
                BY <1>2, <3>2, GroupFacts
            <3>4. Group[e] \subseteq l.nodeOn
                BY <1>6, <3>2, <3>3 DEF Steady
            <3> QED
                BY <1>2, <3>3, <3>4
        <2> QED
            BY <2>1, <2>2
    <1>8. /\ l1 \in RouterState /\ l1.open = l.open /\ l1.thr = l.open /\ l1.att = l.att
          /\ l1.retry = {} /\ l1.pins = l.pins /\ l1.enabled = l.enabled
          /\ l1.devs = l.devs /\ l1.suspended = l.suspended /\ l1.idle = l.idle
          /\ D \subseteq l1.nodeOn /\ l.nodeOn \subseteq l1.nodeOn
          /\ \A d \in l1.nodeOn : Group[d] \subseteq l1.nodeOn
        <2>1. CASE stay
            BY <1>6, <1>7, <2>1 DEF Steady
        <2>2. CASE ~stay
            <3>1. l1 = sw
                BY <2>2
            <3> HIDE DEF l1
            <3> QED
                BY <1>2, <1>4, <1>5, <1>6, <3>1 DEF Steady
        <2> QED
            BY <2>1, <2>2
    <1> HIDE DEF l1
    <1>9. /\ q \in RouterState
          /\ q.open = l1.open \cup ((D \ l1.open) \ f.open)
          /\ q.thr = l1.thr \cup ((D \ l1.open) \ f.open)
          /\ q.att = l1.att /\ q.retry = l1.retry \ (D \ l1.open)
          /\ q.pins = l1.pins /\ q.enabled = l1.enabled
          /\ q.devs = l1.devs /\ q.suspended = l1.suspended
        <2>1. D \in SUBSET Devs /\ l1 \in RouterState
            BY <1>2, <1>8
        <2> QED
            BY <1>1, <1>3, <2>1, InitFields
    <1>10. q.nodeOn = l1.nodeOn /\ q.idle = l1.idle \ D
        BY <1>1, <1>8 DEF init_devices, RouterState
    <1>11. f.open = {}
        BY NoFault
    <1> QED
        BY <1>8, <1>9, <1>10, <1>11 DEF D

\* State m is l with pinned stream s running on its devices.
Runs(m, l, s) ==
    /\ m.open = l.open \cup PinnedDevs(s) /\ m.thr = m.open /\ m.retry = {}
    /\ m.enabled = l.enabled /\ m.devs = l.devs /\ m.suspended = l.suspended
    /\ m.idle \subseteq l.idle /\ PinnedDevs(s) \subseteq m.nodeOn /\ l.nodeOn \subseteq m.nodeOn
    /\ \A d \in m.nodeOn : Group[d] \subseteq m.nodeOn
    /\ \A d \in Devs : m.att[d] = IF d \in PinnedDevs(s) THEN l.att[d] \cup {s} ELSE l.att[d]

\* The invariant survives it, but for Good.
LEMMA RunsCalm ==
    ASSUME NEW l, NEW L, NEW A, NEW V, NEW X, Calm(l, L, A, V, X), ~l.suspended,
           NEW s \in Streams, Pinned(s), PinnedTo[s] \in l.devs, NEW m, Runs(m, l, s),
           NoPinnedEcho => \A d \in PinnedDevs(s) : m.pins[d] > 0,
           \A d \in Devs \ PinnedDevs(s) : m.pins[d] = l.pins[d]
    PROVE  Steady(m) /\ Served(m, V, X) /\ Unidle(m, L) /\ Apart(m, L)
    <1>1. l \in RouterState /\ Steady(l)
        BY DEF Calm, Good
    <1>2. PinnedDevs(s) \subseteq Group[PinnedTo[s]] /\ PinnedDevs(s) \subseteq Devs \ Fallbacks
        BY PinnedMore
    <1>3. Steady(m)
        <2>1. ASSUME NoPinnedEcho, NEW d \in m.open PROVE d \in m.enabled \/ m.pins[d] > 0
            <3>1. CASE d \in PinnedDevs(s)
                BY <2>1, <3>1
            <3>2. CASE d \in l.open /\ d \in Devs \ PinnedDevs(s)
                BY <1>1, <2>1, <3>2 DEF Steady, Runs
            <3> QED
                BY <1>1, <3>1, <3>2 DEF Runs, RouterState
        <2>2. \A d \in m.open \cup m.enabled : d \in Fallbacks \/ d \in m.nodeOn
            BY <1>1 DEF Steady, Runs
        <2> QED
            BY <1>1, <1>2, <2>1, <2>2 DEF Steady, Runs
    <1>4. Served(m, V, X)
        BY <1>1 DEF Calm, Served, RouterState, Runs
    <1>5. Unidle(m, L)
        <2> SUFFICES ASSUME NEW d \in m.idle, NEW t \in m.att[d] \cap L
                     PROVE  Pinned(t) \/ t \notin Attachable[d]
            BY DEF Unidle
        <2>1. d \in Devs /\ d \in l.idle
            BY <1>1 DEF RouterState, Runs
        <2>2. t = s \/ t \in l.att[d]
            BY <2>1 DEF Runs
        <2> QED
            BY <2>1, <2>2 DEF Calm, Unidle
    <1>6. Apart(m, L)
        BY <1>2 DEF Calm, Apart, Runs
    <1> QED
        BY <1>3, <1>4, <1>5, <1>6

\* A pinned stream that is added runs on the devices of its group.
LEMMA PinnedAddedCalm ==
    ASSUME FaultFree, NEW l, NEW L, NEW A, NEW V, NEW X, Calm(l, L, A, V, X), ~l.suspended,
           NEW s \in Streams, s \in A, Pinned(s), NEW f \in Faults,
           NEW r, r = pinned_stream_added(l, s, f)
    PROVE  Calm(r.l, L, A, V, X) /\ (r.ok \/ r.l = l)
    <1> DEFINE D == PinnedDevs(s)
               failed == init_failed(l, D, f)
               up == D \ failed
               l0 == init_pinned_devices(l, D, s, f)
               l1 == schedule_init_device_retry(l0, failed)
               added == up # {} /\ ~append_fails(l1, s, up, f)
               counted == failed \cup (IF added THEN up ELSE {})
               la == add_stream(l1, s, up, f)
               p == [d \in Devs |-> IF d \in counted THEN la.pins[d] + 1 ELSE la.pins[d]]
               m == [la EXCEPT !.pins = p]
    <1>1. r = IF PinnedTo[s] \notin l.devs THEN [ok |-> FALSE, l |-> l]
              ELSE [ok |-> counted # {}, l |-> m]
        BY DEF pinned_stream_added
    <1>2. l \in RouterState /\ Good(l, L, A) /\ Steady(l)
        BY DEF Calm, Good
    <1>3. Good(r.l, L, A)
        BY <1>2, PinnedAddedGood
    <1>4. /\ PinnedTo[s] \in Devs \ Fallbacks
          /\ D # {} /\ D \subseteq Group[PinnedTo[s]] /\ D \subseteq Devs \ Fallbacks
          /\ \A d \in D : Group[d] = Group[PinnedTo[s]]
        BY PinnedMore
    <1>5. failed = {} /\ up = D
        BY NoFault DEF init_failed
    <1>6. ~append_fails(l1, s, up, f)
        BY NoFault DEF append_fails, Refuses
    <1>7. counted = D /\ added
        BY <1>4, <1>5, <1>6
    <1>8. /\ l0 \in RouterState
          /\ l0.open = l.open \cup D /\ l0.thr = l0.open /\ l0.att = l.att
          /\ l0.retry = {} /\ l0.pins = l.pins /\ l0.enabled = l.enabled
          /\ l0.devs = l.devs /\ l0.suspended = l.suspended /\ l0.idle \subseteq l.idle
          /\ D \subseteq l0.nodeOn /\ l.nodeOn \subseteq l0.nodeOn
          /\ \A d \in l0.nodeOn : Group[d] \subseteq l0.nodeOn
        <2>1. l0 = init_pinned_devices(l, PinnedDevs(s), s, f)
            OBVIOUS
        <2> HIDE DEF l0
        <2> QED
            BY <2>1, PinnedOpened
    <1> HIDE DEF D, l0, failed
    <1>9. l1 = l0
        BY <1>5, <1>8, NoRetry
    <1> HIDE DEF l1, up
    <1>10. /\ SameButAtt(la, l1)
           /\ la.att = [d \in Devs |->
                        IF append_fails(l1, s, up, f) THEN l1.att[d] \ {s}
                        ELSE IF d \in up \cap l1.thr THEN l1.att[d] \cup {s} ELSE l1.att[d]]
        BY <1>8, <1>9, AddFields
    <1>11. la.idle = l1.idle /\ la.nodeOn = l1.nodeOn
        BY <1>8, <1>9 DEF add_stream, RouterState
    <1> HIDE DEF la, counted
    <1>12. la \in RouterState
        BY <1>10 DEF SameButAtt
    <1>13. /\ m.open = la.open /\ m.thr = la.thr /\ m.att = la.att /\ m.retry = la.retry
           /\ m.enabled = la.enabled /\ m.devs = la.devs /\ m.suspended = la.suspended
           /\ m.idle = la.idle /\ m.nodeOn = la.nodeOn /\ m.pins = p
        BY <1>12 DEF RouterState
    <1>14. /\ m.open = l.open \cup D /\ m.thr = m.open /\ m.retry = {}
           /\ m.enabled = l.enabled /\ m.devs = l.devs /\ m.suspended = l.suspended
           /\ m.idle \subseteq l.idle /\ D \subseteq m.nodeOn /\ l.nodeOn \subseteq m.nodeOn
           /\ \A d \in m.nodeOn : Group[d] \subseteq m.nodeOn
        BY <1>8, <1>9, <1>10, <1>11, <1>13 DEF SameButAtt
    <1>15. \A d \in Devs : /\ m.att[d] = IF d \in D THEN l.att[d] \cup {s} ELSE l.att[d]
                           /\ m.pins[d] = IF d \in D THEN l.pins[d] + 1 ELSE l.pins[d]
        BY <1>5, <1>6, <1>7, <1>8, <1>9, <1>10, <1>13 DEF SameButAtt
    <1>16. \A d \in Devs : l.pins[d] \in Nat
        BY <1>2 DEF RouterState
    <1> HIDE DEF m
    <1>17. \A d \in D : m.pins[d] > 0
        <2> SUFFICES ASSUME NEW d \in D PROVE m.pins[d] > 0
            OBVIOUS
        <2>1. d \in Devs /\ m.pins[d] = l.pins[d] + 1 /\ l.pins[d] \in Nat
            BY <1>4, <1>15, <1>16
        <2> QED
            BY <2>1
    <1>18. PinnedTo[s] \in l.devs =>
              Steady(m) /\ Served(m, V, X) /\ Unidle(m, L) /\ Apart(m, L)
        <2>1. /\ Runs(m, l, s) /\ \A d \in PinnedDevs(s) : m.pins[d] > 0
              /\ \A d \in Devs \ PinnedDevs(s) : m.pins[d] = l.pins[d]
            BY <1>14, <1>15, <1>17 DEF Runs, D
        <2> QED
            BY <2>1, RunsCalm
    <1>21. CASE PinnedTo[s] \notin l.devs
        <2>1. r.l = l /\ r.ok = FALSE
            BY <1>1, <1>21
        <2> QED
            BY <2>1
    <1>22. CASE PinnedTo[s] \in l.devs
        <2>1. r = [ok |-> counted # {}, l |-> m]
            BY <1>1, <1>22
        <2>2. counted # {}
            BY <1>4, <1>7
        <2>3. r.l = m
            BY <2>1
        <2>4. r.ok = (counted # {})
            BY <2>1
        <2>5. Calm(r.l, L, A, V, X)
            BY <1>3, <1>18, <1>22, <2>3 DEF Calm
        <2>6. r.ok
            BY <2>2, <2>4
        <2> QED
            BY <2>5, <2>6
    <1> QED
        BY <1>21, <1>22

\* Normal stream s is served by the enabled devices that want it, those of X
\* excepted, and so are the streams of V everywhere.
Serving(l, list, A, V, s, X) ==
    /\ ~l.suspended /\ s \in A /\ ~Pinned(s)
    /\ Ready(l, list, A, V, {}) /\ Ready(l, list, A, V \cup {s}, X)

\* Excepting more devices.
LEMMA ServingWeaker ==
    ASSUME NEW l, NEW list, NEW A, NEW V, NEW s, NEW X, Serving(l, list, A, V, s, X),
           NEW Y, X \cap l.enabled \subseteq Y
    PROVE  Serving(l, list, A, V, s, Y)
    <1> DEFINE W == V \cup {s}
    <1>1. Ready(l, list, A, W, X)
        BY DEF Serving
    <1> HIDE DEF W
    <1>2. Ready(l, list, A, W, Y)
        BY <1>1, ReadyWeaker
    <1> QED
        BY <1>2 DEF Serving, W

\* The devices of D may serve s.
MayServe(l, D, s) == D \subseteq l.enabled /\ \A d \in D : Dir[d] = Dir[s]

\* What is true of state m after l once more devices serve s.
ServedNow(m, l, list, A, V, s, X) ==
    Serving(m, list, A, V, s, X) /\ m.enabled = l.enabled

\* Devices of D are opened for a stream and get it.
LEMMA ServeCalm ==
    ASSUME FaultFree, NEW l, NEW list, NEW A, NEW V, NEW s \in Streams, NEW X,
           Serving(l, list, A, V, s, X), NEW D, MayServe(l, D, s), NEW fmt \in FormatOf(D), NEW f \in Faults,
           NEW k, k = init_devices(l, D, fmt, f), NEW m, m = add_stream(k, s, D, f)
    PROVE  /\ ServedNow(m, l, list, A, V, s, X \ D)
           /\ ~append_fails(k, s, D, f) /\ init_failed(l, D, f) = {} /\ k \in RouterState
    <1> DEFINE W == V \cup {s}
               L == Range(list)
               None == {}
    <1>1. /\ ~l.suspended /\ s \in A /\ ~Pinned(s)
          /\ Calm(l, L, A, V, None) /\ Calm(l, L, A, W, X)
          /\ list \in Seq(Streams) /\ L \subseteq A /\ W \subseteq L /\ V \subseteq L
        BY DEF Serving, Ready
    <1>2. D \in SUBSET l.enabled /\ D \in SUBSET Devs
        BY <1>1 DEF Calm, Good, RouterState, MayServe
    <1> HIDE DEF L, W, None
    <1>3. /\ Calm(k, L, A, V, None) /\ init_failed(l, D, f) = {}
          /\ k.open = l.open \cup D /\ k.thr = k.open /\ k.idle = l.idle \ D
          /\ k.enabled = l.enabled /\ k.suspended = l.suspended
        BY <1>1, <1>2, InitCalm
    <1>4. Calm(k, L, A, W, X)
        BY <1>1, <1>2, InitCalm
    <1>5. \A d \in D : Belongs(k, d, s)
        BY <1>1, <1>2, <1>3, EnabledBelongs DEF MayServe
    <1>6. \A d \in D : Pinned(s) \/ s \notin Attachable[d] \/ d \notin k.idle
        BY <1>3
    <1>7. ~k.suspended /\ ~Pinned(s)
        BY <1>1, <1>3 DEF Serving
    <1>8. Calm(m, L, A, V, None) /\ ~append_fails(k, s, D, f) /\ Gets(m, k, s, D)
        <2>1. Calm(k, L, A, V, None) /\ s \in A /\ D \in SUBSET Devs
            BY <1>1, <1>2, <1>3
        <2> QED
            BY <1>5, <1>6, <1>7, <2>1, AddCalm
    <1>9. Calm(m, L, A, W, X)
        <2>1. Calm(k, L, A, W, X) /\ s \in A /\ D \in SUBSET Devs
            BY <1>1, <1>2, <1>4
        <2> QED
            BY <1>5, <1>6, <1>7, <2>1, AddCalm
    <1>10. Served(m, W, X \ D)
        <2> SUFFICES ASSUME ~m.suspended, NEW d \in m.enabled \ (X \ D), NEW t \in W, Wants(d, t)
                     PROVE  t \in m.att[d]
            BY DEF Served
        <2>1. CASE d \notin D
            BY <1>9, <2>1 DEF Calm, Served
        <2>2. CASE d \in D /\ t = s
            BY <1>2, <1>3, <1>8, <2>2 DEF Gets
        <2>3. CASE d \in D /\ t \in V
            BY <1>8, <2>3 DEF Calm, Served, None
        <2> QED
            BY <2>1, <2>2, <2>3 DEF W
    <1>11. Calm(m, L, A, W, X \ D)
        BY <1>9, <1>10 DEF Calm
    <1>12. m.enabled = l.enabled /\ ~m.suspended /\ k \in RouterState
        BY <1>3, <1>7, <1>8 DEF Gets, OnlyAtt, Calm, Good
    <1> QED
        BY <1>1, <1>3, <1>8, <1>11, <1>12 DEF ServedNow, Serving, Ready, L, W, None

\* Enabling the fallback device keeps the others serving.
LEMMA ServingFallback ==
    ASSUME FaultFree, NEW l, NEW list, NEW A, NEW V, NEW s \in Streams, NEW X,
           Serving(l, list, A, V, s, X), NEW dir \in Directions, NEW f \in Faults,
           NEW m, m = possibly_enable_fallback(l, list, dir, f)
    PROVE  Serving(m, list, A, V, s, X) /\ m.enabled = l.enabled \cup {Fallback[dir]}
    <1> DEFINE W == V \cup {s}
               None == {}
    <1>1. Ready(l, list, A, V, None) /\ Ready(l, list, A, W, X)
        BY DEF Serving
    <1> HIDE DEF W, None
    <1>2. /\ Ready(m, list, A, V, None) /\ m.enabled = l.enabled \cup {Fallback[dir]}
          /\ m.suspended = l.suspended
        BY <1>1, FallbackCalm
    <1>3. Ready(m, list, A, W, X)
        BY <1>1, FallbackCalm
    <1> QED
        BY <1>2, <1>3 DEF Serving, W, None

\* Devices that are restarted play the new stream as well.
LEMMA ServingRestart ==
    ASSUME FaultFree, NEW l, NEW list, NEW A, NEW V, NEW s \in Streams, NEW X,
           Serving(l, list, A, V, s, X), NEW D, D \subseteq l.enabled, NEW f \in Faults,
           NEW m, m = restart_device_groups(l, list, D, f)
    PROVE  Serving(m, list, A, V, s, X \ D) /\ m.enabled = l.enabled
    <1> DEFINE W == V \cup {s}
               None == {}
    <1>1. Ready(l, list, A, V, None) /\ Ready(l, list, A, W, X)
        BY DEF Serving
    <1>2. None \ D = None
        OBVIOUS
    <1> HIDE DEF W, None
    <1>3. /\ Ready(m, list, A, V, None \ D) /\ m.enabled = l.enabled
          /\ m.suspended = l.suspended
        BY <1>1, RestartCalm
    <1>4. Ready(m, list, A, W, X \ D)
        BY <1>1, RestartCalm
    <1> QED
        BY <1>2, <1>3, <1>4 DEF Serving, W, None

\* A normal stream that is added is served by every enabled device that wants it.
LEMMA NormalAddedCalm ==
    ASSUME FaultFree, NEW l, NEW list, NEW A, NEW V, Ready(l, list, A, V, {}), ~l.suspended,
           NEW s \in Streams, s \in Range(list), ~Pinned(s), NEW f \in Faults,
           NEW r, r = normal_stream_added(l, list, s, f)
    PROVE  Ready(r.l, list, A, V \cup {s}, {}) /\ r.ok
    <1> DEFINE dir == Dir[s]
               fb == Fallback[dir]
               F == {fb}
               ffmt == [d \in F |-> Channels[s]]
               lf0 == init_devices(l, F, ffmt, f)
               lc == add_stream(lf0, s, F, f)
               l0 == IF fb \in l.enabled THEN lc ELSE l
               want == {d \in EnabledIn(l, dir) \ {fb} : s \in Attachable[d]}
               reopen == {d \in want \cap l.open :
                            l.chan[d] < Channels[s] /\ Channels[s] <= MaxChannels[d]}
               lf == possibly_enable_fallback(l0, list, dir, f)
               lr == restart_device_groups(lf, list, reopen, f)
               l1 == IF reopen = {} THEN l0 ELSE lr
               others == want \ reopen
               failed == init_failed(l1, others, f)
               up == others \ failed
               fmt == [d \in others |-> Channels[s]]
               li == init_devices(l1, others, fmt, f)
               l2 == schedule_init_device_retry(li, failed)
               l3 == add_stream(l2, s, up, f)
               le == possibly_disable_fallback(l3, list, dir)
               lg == possibly_enable_fallback(l3, list, dir, f)
               X0 == want \cup F
    <1>1. r = IF append_fails(l2, s, up, f) THEN [ok |-> FALSE, l |-> l3]
              ELSE [ok |-> TRUE, l |-> IF up # {} \/ reopen # {} THEN le ELSE lg]
        BY DEF normal_stream_added
    <1>2. /\ dir \in Directions /\ fb \in Devs /\ fb \in Fallbacks /\ Dir[fb] = Dir[s]
          /\ want \subseteq l.enabled /\ l.enabled \subseteq Devs
          /\ \A d \in want : Dir[d] = Dir[s]
        BY DirFacts, ReadyFacts DEF EnabledIn
    <1>3. \A d \in want : d \notin Fallbacks
        <2>1. \A d \in Fallbacks : Dir[d] = dir => d = fb
            BY DirFacts DEF Fallbacks
        <2> QED
            BY <2>1, <1>2
    <1>4. Serving(l, list, A, V, s, X0)
        <2> DEFINE L == Range(list)
                   W == V \cup {s}
        <2>1. /\ Calm(l, L, A, V, {}) /\ list \in Seq(Streams) /\ L \subseteq A /\ W \subseteq L
              /\ s \in A
            BY DEF Ready
        <2>2. \A d \in l.enabled \ X0 : ~Wants(d, s)
            BY DEF Wants, EnabledIn
        <2>3. Served(l, W, X0)
            <3> HIDE DEF X0
            <3> QED
                BY <2>1, <2>2 DEF Calm, Served
        <2> HIDE DEF X0
        <2>4. Calm(l, L, A, W, X0)
            BY <2>1, <2>3 DEF Calm
        <2> QED
            BY <2>1, <2>4 DEF Serving, Ready
    <1>5. reopen \subseteq want /\ others \subseteq want /\ want \ reopen = others
          /\ (reopen = {} => others = want) /\ X0 \ F \subseteq want
          /\ (fb \notin l.enabled => X0 \cap l.enabled \subseteq want)
          /\ (want # {} => others # {} \/ reopen # {})
        OBVIOUS
    <1>6. ffmt \in FormatOf(F) /\ fmt \in FormatOf(others)
        BY OneFormat
    <1>7. fb \in l.enabled => MayServe(l, F, s)
        BY <1>2 DEF MayServe
    <1> HIDE DEF X0, F, ffmt, want, dir, reopen, others, fmt
    <1>8. Serving(l0, list, A, V, s, want) /\ l0.enabled = l.enabled
        <2>1. CASE fb \in l.enabled
            <3>1. lc = add_stream(lf0, s, F, f) /\ lf0 = init_devices(l, F, ffmt, f) /\ l0 = lc
                BY <2>1
            <3> HIDE DEF lc, lf0, l0
            <3>2. MayServe(l, F, s)
                BY <1>7, <2>1
            <3>3. Serving(lc, list, A, V, s, X0 \ F) /\ lc.enabled = l.enabled
                <4>1. ServedNow(lc, l, list, A, V, s, X0 \ F)
                    BY <1>4, <1>6, <3>1, <3>2, ServeCalm, Zenon
                <4> QED
                    BY <4>1 DEF ServedNow
            <3>4. (X0 \ F) \cap lc.enabled \subseteq want
                BY <1>5
            <3> QED
                BY <3>1, <3>3, <3>4, ServingWeaker
        <2>2. CASE fb \notin l.enabled
            <3>1. X0 \cap l.enabled \subseteq want /\ l0 = l
                BY <1>5, <2>2
            <3> HIDE DEF l0
            <3> QED
                BY <1>4, <3>1, ServingWeaker
        <2> QED
            BY <2>1, <2>2
    <1> HIDE DEF l0
    <1>9. Serving(lf, list, A, V, s, want) /\ lf.enabled = l0.enabled \cup {Fallback[dir]}
        <2>1. lf = possibly_enable_fallback(l0, list, dir, f)
            OBVIOUS
        <2> HIDE DEF lf
        <2> QED
            BY <1>2, <1>8, <2>1, ServingFallback
    <1> HIDE DEF lf
    <1>10. Serving(lr, list, A, V, s, want \ reopen) /\ lr.enabled = lf.enabled
        <2>1. lr = restart_device_groups(lf, list, reopen, f)
            OBVIOUS
        <2>2. reopen \subseteq lf.enabled
            BY <1>2, <1>5, <1>8, <1>9
        <2>3. Serving(lf, list, A, V, s, want)
            BY <1>9
        <2> HIDE DEF lr
        <2> QED
            BY <2>1, <2>2, <2>3, ServingRestart
    <1> HIDE DEF lr
    <1>11. Serving(l1, list, A, V, s, others) /\ l.enabled \subseteq l1.enabled
        <2>1. CASE reopen = {}
            <3>1. l1 = l0 /\ others = want
                BY <1>5, <2>1
            <3> HIDE DEF l1
            <3> QED
                BY <1>8, <3>1
        <2>2. CASE reopen # {}
            <3>1. l1 = lr /\ others = want \ reopen
                BY <1>5, <2>2
            <3> HIDE DEF l1
            <3> QED
                BY <1>8, <1>9, <1>10, <3>1
        <2> QED
            BY <2>1, <2>2
    <1> HIDE DEF l1
    <1>12. /\ Serving(add_stream(li, s, others, f), list, A, V, s, others \ others)
           /\ add_stream(li, s, others, f).enabled = l1.enabled
           /\ ~append_fails(li, s, others, f) /\ failed = {} /\ li \in RouterState
        <2> DEFINE m == add_stream(li, s, others, f)
        <2>1. m = add_stream(li, s, others, f) /\ li = init_devices(l1, others, fmt, f)
            OBVIOUS
        <2>2. MayServe(l1, others, s)
            BY <1>2, <1>5, <1>11 DEF MayServe
        <2>3. Serving(l1, list, A, V, s, others)
            BY <1>11
        <2> HIDE DEF m, li
        <2>4. /\ ServedNow(m, l1, list, A, V, s, others \ others)
              /\ ~append_fails(li, s, others, f) /\ init_failed(l1, others, f) = {}
              /\ li \in RouterState
            BY <1>6, <2>1, <2>2, <2>3, ServeCalm, Zenon
        <2> QED
            BY <2>4 DEF m, ServedNow, failed
    <1> HIDE DEF li, failed
    <1>13. l2 = li /\ up = others
        BY <1>12, NoRetry
    <1> HIDE DEF l2, up
    <1>14. Ready(l3, list, A, V \cup {s}, {}) /\ l3.enabled = l1.enabled /\ ~append_fails(l2, s, up, f)
        <2>1. others \ others = {}
            OBVIOUS
        <2> QED
            BY <1>12, <1>13, <2>1 DEF Serving
    <1> HIDE DEF l3
    <1>15. CASE up # {} \/ reopen # {}
        <2>1. r = [ok |-> TRUE, l |-> le]
            BY <1>1, <1>14, <1>15
        <2>2. \E d \in l3.enabled \ Fallbacks : Dir[d] = dir
            BY <1>2, <1>3, <1>5, <1>11, <1>13, <1>14, <1>15 DEF dir
        <2> DEFINE W == V \cup {s}
                   None == {}
        <2>3. le = possibly_disable_fallback(l3, list, dir) /\ Ready(l3, list, A, W, None)
            BY <1>14
        <2> HIDE DEF le, W, None
        <2>4. Ready(le, list, A, W, None)
            BY <1>2, <2>2, <2>3, NoFallbackCalm
        <2> QED
            BY <2>1, <2>4 DEF W, None
    <1>16. CASE ~(up # {} \/ reopen # {})
        <2>1. r = [ok |-> TRUE, l |-> lg]
            BY <1>1, <1>14, <1>16
        <2> DEFINE W == V \cup {s}
                   None == {}
        <2>3. lg = possibly_enable_fallback(l3, list, dir, f) /\ Ready(l3, list, A, W, None)
            BY <1>14
        <2> HIDE DEF lg, W, None
        <2>4. Ready(lg, list, A, W, None)
            BY <1>2, <2>3, FallbackCalm
        <2> QED
            BY <2>1, <2>4 DEF W, None
    <1> QED
        BY <1>15, <1>16

\* What stream_added_cb does for the streams that are served: afterwards s is one of
\* them.  A pinned stream that is refused leaves everything as it was.
LEMMA AddedCalm ==
    ASSUME FaultFree, NEW l, NEW list, NEW A, NEW V, Ready(l, list, A, V, {}),
           NEW s \in Streams, s \in Range(list), NEW f \in Faults,
           NEW r, r = stream_added_cb(l, list, s, f)
    PROVE  Ready(r.l, list, A, V \cup {s}, {}) /\ (r.ok \/ r.l = l)
    <1> DEFINE W == V \cup {s}
               L == Range(list)
               None == {}
    <1>1. /\ Calm(l, L, A, V, None) /\ list \in Seq(Streams) /\ L \subseteq A /\ V \subseteq L
          /\ s \in A /\ W \subseteq L
        BY DEF Ready
    <1>2. CASE l.suspended
        <2>1. r = [ok |-> TRUE, l |-> l]
            BY <1>2 DEF stream_added_cb
        <2>2. Served(l, W, {})
            BY <1>2 DEF Served
        <2> QED
            BY <1>1, <2>1, <2>2 DEF Ready, Calm
    <1>3. CASE ~l.suspended /\ Pinned(s)
        <2>1. r = pinned_stream_added(l, s, f)
            BY <1>3 DEF stream_added_cb
        <2> HIDE DEF L, None
        <2>2. Calm(r.l, L, A, V, None) /\ (r.ok \/ r.l = l)
            BY <1>1, <1>3, <2>1, PinnedAddedCalm
        <2>3. Served(r.l, W, None)
            BY <1>3, <2>2 DEF Calm, Served, Wants
        <2> QED
            BY <1>1, <2>2, <2>3 DEF Ready, Calm, L, None
    <1>4. CASE ~l.suspended /\ ~Pinned(s)
        <2>1. r = normal_stream_added(l, list, s, f)
            BY <1>4 DEF stream_added_cb
        <2>2. Ready(r.l, list, A, V \cup {s}, {}) /\ r.ok
            BY <1>4, <2>1, NormalAddedCalm
        <2> QED
            BY <2>2
    <1> QED
        BY <1>2, <1>3, <1>4

-----------------------------------------------------------------------------
(* Removing a stream.                                                      *)

\* Taking one stream off all devices.
LEMMA DisconnectCalm ==
    ASSUME NEW l, NEW L, NEW A, NEW V, NEW X, Calm(l, L, A, V, X), NEW s \in Streams,
           NEW m, m = disconnect_stream(l, s, Devs)
    PROVE  /\ Calm(m, L, A, V \ {s}, X) /\ OnlyAtt(m, l)
           /\ \A d \in Devs : m.att[d] = l.att[d] \ {s}
    <1>1. l \in RouterState /\ Good(l, L, A) /\ Steady(l)
        BY DEF Calm, Good
    <1>2. Good(m, L, A) /\ SameButAtt(m, l) /\ \A d \in Devs : m.att[d] = l.att[d] \ {s}
        BY <1>1, DisconnectGood
    <1>3. m.idle = l.idle /\ m.nodeOn = l.nodeOn
        BY <1>1 DEF disconnect_stream, RouterState
    <1>4. OnlyAtt(m, l)
        BY <1>2, <1>3 DEF OnlyAtt, SameButAtt
    <1>5. Steady(m)
        BY <1>1, <1>4, OnlyAttSteady
    <1>6. Served(m, V \ {s}, X)
        BY <1>1, <1>2, <1>4 DEF Calm, Served, OnlyAtt, RouterState
    <1>7. Unidle(m, L)
        BY <1>1, <1>2, <1>4 DEF Calm, Unidle, OnlyAtt, RouterState
    <1>8. Apart(m, L)
        BY <1>2, <1>4 DEF Calm, Apart, OnlyAtt
    <1> QED
        BY <1>2, <1>4, <1>5, <1>6, <1>7, <1>8 DEF Calm

\* A pinned stream goes, and with it the devices it was the last reason for.
LEMMA PinnedRemovedCalm ==
    ASSUME NEW l, NEW L, NEW A, NEW V, NEW X, Calm(l, L, A, V, X), NEW s \in Streams, Pinned(s),
           NEW r, r = pinned_stream_removed(l, s)
    PROVE  Calm(r, L, A, V, X) /\ r.enabled = l.enabled
    <1> DEFINE t == PinnedTo[s]
               D == PinnedDevs(s)
               p == [d \in Devs |-> IF d \in D /\ l.pins[d] > 0 THEN l.pins[d] - 1 ELSE l.pins[d]]
               l1 == [l EXCEPT !.pins = p]
               unused == {d \in D : d \notin l1.enabled /\ l1.pins[d] = 0}
               m == close_devs(l1, unused)
               off == SwitchNode(m, t, FALSE)
    <1>1. r = IF t \notin l.devs THEN l
              ELSE IF unused # {} /\ Group[t] \cap m.open = {} THEN off ELSE m
        BY DEF pinned_stream_removed
    <1>2. l \in RouterState /\ Good(l, L, A) /\ Steady(l)
        BY DEF Calm, Good
    <1>3. D \in SUBSET Devs /\ t \in Devs /\ \A d \in D : Group[d] = Group[t] /\ d \in Group[t]
        BY PinnedMore
    <1> HIDE DEF D, t
    <1>4. /\ p \in [Devs -> Nat] /\ \A d \in Fallbacks : p[d] = 0
          /\ \A d \in Devs : /\ p[d] \in Nat /\ (p[d] > 0 => l.pins[d] > 0)
                             /\ d \notin D => p[d] = l.pins[d]
        <2>1. l.pins \in [Devs -> Nat] /\ \A d \in Fallbacks : l.pins[d] = 0 /\ d \in Devs
            BY <1>2, RouterAssumption DEF Good, RouterState, Fallbacks
        <2> QED
            BY <2>1
    <1> HIDE DEF p
    <1>5. Good(l1, L, A)
        BY <1>2, <1>4, PinsGood
    <1>6. /\ l1 \in RouterState /\ l1.pins = p
          /\ l1.open = l.open /\ l1.thr = l.thr /\ l1.retry = l.retry /\ l1.enabled = l.enabled
          /\ l1.devs = l.devs /\ l1.suspended = l.suspended /\ l1.att = l.att
          /\ l1.idle = l.idle /\ l1.nodeOn = l.nodeOn
        BY <1>2, <1>5 DEF RouterState, Good
    <1>7. /\ unused \in SUBSET Devs
          /\ \A d \in unused : d \in D /\ d \notin l.enabled
          /\ \A d \in D \ unused : d \in l.enabled \/ p[d] > 0
        <2>1. \A d \in D : p[d] \in Nat
            BY <1>3, <1>4
        <2> QED
            BY <1>3, <1>6, <2>1
    <1> HIDE DEF l1, unused
    <1>8. /\ m.open = l1.open \ (unused \cap l1.open) /\ m.thr = l1.thr \ (unused \cap l1.open)
          /\ m.att = [d \in Devs |-> IF d \in unused \cap l1.open THEN {} ELSE l1.att[d]]
          /\ m.retry = l1.retry /\ m.pins = l1.pins /\ m.enabled = l1.enabled
          /\ m.devs = l1.devs /\ m.suspended = l1.suspended
        BY <1>6, <1>7, CloseFields
    <1>9. m.nodeOn = l1.nodeOn /\ m.idle \subseteq l1.idle
        BY <1>6 DEF close_devs, RouterState
    <1>10. Good(m, L, A)
        BY <1>5, <1>7, CloseGood
    <1> HIDE DEF m
    <1>11. /\ m.open = l.open \ unused /\ m.thr = l.open \ unused /\ m.retry = {} /\ m.pins = p
           /\ m.enabled = l.enabled /\ m.devs = l.devs /\ m.suspended = l.suspended
           /\ m.nodeOn = l.nodeOn /\ m.idle \subseteq l.idle
           /\ \A d \in Devs : /\ m.att[d] \subseteq l.att[d]
                              /\ d \notin unused => m.att[d] = l.att[d]
        BY <1>2, <1>6, <1>8, <1>9 DEF Steady
    <1>12. Steady(m)
        <2>1. NoPinnedEcho => \A d \in m.open : d \in m.enabled \/ m.pins[d] > 0
            <3> SUFFICES ASSUME NoPinnedEcho, NEW d \in m.open
                         PROVE  d \in m.enabled \/ m.pins[d] > 0
                OBVIOUS
            <3>1. d \in Devs /\ d \in l.open /\ d \notin unused
                BY <1>2, <1>11 DEF RouterState
            <3>2. CASE d \in D
                BY <1>7, <1>11, <3>1, <3>2
            <3>3. CASE d \notin D
                BY <1>2, <1>4, <1>11, <3>1, <3>3 DEF Steady
            <3> QED
                BY <3>2, <3>3
        <2> QED
            BY <1>2, <1>11, <2>1 DEF Steady
    <1>13. Served(m, V, X)
        BY <1>2, <1>7, <1>11 DEF Calm, Served, RouterState
    <1>14. Unidle(m, L)
        BY <1>2, <1>11 DEF Calm, Unidle, RouterState
    <1>15. Apart(m, L)
        BY <1>11 DEF Calm, Apart
    <1>16. Calm(m, L, A, V, X)
        BY <1>10, <1>12, <1>13, <1>14, <1>15 DEF Calm
    <1>17. CASE r = off /\ unused # {} /\ Group[t] \cap m.open = {}
        <2>1. Group[t] \cap l.enabled = {}
            <3>1. PICK d \in unused : TRUE
                BY <1>17
            <3>2. d \in Devs /\ d \in Group[t] /\ d \notin l.enabled /\ Group[d] = Group[t]
                BY <1>3, <1>7, <3>1
            <3>3. \A e \in Group[t] : Group[e] = Group[t]
                BY <1>3, GroupFacts
            <3> QED
                BY <1>2, <3>2, <3>3 DEF Steady
        <2>2. NotInUse(m, t)
            BY <1>11, <1>17, <2>1 DEF NotInUse
        <2>3. SwitchedOff(r, m, t)
            BY <1>17 DEF SwitchedOff
        <2>4. Calm(r, L, A, V, X) /\ r.enabled = m.enabled
            BY <1>3, <1>16, <2>2, <2>3, SwitchOffCalm
        <2> QED
            BY <1>11, <2>4
    <1> HIDE DEF off
    <1>18. CASE r = m
        BY <1>11, <1>16, <1>18
    <1>19. CASE r = l
        BY <1>19
    <1> QED
        BY <1>1, <1>17, <1>18, <1>19

\* Enabled devices without a normal stream are closed or become idle.
LEMMA CloseEnabledCalm ==
    ASSUME NEW l, NEW list, NEW A, NEW V, NEW X, Ready(l, list, A, V, X), NEW dir,
           NEW m, m = possibly_close_enabled_devs(l, list, dir)
    PROVE  Ready(m, list, A, V, X)
    <1> DEFINE D == Deserted(l, list, dir)
               L == Range(list)
    <1>1. /\ l \in RouterState /\ Good(l, L, A) /\ Steady(l) /\ Calm(l, L, A, V, X)
          /\ list \in Seq(Streams) /\ L \subseteq A /\ V \subseteq L
        BY ReadyFacts DEF Ready
    <1>2. D \in SUBSET Devs
        BY <1>1 DEF Deserted, EnabledIn, RouterState
    <1>3. \A d \in D : \A s \in L : Pinned(s) \/ Dir[s] # Dir[d]
        BY DEF Deserted, EnabledIn
    <1> HIDE DEF D
    <1>4. CASE dir = "input"
        <2>1. m = close_devs(l, D)
            BY <1>4 DEF possibly_close_enabled_devs, D
        <2> HIDE DEF L
        <2>2. /\ Calm(m, L, A, V, X \cup D) /\ SameUse(m, l)
              /\ \A d \in Devs : m.att[d] = IF d \in D \cap l.open THEN {} ELSE l.att[d]
            BY <1>1, <1>2, <2>1, CloseCalm
        <2>3. Served(m, V, X)
            <3> SUFFICES ASSUME ~m.suspended, NEW d \in m.enabled \ X, NEW s \in V, Wants(d, s)
                         PROVE  s \in m.att[d]
                BY DEF Served
            <3>1. d \in Devs /\ d \in l.enabled /\ ~l.suspended /\ s \in L
                BY <1>1, <2>2 DEF SameUse, RouterState
            <3>2. d \notin D
                BY <1>3, <3>1 DEF Wants
            <3>3. s \in l.att[d]
                BY <1>1, <3>1 DEF Calm, Served
            <3> QED
                BY <2>2, <3>1, <3>2, <3>3
        <2> QED
            BY <1>1, <2>2, <2>3 DEF Calm, Ready, L
    <1>5. CASE dir # "input"
        <2>1. m = [l EXCEPT !.idle = @ \cup D]
            BY <1>5 DEF possibly_close_enabled_devs, D
        <2>2. /\ m.open = l.open /\ m.thr = l.thr /\ m.retry = l.retry /\ m.pins = l.pins
              /\ m.enabled = l.enabled /\ m.devs = l.devs /\ m.suspended = l.suspended
              /\ m.nodeOn = l.nodeOn /\ m.att = l.att /\ m.idle = l.idle \cup D
            BY <1>1, <2>1 DEF RouterState
        <2> HIDE DEF L
        <2>3. Good(m, L, A)
            <3>1. Good([l EXCEPT !.idle = @ \cup D], L, A)
                BY <1>1, <1>2, IdleGood
            <3> QED
                BY <2>1, <3>1
        <2>4. Steady(m)
            BY <1>1, <2>2 DEF Steady
        <2>5. Served(m, V, X) /\ Apart(m, L)
            BY <1>1, <2>2 DEF Calm, Served, Apart
        <2>6. Unidle(m, L)
            <3> SUFFICES ASSUME NEW d \in m.idle, NEW s \in m.att[d] \cap L
                         PROVE  Pinned(s) \/ s \notin Attachable[d]
                BY DEF Unidle
            <3>1. CASE d \in l.idle
                BY <1>1, <2>2, <3>1 DEF Calm, Unidle
            <3>2. CASE d \in D
                <4>1. Dir[s] = Dir[d]
                    BY <1>1, <1>2, <2>2, <3>2 DEF Good, Belongs
                <4> QED
                    BY <1>3, <3>2, <4>1
            <3> QED
                BY <2>2, <3>1, <3>2
        <2> QED
            BY <1>1, <2>3, <2>4, <2>5, <2>6 DEF Calm, Ready, L
    <1> QED
        BY <1>4, <1>5

\* A stream that is not listed any more goes.
LEMMA RemovedCalm ==
    ASSUME NEW l, NEW list, NEW A, NEW V, Ready(l, list, A, V, {}), NEW s \in Streams,
           s \notin Range(list), NEW m, m = stream_removed(l, list, s)
    PROVE  Ready(m, list, A \ {s}, V, {})
    <1> DEFINE L == Range(list)
               B == A \ {s}
               None == {}
               dir == Dir[s]
               l1 == disconnect_stream(l, s, Devs)
               lp == pinned_stream_removed(l1, s)
               l2 == IF Pinned(s) THEN lp ELSE l1
    <1>1. m = possibly_close_enabled_devs(l2, list, dir)
        BY DEF stream_removed
    <1>2. /\ Calm(l, L, A, V, None) /\ list \in Seq(Streams)
          /\ L \subseteq A /\ L \subseteq B /\ V \subseteq L
        BY DEF Ready
    <1>3. V \ {s} = V
        BY <1>2
    <1> HIDE DEF L, None
    <1>4. Calm(l1, L, A, V, None) /\ \A d \in Devs : l1.att[d] = l.att[d] \ {s}
        <2>1. l1 = disconnect_stream(l, s, Devs)
            OBVIOUS
        <2> HIDE DEF l1
        <2>2. Calm(l1, L, A, V \ {s}, None) /\ \A d \in Devs : l1.att[d] = l.att[d] \ {s}
            BY <1>2, <2>1, DisconnectCalm
        <2> QED
            BY <1>3, <2>2
    <1> HIDE DEF l1
    <1>5. Calm(l1, L, B, V, None)
        BY <1>2, <1>4 DEF Calm, Good
    <1> HIDE DEF B
    <1>6. Calm(l2, L, B, V, None)
        <2>1. CASE Pinned(s)
            <3>1. lp = pinned_stream_removed(l1, s) /\ l2 = lp
                BY <2>1
            <3> HIDE DEF lp, l2
            <3>2. Calm(lp, L, B, V, None)
                BY <1>5, <2>1, <3>1, PinnedRemovedCalm
            <3> QED
                BY <3>1, <3>2
        <2>2. CASE ~Pinned(s)
            BY <1>5, <2>2
        <2> QED
            BY <2>1, <2>2
    <1> HIDE DEF l2, dir
    <1>7. Ready(l2, list, B, V, None)
        BY <1>2, <1>6 DEF Ready, L
    <1>8. Ready(m, list, B, V, None)
        BY <1>1, <1>7, CloseEnabledCalm
    <1> QED
        BY <1>8 DEF B, None

-----------------------------------------------------------------------------
(* The handlers.                                                           *)

\* Choosing the active node of a device.
LEMMA SetNodeCalm ==
    ASSUME NEW l, NEW list, NEW A, NEW V, NEW X, Ready(l, list, A, V, X),
           NEW d \in Devs, NEW n \in Nodes, NEW m, m = [l EXCEPT !.node[d] = n]
    PROVE  /\ Ready(m, list, A, V, X) /\ m.open = l.open /\ m.enabled = l.enabled
           /\ m.devs = l.devs
    <1> DEFINE L == Range(list)
    <1>1. l \in RouterState /\ Good(l, L, A) /\ Steady(l) /\ Calm(l, L, A, V, X)
        BY ReadyFacts
    <1>2. /\ m.open = l.open /\ m.thr = l.thr /\ m.retry = l.retry /\ m.pins = l.pins
          /\ m.enabled = l.enabled /\ m.devs = l.devs /\ m.suspended = l.suspended
          /\ m.idle = l.idle /\ m.nodeOn = l.nodeOn /\ m.att = l.att
        BY <1>1 DEF RouterState
    <1> HIDE DEF L
    <1>3. Good(m, L, A)
        <2>1. Good([l EXCEPT !.node[d] = n], L, A)
            BY <1>1, SetNodeGood
        <2> QED
            BY <2>1
    <1>4. Steady(m)
        BY <1>1, <1>2 DEF Steady
    <1>5. Served(m, V, X) /\ Unidle(m, L) /\ Apart(m, L)
        BY <1>1, <1>2 DEF Calm, Served, Unidle, Apart
    <1> QED
        BY <1>2, <1>3, <1>4, <1>5 DEF Calm, Ready, L

\* State m after a node of d was chosen and its group enabled.
Activated(m, l, list, d, n, f) ==
    \E l3, l4 : /\ l3 = disable_and_close_dev_group(l, list, d, f)
                /\ l4 = SwitchNode([l3 EXCEPT !.node[d] = n], d, TRUE)
                /\ m = enable_devices(l4, list, Group[d], f)

\* Closing a group and enabling it with another node.
LEMMA ActivateCalm ==
    ASSUME FaultFree, NEW l, NEW list, NEW A, NEW V, NEW X, Ready(l, list, A, V, X),
           NEW d \in Devs \ Fallbacks, d \in l.devs, NEW n \in Nodes, NEW f \in Faults,
           NEW m, Activated(m, l, list, d, n, f)
    PROVE  Ready(m, list, A, V, X) /\ d \in m.enabled
    <1> DEFINE G == Group[d]
               L == Range(list)
    <1>1. PICK l3, l4 : /\ l3 = disable_and_close_dev_group(l, list, d, f)
                        /\ l4 = SwitchNode([l3 EXCEPT !.node[d] = n], d, TRUE)
                        /\ m = enable_devices(l4, list, Group[d], f)
        BY DEF Activated
    <1> DEFINE ln == [l3 EXCEPT !.node[d] = n]
    <1>2. /\ l3 = disable_and_close_dev_group(l, list, d, f) /\ ln = [l3 EXCEPT !.node[d] = n]
          /\ SwitchedOn(l4, ln, d) /\ m = enable_devices(l4, list, G, f)
        BY <1>1 DEF SwitchedOn
    <1> HIDE DEF ln, G, L
    <1>3. /\ Ready(l3, list, A, V, X) /\ Group[d] \cap (l3.enabled \cup l3.open) = {}
          /\ l3.devs = l.devs
        <2>1. l3 = disable_and_close_dev_group(l, list, d, f)
            BY <1>2
        <2> QED
            BY <2>1, CloseGroupCalm
    <1>4. Ready(ln, list, A, V, X) /\ ln.open = l3.open /\ ln.enabled = l3.enabled /\ ln.devs = l3.devs
        <2>1. Ready(l3, list, A, V, X) /\ ln = [l3 EXCEPT !.node[d] = n]
            BY <1>2, <1>3
        <2> QED
            BY <2>1, SetNodeCalm
    <1>5. Calm(ln, L, A, V, X)
        BY <1>4 DEF Ready, L
    <1>6. /\ Calm(l4, L, A, V, X) /\ Group[d] \subseteq l4.nodeOn
          /\ l4.open = ln.open /\ l4.enabled = ln.enabled /\ l4.devs = ln.devs
        <2>1. SwitchedOn(l4, ln, d)
            BY <1>2
        <2> QED
            BY <1>5, <2>1, SwitchOnCalm
    <1>7. Ready(l4, list, A, V, X)
        BY <1>4, <1>6 DEF Ready, L
    <1>8. MayEnable(l4, G)
        <2>1. G \subseteq Devs /\ \A e \in G : Group[e] \subseteq G
            BY GroupFacts DEF G
        <2>2. (G \ l4.enabled) \cap l4.open = {} /\ \A e \in G : e \in Fallbacks \/ e \in l4.nodeOn
            BY <1>3, <1>4, <1>6 DEF G
        <2>3. G \subseteq l4.devs
            <3>1. Group[d] \subseteq l.devs
                BY DEF Ready, Calm, Apart
            <3> QED
                BY <3>1, <1>3, <1>4, <1>6 DEF G
        <2> QED
            BY <2>1, <2>2, <2>3 DEF MayEnable
    <1>9. Ready(m, list, A, V, X) /\ m.enabled = l4.enabled \cup G
        <2>1. m = enable_devices(l4, list, G, f)
            BY <1>2
        <2> QED
            BY <1>7, <1>8, <2>1, EnableCalm
    <1>10. d \in G
        BY GroupFacts DEF G
    <1> QED
        BY <1>9, <1>10

\* Selecting a node.
LEMMA SelectCalm ==
    ASSUME FaultFree, Ready(iodevs, streams, Lists, Range(streams), {}),
           NEW dir \in Directions, NEW d \in (Devs \ Fallbacks) \cup {NoDev}, NEW n \in Nodes,
           NEW f \in Faults, cras_iodev_list_select_node(dir, d, n, f)
    PROVE  Ready(iodevs', streams, Lists, Range(streams), {})
    <1> DEFINE L == Range(streams)
               None == {}
               found == d \in iodevs.devs
               already == found /\ d \in iodevs.enabled /\ iodevs.node[d] = n
               le == possibly_enable_fallback(iodevs, streams, dir, f)
               l1 == IF already THEN iodevs ELSE le
               mine == IF found THEN Group[d] ELSE {}
               D == EnabledIn(l1, dir) \ (Fallbacks \cup mine)
               no == FALSE
               l2 == disable_devices(l1, streams, D, no)
               l3 == disable_and_close_dev_group(l2, streams, d, f)
               l4 == SwitchNode([l3 EXCEPT !.node[d] = n], d, TRUE)
               l5 == enable_devices(l4, streams, Group[d], f)
               l6 == possibly_disable_fallback(l5, streams, dir)
    <1>1. /\ iodevs' = IF ~found \/ already THEN l2
                       ELSE IF enable_succeeds(l4, streams, Group[d], f) THEN l6 ELSE l5
          /\ found => Dir[d] = dir
        BY DEF cras_iodev_list_select_node
    <1>2. no \in BOOLEAN /\ Ready(iodevs, streams, Lists, L, None)
        OBVIOUS
    <1>3. found => d \in Devs \ Fallbacks
        BY <1>2, ReadyFacts DEF RouterState
    <1>4. Activated(l5, l2, streams, d, n, f)
        BY DEF Activated
    <1> HIDE DEF no, None, L
    <1>5. Ready(le, streams, Lists, L, None) /\ le.enabled = iodevs.enabled \cup {Fallback[dir]}
          /\ le.devs = iodevs.devs
        <2>1. le = possibly_enable_fallback(iodevs, streams, dir, f)
            OBVIOUS
        <2> HIDE DEF le
        <2> QED
            BY <1>2, <2>1, FallbackCalm
    <1> HIDE DEF le
    <1>6. Ready(l1, streams, Lists, L, None) /\ l1.devs = iodevs.devs
        BY <1>2, <1>5
    <1>7. (already /\ d \in l1.enabled /\ found) \/ Fallback[dir] \in l1.enabled
        BY <1>5
    <1> HIDE DEF l1, already
    <1>8. l1.enabled \subseteq Devs /\ Steady(l1)
        BY <1>6, ReadyFacts
    <1>9. MayDisable(l1, D)
        <2>1. D \subseteq l1.enabled /\ \A e \in D : Dir[e] = dir /\ e \notin Fallbacks /\ e \notin mine
            BY DEF EnabledIn
        <2>2. ASSUME NEW e \in D, NEW g \in Group[e] PROVE g \in D
            <3>1. e \in Devs /\ g \in l1.enabled /\ Dir[g] = dir /\ g \notin Fallbacks
                  /\ Group[g] = Group[e] /\ e \in Group[e] /\ g \in Devs
                BY <1>8, <2>1, GroupFacts DEF Steady
            <3>2. g \notin mine
                <4> SUFFICES ASSUME g \in mine PROVE FALSE
                    OBVIOUS
                <4>1. found /\ g \in Group[d] /\ d \in Devs
                    BY <1>3
                <4>2. Group[g] = Group[d]
                    BY <4>1, GroupFacts
                <4> QED
                    BY <2>1, <3>1, <4>1, <4>2
            <3> QED
                BY <3>1, <3>2 DEF EnabledIn
        <2>3. ASSUME NEW x \in Directions PROVE \E e \in l1.enabled \ D : Dir[e] = x
            <3>1. CASE x # dir
                <4>1. PICK e \in l1.enabled : Dir[e] = x
                    BY <1>8 DEF Steady
                <4> QED
                    BY <2>1, <3>1, <4>1
            <3>2. CASE x = dir /\ Fallback[dir] \in l1.enabled
                BY <2>1, <3>2, DirFacts
            <3>3. CASE x = dir /\ found /\ d \in l1.enabled
                <4>1. d \in mine /\ Dir[d] = dir
                    BY <1>1, <1>3, <3>3, GroupFacts
                <4> QED
                    BY <2>1, <3>3, <4>1
            <3> QED
                BY <1>7, <3>1, <3>2, <3>3
        <2> QED
            BY <2>1, <2>2, <2>3 DEF MayDisable
    <1> HIDE DEF D
    <1>10. Ready(l2, streams, Lists, L, None) /\ l2.devs = l1.devs
        <2>1. l2 = disable_devices(l1, streams, D, no) /\ Calm(l1, Range(streams), Lists, L, None)
            BY <1>6 DEF Ready
        <2> HIDE DEF l2
        <2>2. Calm(l2, Range(streams), Lists, L, None) /\ l2.devs = l1.devs
            BY <1>2, <1>9, <2>1, DisableCalm
        <2> QED
            BY <1>6, <2>2 DEF Ready
    <1> HIDE DEF l2, l5
    <1>11. CASE ~found \/ already
        BY <1>1, <1>10, <1>11 DEF L, None
    <1>12. CASE found
        <2>1. d \in Devs \ Fallbacks /\ d \in l2.devs /\ Dir[d] = dir
            BY <1>1, <1>3, <1>6, <1>10, <1>12
        <2>2. Ready(l5, streams, Lists, L, None) /\ d \in l5.enabled
            BY <1>4, <1>10, <2>1, ActivateCalm
        <2>3. Ready(l6, streams, Lists, L, None)
            <3>1. l6 = possibly_disable_fallback(l5, streams, dir)
                  /\ \E e \in l5.enabled \ Fallbacks : Dir[e] = dir
                BY <2>1, <2>2
            <3> HIDE DEF l6
            <3> QED
                BY <2>2, <3>1, NoFallbackCalm
        <2> HIDE DEF l6
        <2> QED
            BY <1>1, <1>10, <2>2, <2>3 DEF L, None
    <1> QED
        BY <1>11, <1>12

\* Adding an active node.
LEMMA AddActiveCalm ==
    ASSUME FaultFree, Ready(iodevs, streams, Lists, Range(streams), {}),
           NEW d \in Devs, NEW n \in Nodes,
           NEW f \in Faults, cras_iodev_list_add_active_node(d, n, f)
    PROVE  Ready(iodevs', streams, Lists, Range(streams), {})
    <1> DEFINE L == Range(streams)
               None == {}
               dir == Dir[d]
               l1 == disable_and_close_dev_group(iodevs, streams, d, f)
               l2 == SwitchNode([l1 EXCEPT !.node[d] = n], d, TRUE)
               l3 == enable_devices(l2, streams, Group[d], f)
               l4 == possibly_disable_fallback(l3, streams, dir)
    <1>1. /\ iodevs' = IF enable_succeeds(l2, streams, Group[d], f) THEN l4 ELSE l3
          /\ d \in iodevs.devs
        BY DEF cras_iodev_list_add_active_node
    <1>2. Ready(iodevs, streams, Lists, L, None)
        OBVIOUS
    <1>3. d \in Devs \ Fallbacks /\ dir \in Directions
        BY <1>1, <1>2, ReadyFacts, DirFacts DEF RouterState
    <1>4. Activated(l3, iodevs, streams, d, n, f)
        BY DEF Activated
    <1> HIDE DEF None, L, l3, dir
    <1>5. Ready(l3, streams, Lists, L, None) /\ d \in l3.enabled
        BY <1>1, <1>2, <1>3, <1>4, ActivateCalm
    <1>6. Ready(l4, streams, Lists, L, None)
        <2>1. l4 = possibly_disable_fallback(l3, streams, dir)
              /\ \E e \in l3.enabled \ Fallbacks : Dir[e] = dir
            BY <1>3, <1>5 DEF dir
        <2> HIDE DEF l4
        <2> QED
            BY <1>3, <1>5, <2>1, NoFallbackCalm
    <1> HIDE DEF l4
    <1> QED
        BY <1>1, <1>5, <1>6 DEF L, None

\* Removing an active node.
LEMMA RmActiveCalm ==
    ASSUME FaultFree, Ready(iodevs, streams, Lists, Range(streams), {}),
           NEW d \in Devs, NEW f \in Faults, cras_iodev_list_rm_active_node(d, f)
    PROVE  Ready(iodevs', streams, Lists, Range(streams), {})
    <1> DEFINE L == Range(streams)
               None == {}
               no == FALSE
               m == disable_device_group(iodevs, streams, d, no, f)
    <1>1. iodevs' = m /\ d \in iodevs.devs /\ Ready(iodevs, streams, Lists, L, None) /\ no \in BOOLEAN
        BY DEF cras_iodev_list_rm_active_node
    <1>2. d \in Devs \ Fallbacks /\ m = disable_device_group(iodevs, streams, d, no, f)
        BY <1>1, ReadyFacts DEF RouterState
    <1> HIDE DEF L, None, no, m
    <1>3. Ready(m, streams, Lists, L, None)
        BY <1>1, <1>2, DisableGroupCalm
    <1> QED
        BY <1>1, <1>3 DEF L, None

\* A card's devices are listed or leave the list.
LEMMA ListAddCalm ==
    ASSUME NEW l, NEW list, NEW A, NEW V, NEW X, Ready(l, list, A, V, X),
           NEW d \in Devs \ Fallbacks,
           NEW m, m = [l EXCEPT !.fresh = @ \ Group[d], !.devs = @ \cup Group[d]]
    PROVE  Ready(m, list, A, V, X)
    <1> DEFINE L == Range(list)
    <1>1. l \in RouterState /\ Good(l, L, A) /\ Steady(l) /\ Calm(l, L, A, V, X)
        BY ReadyFacts
    <1>2. Group[d] \subseteq Devs \ Fallbacks
        BY GroupFacts
    <1>3. /\ m \in RouterState
          /\ m.open = l.open /\ m.thr = l.thr /\ m.retry = l.retry /\ m.pins = l.pins
          /\ m.enabled = l.enabled /\ m.devs = l.devs \cup Group[d] /\ m.suspended = l.suspended
          /\ m.idle = l.idle /\ m.nodeOn = l.nodeOn /\ m.att = l.att
        BY <1>1, <1>2 DEF RouterState
    <1> HIDE DEF L
    <1>4. Good(m, L, A)
        BY <1>1, <1>3, SameCoreGood
    <1>5. Steady(m)
        BY <1>1, <1>3 DEF Steady
    <1>6. Served(m, V, X) /\ Unidle(m, L)
        BY <1>1, <1>3 DEF Calm, Served, Unidle
    <1>7. Apart(m, L)
        <2>1. \A e \in Group[d] : Group[e] = Group[d]
            BY GroupFacts
        <2>2. \A e \in m.devs : Group[e] \subseteq m.devs
            BY <1>1, <1>3, <2>1 DEF Calm, Apart
        <2> QED
            BY <1>1, <1>3, <2>2 DEF Calm, Apart
    <1> QED
        BY <1>4, <1>5, <1>6, <1>7 DEF Calm, Ready, L

\* The devices of a group leave the list after they were put out of use.
LEMMA ListRmCalm ==
    ASSUME FaultFree, NEW l, NEW list, NEW A, NEW V, NEW X, Ready(l, list, A, V, X),
           NEW d \in Devs \ Fallbacks, NEW f \in Faults,
           NEW k, k = disable_and_close_dev_group(l, list, d, f),
           NEW m, m = [k EXCEPT !.devs = @ \ Group[d]]
    PROVE  Ready(m, list, A, V, X)
    <1> DEFINE L == Range(list)
    <1>1. Ready(k, list, A, V, X) /\ Group[d] \cap (k.enabled \cup k.open) = {}
        BY CloseGroupCalm
    <1>2. k \in RouterState /\ Good(k, L, A) /\ Steady(k) /\ Calm(k, L, A, V, X)
        BY <1>1, ReadyFacts
    <1>3. /\ m \in RouterState
          /\ m.open = k.open /\ m.thr = k.thr /\ m.retry = k.retry /\ m.pins = k.pins
          /\ m.enabled = k.enabled /\ m.devs = k.devs \ Group[d] /\ m.suspended = k.suspended
          /\ m.idle = k.idle /\ m.nodeOn = k.nodeOn /\ m.att = k.att
        BY <1>2 DEF RouterState
    <1> HIDE DEF L
    <1>4. Good(m, L, A)
        BY <1>2, <1>3, SameCoreGood
    <1>5. Steady(m)
        BY <1>2, <1>3 DEF Steady
    <1>6. Served(m, V, X) /\ Unidle(m, L)
        BY <1>2, <1>3 DEF Calm, Served, Unidle
    <1>7. Apart(m, L)
        <2>1. \A e \in m.devs : Group[e] \subseteq m.devs
            <3> SUFFICES ASSUME NEW e \in k.devs \ Group[d], NEW g \in Group[e],
                                g \in Group[d]
                         PROVE  FALSE
                BY <1>2, <1>3 DEF Calm, Apart
            <3>1. e \in Devs
                BY <1>2 DEF RouterState
            <3>2. e \in Group[d]
                BY <3>1, GroupFacts
            <3> QED
                BY <3>2
        <2> QED
            BY <1>1, <1>2, <1>3, <2>1 DEF Calm, Apart
    <1> QED
        BY <1>1, <1>4, <1>5, <1>6, <1>7 DEF Calm, Ready, L

\* Suspending: nothing that is enabled stays open.
LEMMA SuspendCalm ==
    ASSUME Ready(iodevs, streams, Lists, Range(streams), {}), suspend_devs
    PROVE  Ready(iodevs', streams, Lists, Range(streams), {})
    <1> DEFINE L == Range(streams)
               l == iodevs
               m == iodevs'
               pinned == {s \in L : Pinned(s) /\ PinnedTo[s] \in iodevs.devs}
               normal == {s \in L : ~Pinned(s)}
               a == [d \in Devs |-> (l.att[d] \ normal) \ {s \in pinned : PinnedTo[s] = d}]
               l1 == [l EXCEPT !.suspended = TRUE, !.att = a]
               D == {PinnedTo[s] : s \in pinned} \cup l.enabled
    <1>1. m = close_devs(l1, D)
        BY DEF suspend_devs
    <1>2. /\ l \in RouterState /\ Good(l, L, Lists) /\ Steady(l) /\ Calm(l, L, Lists, L, {})
          /\ streams \in Seq(Streams) /\ L \subseteq Streams /\ L \subseteq Lists
        BY ReadyFacts, RangeFacts DEF Ready
    <1>3. Good(m, L, Lists)
        BY <1>2, SuspendGood
    <1>4. /\ a \in [Devs -> SUBSET Streams]
          /\ \A d \in Devs : /\ a[d] \subseteq l.att[d]
                             /\ \A s \in a[d] \cap L : Pinned(s) /\ ~(PinnedTo[s] = d /\ d \in l.devs)
        BY <1>2 DEF RouterState
    <1>5. D \in SUBSET Devs /\ l.enabled \subseteq D
        BY <1>2 DEF RouterState
    <1> HIDE DEF a, D, L
    <1>6. /\ l1 \in RouterState
          /\ l1.open = l.open /\ l1.thr = l.thr /\ l1.retry = l.retry /\ l1.pins = l.pins
          /\ l1.enabled = l.enabled /\ l1.devs = l.devs /\ l1.suspended = TRUE
          /\ l1.idle = l.idle /\ l1.nodeOn = l.nodeOn /\ l1.att = a
        BY <1>2, <1>4 DEF RouterState
    <1> HIDE DEF l1
    <1>7. /\ m.open = l1.open \ (D \cap l1.open) /\ m.thr = l1.thr \ (D \cap l1.open)
          /\ m.att = [d \in Devs |-> IF d \in D \cap l1.open THEN {} ELSE l1.att[d]]
          /\ m.retry = l1.retry /\ m.pins = l1.pins /\ m.enabled = l1.enabled
          /\ m.devs = l1.devs /\ m.suspended = l1.suspended
        BY <1>1, <1>5, <1>6, CloseFields
    <1>8. m.nodeOn = l1.nodeOn /\ m.idle \subseteq l1.idle
        BY <1>1, <1>6 DEF close_devs, RouterState
    <1> HIDE DEF m, l
    <1>9. /\ m.open = l.open \ D /\ m.thr = l.open \ D /\ m.retry = {} /\ m.pins = l.pins
          /\ m.enabled = l.enabled /\ m.devs = l.devs /\ m.suspended
          /\ m.nodeOn = l.nodeOn /\ m.idle \subseteq l.idle
          /\ \A d \in Devs : m.att[d] \subseteq a[d] /\ (d \in D \cap l.open => m.att[d] = {})
        BY <1>2, <1>6, <1>7, <1>8 DEF Steady
    <1>10. Steady(m)
        BY <1>2, <1>5, <1>9 DEF Steady
    <1>11. Served(m, L, {})
        BY <1>9 DEF Served
    <1>12. Unidle(m, L)
        <2>1. \A d \in m.idle : d \in l.idle /\ d \in Devs /\ m.att[d] \subseteq l.att[d]
            BY <1>2, <1>4, <1>9 DEF RouterState
        <2> QED
            BY <1>2, <2>1 DEF Calm, Unidle
    <1>13. Apart(m, L)
        <2>1. ASSUME NEW d \in Devs, NEW s \in m.att[d] \cap L
              PROVE  Pinned(s) /\ d \in Group[PinnedTo[s]] \ {PinnedTo[s]}
            <3>1. /\ s \in a[d] /\ s \in l.att[d] /\ Pinned(s) /\ ~(PinnedTo[s] = d /\ d \in l.devs)
                  /\ ~(d \in D \cap l.open) /\ s \in Streams
                BY <1>2, <1>4, <1>9, <2>1
            <3>2. d \in l.open /\ Belongs(l, d, s) /\ d \notin l.enabled
                BY <1>2, <1>5, <2>1, <3>1 DEF Good, Steady
            <3>3. PinnedTo[s] \in Group[d] /\ PinnedTo[s] \in Devs \ Fallbacks
                BY <3>1, <3>2, PinnedFacts DEF Belongs
            <3>4. d \notin Fallbacks
                BY <3>3, RouterAssumption
            <3>5. d \in l.devs
                BY <1>2, <3>2, <3>4 DEF Calm, Apart
            <3>6. d \in Group[PinnedTo[s]]
                BY <3>3, GroupFacts
            <3> QED
                BY <3>1, <3>5, <3>6
        <2>2. /\ \A d \in m.devs : Group[d] \subseteq m.devs
              /\ \A d \in m.enabled \cup m.open : d \in Fallbacks \/ d \in m.devs
            BY <1>2, <1>9 DEF Calm, Apart
        <2> QED
            BY <2>1, <2>2 DEF Apart
    <1>14. Calm(m, L, Lists, L, {})
        BY <1>3, <1>10, <1>11, <1>12, <1>13 DEF Calm
    <1> QED
        BY <1>2, <1>14 DEF Ready, L, m

\* The start of resume_devs: no stream is connected yet.
LEMMA ResumeCalm ==
    ASSUME NEW l, NEW list, NEW A, NEW V, NEW X, Ready(l, list, A, V, X),
           NEW m, m = [l EXCEPT !.suspended = FALSE]
    PROVE  Ready(m, list, A, {}, {})
    <1> DEFINE L == Range(list)
    <1>1. l \in RouterState /\ Good(l, L, A) /\ Steady(l) /\ Calm(l, L, A, V, X)
        BY ReadyFacts
    <1>2. /\ m \in RouterState
          /\ m.open = l.open /\ m.thr = l.thr /\ m.retry = l.retry /\ m.pins = l.pins
          /\ m.enabled = l.enabled /\ m.devs = l.devs /\ m.suspended = FALSE
          /\ m.idle = l.idle /\ m.nodeOn = l.nodeOn /\ m.att = l.att
        BY <1>1 DEF RouterState
    <1> HIDE DEF L
    <1>3. Good(m, L, A)
        BY <1>1, <1>2, SameCoreGood
    <1>4. Steady(m)
        BY <1>1, <1>2 DEF Steady
    <1>5. Served(m, {}, {}) /\ Unidle(m, L) /\ Apart(m, L)
        BY <1>1, <1>2 DEF Calm, Served, Unidle, Apart
    <1> QED
        BY <1>3, <1>4, <1>5 DEF Calm, Ready, L

\* Idle devices have no stream to play.
LEMMA IdleCheckCalm ==
    ASSUME Ready(iodevs, streams, Lists, Range(streams), {}), NEW expired,
           idle_dev_check(expired)
    PROVE  Ready(iodevs', streams, Lists, Range(streams), {})
    <1> DEFINE L == Range(streams)
               None == {}
               l == iodevs
               m == iodevs'
    <1>1. m = close_devs(l, expired) /\ expired \subseteq l.idle
        BY DEF idle_dev_check
    <1>2. /\ l \in RouterState /\ Good(l, L, Lists) /\ Steady(l) /\ Calm(l, L, Lists, L, None)
          /\ streams \in Seq(Streams) /\ L \subseteq Lists
        BY ReadyFacts DEF Ready
    <1>3. expired \in SUBSET Devs
        BY <1>1, <1>2 DEF RouterState
    <1>4. None = {}
        OBVIOUS
    <1> HIDE DEF L, None, l, m
    <1>5. /\ Calm(m, L, Lists, L, None \cup expired) /\ SameUse(m, l)
          /\ \A d \in Devs : m.att[d] = IF d \in expired \cap l.open THEN {} ELSE l.att[d]
        BY <1>1, <1>2, <1>3, CloseCalm
    <1>6. Served(m, L, None)
        <2> SUFFICES ASSUME ~m.suspended, NEW d \in m.enabled, NEW s \in L, Wants(d, s)
                     PROVE  s \in m.att[d]
            BY <1>4 DEF Served
        <2>1. d \in Devs /\ d \in l.enabled /\ ~l.suspended
            BY <1>2, <1>5 DEF SameUse, RouterState
        <2>2. s \in l.att[d]
            BY <1>2, <1>4, <2>1 DEF Calm, Served
        <2>3. d \notin l.idle
            BY <1>2, <2>2 DEF Calm, Unidle, Wants
        <2> QED
            BY <1>1, <1>5, <2>1, <2>2, <2>3
    <1>7. Calm(m, L, Lists, L, None)
        BY <1>5, <1>6 DEF Calm
    <1> QED
        BY <1>2, <1>7 DEF Ready, L, None, m

\* Restarting a device behind the fallback device.
LEMMA NoiseCalm ==
    ASSUME FaultFree, Ready(iodevs, streams, Lists, Range(streams), {}),
           NEW d \in Devs, NEW f \in Faults, reset_for_noise_cancellation(d, f), ~RestartsUnused
    PROVE  Ready(iodevs', streams, Lists, Range(streams), {})
    <1> DEFINE L == Range(streams)
               None == {}
               D == {d}
               dir == Dir[d]
               l1 == possibly_enable_fallback(iodevs, streams, dir, f)
               l2 == restart_device_groups(l1, streams, D, f)
               l3 == possibly_disable_fallback(l2, streams, dir)
    <1>1. iodevs' = l3 /\ d \in RestartDevs /\ d \in iodevs.devs /\ d \in iodevs.open
        BY DEF reset_for_noise_cancellation
    <1>2. Ready(iodevs, streams, Lists, L, None)
        OBVIOUS
    <1>3. dir \in Directions /\ d \notin Fallbacks
        BY <1>1, <1>2, DirFacts, ReadyFacts DEF RouterState
    <1>4. d \in iodevs.enabled
        BY DEF RestartsUnused
    <1>5. None \ D = None
        OBVIOUS
    <1> HIDE DEF L, None
    <1>6. Ready(l1, streams, Lists, L, None) /\ l1.enabled = iodevs.enabled \cup {Fallback[dir]}
        <2>1. l1 = possibly_enable_fallback(iodevs, streams, dir, f)
            OBVIOUS
        <2> HIDE DEF l1, dir
        <2> QED
            BY <1>2, <1>3, <2>1, FallbackCalm
    <1>7. D \subseteq l1.enabled
        BY <1>4, <1>6
    <1> HIDE DEF l1, D
    <1>8. Ready(l2, streams, Lists, L, None \ D) /\ l2.enabled = l1.enabled
        <2>1. l2 = restart_device_groups(l1, streams, D, f) /\ Ready(l1, streams, Lists, L, None)
            BY <1>6
        <2> HIDE DEF l2
        <2> QED
            BY <1>7, <2>1, RestartCalm
    <1>9. Ready(l2, streams, Lists, L, None)
        BY <1>5, <1>8
    <1> HIDE DEF l2
    <1>10. \E e \in l2.enabled \ Fallbacks : Dir[e] = dir
        BY <1>3, <1>4, <1>6, <1>8
    <1>11. Ready(l3, streams, Lists, L, None)
        <2>1. l3 = possibly_disable_fallback(l2, streams, dir)
            OBVIOUS
        <2> HIDE DEF l3, dir
        <2> QED
            BY <1>3, <1>9, <1>10, <2>1, NoFallbackCalm
    <1> HIDE DEF l3
    <1> QED
        BY <1>1, <1>11 DEF L, None

\* Reconnecting a normal stream for its echo reference.
LEMMA AecRefCalm ==
    ASSUME FaultFree, Ready(iodevs, streams, Lists, Range(streams), {}),
           NEW s \in Streams, ~Pinned(s), NEW f \in Faults, cras_iodev_list_set_aec_ref(s, f)
    PROVE  Ready(iodevs', streams, Lists, Range(streams), {})
    <1> DEFINE L == Range(streams)
               None == {}
               l == iodevs
               m == iodevs'
               W == L \ {s}
               l1 == disconnect_stream(l, s, Devs)
               E == EnabledIn(l1, Dir[s]) \cap l1.open
    <1>1. s \in L /\ ~Pinned(s)
        BY DEF cras_iodev_list_set_aec_ref
    <1>2. m = add_stream(l1, s, E, f)
        BY <1>1 DEF cras_iodev_list_set_aec_ref
    <1>3. /\ l \in RouterState /\ Good(l, L, Lists) /\ Steady(l) /\ Calm(l, L, Lists, L, None)
          /\ streams \in Seq(Streams) /\ L \subseteq Lists
        BY ReadyFacts DEF Ready
    <1>4. s \in Lists /\ None = {}
        BY <1>1, <1>3
    <1> HIDE DEF L, None, l, m
    <1>5. /\ Calm(l1, L, Lists, W, None) /\ OnlyAtt(l1, l)
          /\ \A d \in Devs : l1.att[d] = l.att[d] \ {s}
        <2>1. l1 = disconnect_stream(l, s, Devs)
            OBVIOUS
        <2> HIDE DEF l1
        <2> QED
            BY <1>3, <2>1, DisconnectCalm
    <1> HIDE DEF l1, W
    <1>6. /\ E \in SUBSET Devs /\ (l1.suspended => E \cap l1.open = {})
          /\ \A d \in E : Belongs(l1, d, s)
        <2>1. \A d \in E : d \in l1.enabled /\ Dir[d] = Dir[s] /\ d \in l1.open /\ d \in l1.enabled \cap l1.open
            BY DEF EnabledIn
        <2>2. l1.enabled \subseteq Devs /\ (l1.suspended => l1.enabled \cap l1.open = {})
            BY <1>5 DEF Calm, Good, RouterState, Steady
        <2> HIDE DEF E
        <2> QED
            BY <1>1, <2>1, <2>2, EnabledBelongs
    <1>7. ASSUME ~l.suspended, NEW d \in l.enabled, Wants(d, s)
          PROVE  d \in E /\ d \in l1.open /\ d \notin l1.idle /\ d \in Devs
        <2>1. s \in l.att[d] /\ d \in Devs
            BY <1>1, <1>3, <1>4, <1>7 DEF Calm, Served, RouterState
        <2>2. d \in l.open /\ d \notin l.idle
            BY <1>1, <1>3, <1>7, <2>1 DEF Calm, Good, Steady, Unidle, Wants
        <2> QED
            BY <1>5, <1>7, <2>1, <2>2 DEF OnlyAtt, EnabledIn, Wants
    <1>8. \A d \in E : Pinned(s) \/ s \notin Attachable[d] \/ d \notin l1.idle
        <2> SUFFICES ASSUME NEW d \in E, s \in Attachable[d] PROVE d \notin l1.idle
            OBVIOUS
        <2>1. d \in l.enabled /\ Dir[s] = Dir[d] /\ d \in l1.open
            BY <1>5 DEF OnlyAtt, EnabledIn
        <2>2. Wants(d, s)
            BY <1>1, <2>1 DEF Wants
        <2>3. ~l.suspended
            BY <1>3, <1>5, <2>1 DEF Steady, OnlyAtt
        <2> QED
            BY <1>7, <2>1, <2>2, <2>3
    <1> HIDE DEF E
    <1>9. Calm(m, L, Lists, W, None) /\ Gets(m, l1, s, E)
        <2>1. Calm(l1, L, Lists, W, None)
            BY <1>5
        <2>2. E \in SUBSET Devs
            BY <1>6
        <2>3. \A d \in E : Belongs(l1, d, s)
            BY <1>6
        <2>4. l1.suspended => E \cap l1.open = {}
            BY <1>6
        <2> QED
            BY <1>1, <1>2, <1>4, <1>8, <2>1, <2>2, <2>3, <2>4, AddCalm
    <1>10. Served(m, L, None)
        <2> SUFFICES ASSUME ~m.suspended, NEW d \in m.enabled, NEW t \in L, Wants(d, t)
                     PROVE  t \in m.att[d]
            BY <1>4 DEF Served
        <2>1. ~l.suspended /\ d \in l.enabled
            BY <1>5, <1>9 DEF Gets, OnlyAtt
        <2>2. CASE t = s
            BY <1>7, <1>9, <2>1, <2>2 DEF Gets
        <2>3. CASE t # s
            BY <1>4, <1>9, <2>3 DEF Calm, Served, W
        <2> QED
            BY <2>2, <2>3
    <1>11. Calm(m, L, Lists, L, None)
        BY <1>9, <1>10 DEF Calm
    <1> QED
        BY <1>3, <1>11 DEF Ready, L, None, m

\* Reconnecting a pinned stream while the system is awake: its devices are opened
\* again if they were closed.
LEMMA PinnedAecRefCalm ==
    ASSUME FaultFree, Ready(iodevs, streams, Lists, Range(streams), {}),
           NEW s \in Streams, Pinned(s), NEW f \in Faults, cras_iodev_list_set_aec_ref(s, f),
           ~iodevs.suspended
    PROVE  Ready(iodevs', streams, Lists, Range(streams), {})
    <1> DEFINE L == Range(streams)
               None == {}
               l == iodevs
               m == iodevs'
               W == L \ {s}
               D == PinnedDevs(s)
               l1 == disconnect_stream(l, s, Devs)
               l2 == init_pinned_devices(l1, D, s, f)
    <1>1. s \in L /\ s \in ApmStreams
        BY DEF cras_iodev_list_set_aec_ref
    <1>2. m = IF PinnedTo[s] \notin l1.devs THEN l1
              ELSE add_stream(l2, s, D \ init_failed(l1, D, f), f)
        BY DEF cras_iodev_list_set_aec_ref
    <1>3. /\ l \in RouterState /\ Good(l, L, Lists) /\ Calm(l, L, Lists, L, None)
          /\ streams \in Seq(Streams) /\ L \subseteq Lists
        BY ReadyFacts DEF Ready
    <1>4. s \in Lists /\ ~NoPinnedEcho
        BY <1>1, <1>3 DEF NoPinnedEcho
    <1>5. Good(m, L, Lists)
        BY <1>3, AecRefGood
    <1>6. init_failed(l1, D, f) = {} /\ D \ {} = D
        BY NoFault DEF init_failed
    <1>7. PinnedDevs(s) \subseteq Devs
        BY PinnedMore
    <1> HIDE DEF L, None, l, m, D
    <1>8. Calm(l1, L, Lists, W, None) /\ OnlyAtt(l1, l)
        <2>1. l1 = disconnect_stream(l, s, Devs)
            OBVIOUS
        <2> HIDE DEF l1
        <2> QED
            BY <1>3, <2>1, DisconnectCalm
    <1> HIDE DEF l1
    <1>9. ~l1.suspended
        BY <1>8 DEF OnlyAtt, l
    <1>10. PinnedTo[s] \in l1.devs => m = add_stream(l2, s, D, f)
        BY <1>2, <1>6
    <1>11. /\ l2 \in RouterState
           /\ l2.open = l1.open \cup D /\ l2.thr = l2.open /\ l2.att = l1.att
           /\ l2.retry = {} /\ l2.pins = l1.pins /\ l2.enabled = l1.enabled
           /\ l2.devs = l1.devs /\ l2.suspended = l1.suspended /\ l2.idle \subseteq l1.idle
           /\ D \subseteq l2.nodeOn /\ l1.nodeOn \subseteq l2.nodeOn
           /\ \A d \in l2.nodeOn : Group[d] \subseteq l2.nodeOn
        <2>1. l2 = init_pinned_devices(l1, PinnedDevs(s), s, f)
            BY DEF D
        <2> HIDE DEF l2
        <2> QED
            BY <1>8, <2>1, PinnedOpened DEF D
    <1> HIDE DEF l2, W
    <1>12. ASSUME PinnedTo[s] \in l1.devs PROVE Calm(m, L, Lists, W, None)
        <2>1. /\ SameButAtt(m, l2)
              /\ m.att = [d \in Devs |->
                           IF append_fails(l2, s, D, f) THEN l2.att[d] \ {s}
                           ELSE IF d \in D \cap l2.thr THEN l2.att[d] \cup {s} ELSE l2.att[d]]
            BY <1>10, <1>11, <1>12, AddFields
        <2>2. m.idle = l2.idle /\ m.nodeOn = l2.nodeOn
            BY <1>10, <1>11, <1>12 DEF add_stream, RouterState
        <2>3. ~append_fails(l2, s, D, f)
            BY NoFault DEF append_fails, Refuses
        <2>4. Runs(m, l1, s) /\ m.pins = l1.pins
            BY <1>7, <1>11, <2>1, <2>2, <2>3 DEF Runs, SameButAtt, D
        <2>5. Steady(m) /\ Served(m, W, None) /\ Unidle(m, L) /\ Apart(m, L)
            BY <1>4, <1>8, <1>9, <1>12, <2>4, RunsCalm
        <2> QED
            BY <1>5, <2>5 DEF Calm
    <1>13. ASSUME PinnedTo[s] \notin l1.devs PROVE Calm(m, L, Lists, W, None)
        BY <1>2, <1>8, <1>13
    <1>14. Calm(m, L, Lists, W, None)
        BY <1>12, <1>13
    <1>15. Served(m, L, None)
        BY <1>14 DEF Calm, Served, Wants, W
    <1>16. Calm(m, L, Lists, L, None)
        BY <1>14, <1>15 DEF Calm
    <1> QED
        BY <1>3, <1>16 DEF Ready, L, None, m

-----------------------------------------------------------------------------
(* The inductive invariant.                                                *)

\* The streams that are to be connected: resume_devs adds them one by one.
Visited == IF main.loop = "resume" THEN Range(streams) \ Range(main.todo) ELSE Range(streams)

\* The inductive invariant of the behaviours without faults.
CInv == messages = <<>> /\ Ready(iodevs, streams, Lists, Visited, {})

\* The initial state: the fallback devices are enabled and nothing is open.
LEMMA InitCInv ==
    ASSUME Init
    PROVE  CInv
    <1> DEFINE l == iodevs
               L == Range(streams)
    <1>1. /\ l.enabled = Fallbacks /\ l.open = {} /\ l.thr = {} /\ l.retry = {} /\ l.idle = {}
          /\ l.att = [d \in Devs |-> {}] /\ l.pins = [d \in Devs |-> 0] /\ l.nodeOn = {}
          /\ l.suspended = FALSE /\ messages = <<>> /\ main.loop = "none" /\ streams = <<>>
        BY DEF Init, Idle
    <1>2. Good(l, L, Lists) /\ streams \in Seq(Streams)
        BY InitInv DEF IInv, TypeOfLists
    <1>3. L \subseteq Lists /\ Visited = L
        BY <1>1 DEF Lists, Visited
    <1>4. L = {}
        BY <1>1 DEF Range
    <1> HIDE DEF l, L
    <1>5. Steady(l)
        <2>1. \A d \in Fallbacks : Group[d] = {d}
            BY RouterAssumption
        <2>2. \A dir \in Directions : \E d \in Fallbacks : Dir[d] = dir
            BY DirFacts
        <2>3. \A d \in Devs : l.pins[d] = 0
            BY <1>1
        <2> QED
            BY <1>1, <2>1, <2>2, <2>3 DEF Steady
    <1>6. Served(l, L, {}) /\ Unidle(l, L)
        BY <1>1, <1>4 DEF Served, Unidle
    <1>7. Apart(l, L)
        <2>1. \A d \in l.devs : Group[d] \subseteq l.devs
            BY RouterAssumption DEF Init, l
        <2>2. \A d \in Devs : l.att[d] = {}
            BY <1>1
        <2> QED
            BY <1>1, <2>1, <2>2, PinnedFacts DEF Apart
    <1>8. Calm(l, L, Lists, L, {})
        BY <1>2, <1>5, <1>6, <1>7 DEF Calm
    <1> QED
        BY <1>1, <1>2, <1>3, <1>8 DEF CInv, Ready, l, L

\* Outside of resume_devs all streams are to be connected.
LEMMA NotResuming ==
    ASSUME CInv, main.loop # "resume"
    PROVE  Ready(iodevs, streams, Lists, Range(streams), {})
    BY DEF CInv, Visited

\* Idle is no loop.
LEMMA IdleLoop == Idle.loop = "none" /\ Idle.loop # "resume"
    BY DEF Idle

\* A step that leaves the lists and the loop alone.
LEMMA RouterCalm ==
    ASSUME CInv, main = Idle, UNCHANGED <<streams, toDelete, main, messages>>,
           Ready(iodevs', streams, Lists, Range(streams), {})
    PROVE  CInv'
    <1>1. Visited' = Range(streams) /\ Lists' = Lists /\ streams' = streams /\ messages' = <<>>
        BY IdleLoop DEF Visited, Lists, CInv
    <1> QED
        BY <1>1 DEF CInv

\* Fewer listed streams, none of them forgotten.
LEMMA FewerCalm ==
    ASSUME NEW l, NEW L, NEW A, NEW V, NEW X, Calm(l, L, A, V, X), NEW M, M \subseteq L,
           NEW W, W \subseteq V
    PROVE  Calm(l, M, A, W, X)
    BY DEF Calm, Good, Served, Unidle, Apart

\* The loop goes on with what is left.
LEMMA LoopNotResume ==
    ASSUME NEW todo
    PROVE  Loop("delete", todo).loop # "resume"
    BY DEF Loop, Idle

\* A stream moves to the list of the streams to delete.
LEMMA MoveCalm ==
    ASSUME IInv, CInv, main.loop # "resume", NEW i \in 1..Len(streams), MoveToDelete(i),
           main'.loop # "resume"
    PROVE  CInv'
    <1> DEFINE s == streams[i]
               L == Range(streams)
               M == Range(streams')
    <1>1. /\ streams' = RemoveAt(streams, i) /\ toDelete' = Append(toDelete, s)
          /\ UNCHANGED <<iodevs, messages>>
        BY DEF MoveToDelete
    <1>2. /\ streams \in Seq(Streams) /\ toDelete \in Seq(Streams)
          /\ IsInjective(streams) /\ IsInjective(toDelete)
          /\ Range(streams) \cap Range(toDelete) = {}
        BY DEF IInv, TypeOfLists, InOneList
    <1>3. s \in Streams /\ s \in L
        BY <1>2 DEF Range
    <1>4. s \notin Range(toDelete)
        BY <1>2, <1>3
    <1>5. streams' \in Seq(Streams) /\ M = L \ {s}
        BY <1>1, <1>2, RemoveAtFacts, RemoveAtRange
    <1> HIDE DEF s
    <1>6. Range(toDelete') = Range(toDelete) \cup {s}
        BY <1>1, <1>2, <1>3, <1>4, AppendRange
    <1>7. Lists' = Lists
        BY <1>3, <1>5, <1>6 DEF Lists
    <1>8. Calm(iodevs, L, Lists, L, {}) /\ L \subseteq Lists
        BY NotResuming DEF Ready
    <1>9. Visited' = M
        BY DEF Visited
    <1>10. M \subseteq L
        BY <1>5
    <1> HIDE DEF L, M
    <1>11. Calm(iodevs, M, Lists, M, {})
        BY <1>8, <1>10, FewerCalm
    <1>12. iodevs' = iodevs /\ messages' = <<>>
        BY <1>1 DEF CInv
    <1>13. Ready(iodevs', streams', Lists', Visited', {})
        BY <1>5, <1>7, <1>8, <1>9, <1>10, <1>11, <1>12 DEF Ready, M
    <1> QED
        BY <1>12, <1>13 DEF CInv

\* One iteration of stream_list_rm_all_client_streams.
LEMMA ClientCalm ==
    ASSUME IInv, CInv, main.loop # "resume", NEW c \in Range(Client), move_client_stream(c)
    PROVE  CInv'
    <1> DEFINE mine == {i \in DOMAIN streams : Client[streams[i]] = c}
               i == FirstOf(mine)
    <1>1. /\ mine # {} /\ MoveToDelete(i)
          /\ \/ main' = Loop("delete", toDelete')
             \/ main' = [loop |-> "client", todo |-> <<>>, who |-> {c}]
        BY DEF move_client_stream
    <1>2. DOMAIN streams = 1..Len(streams) /\ Len(streams) \in Nat
        BY DEF IInv, TypeOfLists
    <1>3. mine \in SUBSET Nat /\ mine \subseteq 1..Len(streams)
        BY <1>2
    <1> HIDE DEF mine
    <1>4. i \in 1..Len(streams)
        BY <1>1, <1>3, FirstOfIsIn
    <1> HIDE DEF i
    <1>5. main'.loop # "resume"
        BY <1>1, LoopNotResume
    <1> QED
        BY <1>1, <1>4, <1>5, MoveCalm

\* stream_list_rm.
LEMMA RmCalm ==
    ASSUME IInv, CInv, NEW s \in Streams, stream_list_rm(s)
    PROVE  CInv'
    <1>1. /\ s \in Range(streams) /\ MoveToDelete(IndexOf(streams, s)) /\ main = Idle
          /\ main' = Loop("delete", toDelete')
        BY DEF stream_list_rm
    <1>2. IndexOf(streams, s) \in 1..Len(streams)
        BY <1>1, IndexFacts DEF IInv, TypeOfLists
    <1>3. main.loop # "resume" /\ main'.loop # "resume"
        BY <1>1, LoopNotResume, IdleLoop
    <1> QED
        BY <1>1, <1>2, <1>3, MoveCalm

\* delete_streams starts.
LEMMA BeginDeleteCalm ==
    ASSUME CInv, main = Idle, BeginDelete
    PROVE  CInv'
    <1>1. /\ UNCHANGED <<iodevs, streams, toDelete, messages>> /\ main' = Loop("delete", toDelete)
        BY DEF BeginDelete
    <1>2. main.loop # "resume" /\ main'.loop # "resume"
        BY <1>1, LoopNotResume, IdleLoop
    <1>3. Visited' = Range(streams) /\ Lists' = Lists /\ Visited = Range(streams)
        BY <1>1, <1>2 DEF Visited, Lists
    <1> QED
        BY <1>1, <1>3 DEF CInv

\* stream_list_direct_rm.
LEMMA DirectRmCalm ==
    ASSUME IInv, CInv, NEW s \in Streams, stream_list_direct_rm(s)
    PROVE  CInv'
    <1> DEFINE i == IndexOf(streams, s)
               L == Range(streams)
               M == Range(streams')
               list == streams'
               m == iodevs'
               B == Lists \ {s}
    <1>1. /\ s \in L /\ streams' = RemoveAt(streams, i) /\ main = Idle
          /\ m = stream_removed(iodevs, list, s)
          /\ UNCHANGED <<toDelete, main, messages>>
        BY DEF stream_list_direct_rm
    <1>2. streams \in Seq(Streams) /\ IsInjective(streams) /\ L \cap Range(toDelete) = {}
        BY DEF IInv, TypeOfLists, InOneList
    <1>3. i \in 1..Len(streams) /\ streams[i] = s
        BY <1>1, <1>2, IndexFacts
    <1> HIDE DEF i
    <1>4. list \in Seq(Streams) /\ M = L \ {s}
        BY <1>1, <1>2, <1>3, RemoveAtFacts, RemoveAtRange
    <1>5. Lists' = B
        BY <1>1, <1>2, <1>4 DEF Lists
    <1>6. main.loop # "resume" /\ main'.loop # "resume"
        BY <1>1, IdleLoop
    <1>7. Calm(iodevs, L, Lists, L, {}) /\ L \subseteq Lists
        BY <1>6, NotResuming DEF Ready
    <1>8. M \subseteq L /\ s \notin M
        BY <1>4
    <1>9. Visited' = M
        BY <1>6 DEF Visited
    <1> HIDE DEF L, M, m, B
    <1>10. Calm(iodevs, M, Lists, M, {})
        BY <1>7, <1>8, FewerCalm
    <1>11. Ready(iodevs, list, Lists, M, {}) /\ s \notin Range(list)
        BY <1>4, <1>7, <1>8, <1>10 DEF Ready, M
    <1> HIDE DEF list
    <1>12. Ready(m, list, B, M, {})
        BY <1>1, <1>11, RemovedCalm DEF B
    <1>13. messages' = <<>>
        BY <1>1 DEF CInv
    <1> QED
        BY <1>5, <1>9, <1>12, <1>13 DEF CInv, m, list

\* One iteration of delete_streams.
LEMMA DeleteCalm ==
    ASSUME IInv, CInv, delete_streams
    PROVE  CInv'
    <1> DEFINE s == Head(main.todo)
               rest == Tail(main.todo)
               keep == Draining(iodevs, s)
               i == IndexOf(toDelete, s)
               cut == RemoveAt(toDelete, i)
               m == stream_removed(iodevs, streams, s)
               L == Range(streams)
               B == Lists \ {s}
    <1>1. /\ main.loop = "delete"
          /\ toDelete' = (IF keep THEN toDelete ELSE cut)
          /\ iodevs' = (IF keep THEN iodevs ELSE m)
          /\ main' = Loop("delete", rest)
          /\ UNCHANGED <<streams, messages>>
        BY DEF delete_streams
    <1>2. /\ toDelete \in Seq(Streams) /\ main.todo \in Seq(Streams) /\ main.todo # <<>>
          /\ Range(main.todo) \subseteq Range(toDelete)
          /\ IsInjective(toDelete) /\ L \cap Range(toDelete) = {}
        BY <1>1 DEF IInv, TypeOfLists, InOneList, LoopsVisitListed
    <1>3. s \in Range(main.todo)
        BY <1>2, TailRange
    <1> HIDE DEF s, rest, keep
    <1>4. s \in Range(toDelete) /\ s \in Streams /\ s \notin L
        BY <1>2, <1>3, RangeFacts
    <1>5. i \in 1..Len(toDelete) /\ toDelete[i] = s
        BY <1>2, <1>4, IndexFacts
    <1> HIDE DEF i
    <1>6. Range(cut) = Range(toDelete) \ {s}
        BY <1>2, <1>5, RemoveAtFacts, RemoveAtRange
    <1> HIDE DEF cut
    <1>7. Ready(iodevs, streams, Lists, L, {})
        BY <1>1, NotResuming
    <1>8. main'.loop # "resume"
        BY <1>1, LoopNotResume
    <1>9. Visited' = L /\ messages' = <<>> /\ streams' = streams
        BY <1>1, <1>8 DEF Visited, CInv
    <1>10. CASE keep
        <2>1. Lists' = Lists /\ iodevs' = iodevs
            BY <1>1, <1>10 DEF Lists
        <2> QED
            BY <1>7, <1>9, <2>1 DEF CInv
    <1>11. CASE ~keep
        <2>1. Lists' = B /\ iodevs' = m
            BY <1>1, <1>4, <1>6, <1>11 DEF Lists
        <2>2. m = stream_removed(iodevs, streams, s) /\ s \notin Range(streams)
            BY <1>4
        <2> HIDE DEF m, L
        <2>3. Ready(m, streams, Lists \ {s}, L, {})
            BY <1>4, <1>7, <2>2, RemovedCalm
        <2> QED
            BY <1>9, <2>1, <2>3 DEF CInv
    <1> QED
        BY <1>10, <1>11

\* stream_list_add: the stream is refused or served.
LEMMA AddListCalm ==
    ASSUME FaultFree, IInv, CInv, NEW s \in Streams, NEW f \in Faults, stream_list_add(s, f)
    PROVE  CInv'
    <1> DEFINE i == InsertPos(streams, s)
               list == InsertAt(streams, i, s)
               r == stream_added_cb(iodevs, list, s, f)
               A == Lists \cup {s}
               L == Range(streams)
               M == Range(list)
    <1>1. /\ iodevs' = r.l /\ streams' = (IF r.ok THEN list ELSE streams)
          /\ UNCHANGED <<toDelete, main, messages>>
          /\ s \notin Range(streams) /\ s \notin Range(toDelete) /\ main = Idle
        BY DEF stream_list_add
    <1>2. streams \in Seq(Streams) /\ i \in 1..(Len(streams) + 1)
        BY InsertPosFacts DEF IInv, TypeOfLists
    <1> HIDE DEF i
    <1>3. /\ list \in Seq(Streams) /\ M = L \cup {s}
        BY <1>1, <1>2, InsertAtFacts, InsertAtRange DEF IInv, InOneList
    <1> HIDE DEF list
    <1>4. s \notin Lists
        BY <1>1 DEF Lists
    <1>5. main.loop # "resume" /\ main'.loop # "resume"
        BY <1>1, IdleLoop
    <1>6. Calm(iodevs, L, Lists, L, {}) /\ L \subseteq Lists /\ streams \in Seq(Streams)
        BY <1>5, NotResuming DEF Ready
    <1>7. M \subseteq A /\ s \in M /\ L \subseteq M
        BY <1>3, <1>6
    <1> HIDE DEF L, M
    <1>8. Calm(iodevs, M, A, L, {})
        <2>1. \A d \in Devs : iodevs.att[d] \subseteq Lists /\ iodevs.att[d] \cap M = iodevs.att[d] \cap L
            BY <1>3, <1>4, <1>6 DEF Calm, Good
        <2>2. iodevs.idle \subseteq Devs
            BY <1>6 DEF Calm, Good, RouterState
        <2>3. Good(iodevs, M, A)
            BY <1>6, <2>1 DEF Calm, Good
        <2>4. Unidle(iodevs, M)
            BY <1>6, <2>1, <2>2 DEF Calm, Unidle
        <2>5. Apart(iodevs, M)
            BY <1>6, <2>1 DEF Calm, Apart
        <2> QED
            BY <1>6, <2>3, <2>4, <2>5 DEF Calm
    <1> HIDE DEF A
    <1>9. Ready(iodevs, list, A, L, {}) /\ s \in Range(list)
        BY <1>3, <1>7, <1>8 DEF Ready, M
    <1>10. Ready(r.l, list, A, L \cup {s}, {}) /\ (r.ok \/ r.l = iodevs)
        <2>1. r = stream_added_cb(iodevs, list, s, f)
            OBVIOUS
        <2> HIDE DEF r
        <2> QED
            BY <1>9, <2>1, AddedCalm
    <1> HIDE DEF r
    <1>11. Visited' = Range(streams') /\ messages' = <<>>
        BY <1>1, <1>5 DEF Visited, CInv
    <1>12. CASE r.ok
        <2>1. streams' = list /\ Lists' = A /\ Visited' = L \cup {s}
            BY <1>1, <1>3, <1>11, <1>12 DEF Lists, A, L, M
        <2> QED
            BY <1>1, <1>10, <1>11, <2>1 DEF CInv
    <1>13. CASE ~r.ok
        <2>1. streams' = streams /\ Lists' = Lists /\ iodevs' = iodevs /\ Visited' = L
            BY <1>1, <1>10, <1>11, <1>13 DEF Lists, L
        <2> QED
            BY <1>6, <1>11, <2>1 DEF CInv, Ready, L
    <1> QED
        BY <1>12, <1>13

\* What Head and Tail leave of a list.
LEMMA HeadOrTail ==
    ASSUME NEW todo \in Seq(Streams), todo # <<>>
    PROVE  Range(todo) = {Head(todo)} \cup Range(Tail(todo))
    BY HeadTailRange

\* One iteration of resume_devs: one more stream is connected.
LEMMA ResumeStreamCalm ==
    ASSUME FaultFree, IInv, CInv, NEW f \in Faults, resume_stream(f)
    PROVE  CInv'
    <1> DEFINE s == Head(main.todo)
               rest == Tail(main.todo)
               r == stream_added_cb(iodevs, streams, s, f)
               L == Range(streams)
    <1>1. /\ main.loop = "resume" /\ iodevs' = r.l /\ main' = Loop("resume", rest)
          /\ UNCHANGED <<streams, toDelete, messages>>
        BY DEF resume_stream
    <1>2. /\ main.todo \in Seq(Streams) /\ main.todo # <<>>
          /\ Range(main.todo) \subseteq L
        BY <1>1 DEF IInv, TypeOfLists, LoopsVisitListed
    <1>3. Range(main.todo) = {s} \cup Range(rest) /\ rest \in Seq(Streams) /\ s \in Range(main.todo)
        BY <1>2, HeadOrTail, TailRange
    <1> HIDE DEF s, rest
    <1>4. s \in Streams /\ s \in Range(streams)
        BY <1>2, <1>3, RangeFacts
    <1>5. Ready(iodevs, streams, Lists, Visited, {}) /\ messages' = <<>>
        BY <1>1 DEF CInv
    <1>6. Ready(r.l, streams, Lists, Visited \cup {s}, {})
        <2>1. r = stream_added_cb(iodevs, streams, s, f)
            OBVIOUS
        <2> HIDE DEF r
        <2> QED
            BY <1>4, <1>5, <2>1, AddedCalm
    <1> HIDE DEF r
    <1>7. Visited \cup {s} = L \ (Range(rest) \ {s})
        BY <1>1, <1>2, <1>3 DEF Visited
    <1>8. Visited' \subseteq Visited \cup {s}
        <2>1. CASE rest = <<>>
            <3>1. Range(rest) = {}
                BY <2>1 DEF Range
            <3>2. Visited \cup {s} = L
                BY <1>7, <3>1
            <3> QED
                BY <1>1, <3>2 DEF Visited
        <2>2. CASE rest # <<>>
            <3>1. main'.loop = "resume" /\ main'.todo = rest
                BY <1>1, <2>2 DEF Loop
            <3> QED
                BY <1>1, <1>7, <3>1 DEF Visited
        <2> QED
            BY <2>1, <2>2
    <1>9. Ready(r.l, streams, Lists, Visited', {})
        <2> DEFINE W == Visited \cup {s}
        <2>1. Calm(r.l, L, Lists, W, {}) /\ W \subseteq L
            BY <1>6 DEF Ready
        <2>2. Visited' \in SUBSET W
            BY <1>8
        <2> HIDE DEF W, L
        <2>3. Calm(r.l, L, Lists, Visited', {})
            BY <2>1, <2>2, FewerCalm
        <2> QED
            BY <1>6, <2>1, <2>2, <2>3 DEF Ready, L
    <1>10. Lists' = Lists /\ streams' = streams
        BY <1>1 DEF Lists
    <1> QED
        BY <1>1, <1>5, <1>9, <1>10 DEF CInv

\* The router is ready before a handler that runs outside of the loops.
LEMMA IdleCalm ==
    ASSUME CInv, main = Idle
    PROVE  Ready(iodevs, streams, Lists, Range(streams), {})
    BY IdleLoop, NotResuming

\* resume_devs starts with every stream to connect.
LEMMA ResumeDevsCalm ==
    ASSUME CInv, resume_devs
    PROVE  CInv'
    <1>1. /\ iodevs' = [iodevs EXCEPT !.suspended = FALSE] /\ main' = Loop("resume", streams)
          /\ main = Idle /\ UNCHANGED <<streams, toDelete, messages>>
        BY DEF resume_devs
    <1>2. Ready(iodevs', streams, Lists, {}, {})
        <2>1. Ready(iodevs, streams, Lists, Range(streams), {})
            BY <1>1, IdleCalm
        <2> QED
            BY <1>1, <2>1, ResumeCalm
    <1>3. Visited' = {}
        <2>1. CASE streams = <<>>
            <3>1. Range(streams) = {}
                BY <2>1 DEF Range
            <3> QED
                BY <1>1, <3>1 DEF Visited
        <2>2. CASE streams # <<>>
            <3>1. main'.loop = "resume" /\ main'.todo = streams
                BY <1>1, <2>2 DEF Loop
            <3> QED
                BY <1>1, <3>1 DEF Visited
        <2> QED
            BY <2>1, <2>2
    <1>4. Lists' = Lists /\ streams' = streams /\ messages' = <<>>
        BY <1>1 DEF Lists, CInv
    <1> QED
        BY <1>2, <1>3, <1>4 DEF CInv

\* A step that leaves the router, the lists and the loop alone.
LEMMA StutterCalm ==
    ASSUME CInv, UNCHANGED <<iodevs, streams, toDelete, main, messages>>
    PROVE  CInv'
    <1>1. Visited' = Visited /\ Lists' = Lists
        BY DEF Visited, Lists
    <1> QED
        BY <1>1 DEF CInv

\* Every step of the system without faults keeps the invariant, the two that
\* CalmNext names excepted.
LEMMA NextCalm ==
    ASSUME FaultFree, IInv, CInv, CalmNext
    PROVE  CInv'
    <1>1. Next /\ ~RestartsUnused /\ ~EchoesSuspended
        BY DEF CalmNext
    <1>2. ASSUME NEW s \in Streams, NEW f \in Faults, stream_list_add(s, f)  PROVE CInv'
        BY <1>2, AddListCalm
    <1>3. ASSUME NEW s \in Streams, stream_list_rm(s)  PROVE CInv'
        BY <1>3, RmCalm
    <1>4. ASSUME NEW c \in Range(Client), stream_list_rm_all_client_streams(c)  PROVE CInv'
        <2>1. main = Idle /\ main.loop # "resume"
            BY <1>4, IdleLoop DEF stream_list_rm_all_client_streams
        <2>2. CASE move_client_stream(c)
            BY <2>1, <2>2, ClientCalm
        <2>3. CASE BeginDelete
            BY <2>1, <2>3, BeginDeleteCalm
        <2> QED
            BY <1>4, <2>2, <2>3 DEF stream_list_rm_all_client_streams
    <1>5. ASSUME rm_client_stream  PROVE CInv'
        <2>1. PICK c \in main.who : move_client_stream(c)
            BY <1>5 DEF rm_client_stream
        <2>2. c \in Range(Client) /\ main.loop # "resume"
            BY <1>5, <2>1 DEF IInv, TypeOfLists, rm_client_stream
        <2> QED
            BY <2>1, <2>2, ClientCalm
    <1>6. ASSUME NEW s \in Streams, stream_list_direct_rm(s)  PROVE CInv'
        BY <1>6, DirectRmCalm
    <1>7. ASSUME delete_streams  PROVE CInv'
        BY <1>7, DeleteCalm
    <1>8. ASSUME drain_timer  PROVE CInv'
        BY <1>8, BeginDeleteCalm DEF drain_timer
    <1>9. ASSUME NEW dir \in Directions, NEW d \in (Devs \ Fallbacks) \cup {NoDev},
                 NEW n \in Nodes, NEW f \in Faults, cras_iodev_list_select_node(dir, d, n, f)
          PROVE  CInv'
        <2>1. main = Idle /\ UNCHANGED <<streams, toDelete, main, messages>>
            BY <1>9 DEF cras_iodev_list_select_node, OnlyRouter
        <2>2. Ready(iodevs', streams, Lists, Range(streams), {})
            BY <1>9, <2>1, IdleCalm, SelectCalm
        <2> QED
            BY <2>1, <2>2, RouterCalm
    <1>10. ASSUME NEW d \in Devs, NEW n \in Nodes, NEW f \in Faults,
                  cras_iodev_list_add_active_node(d, n, f)
           PROVE  CInv'
        <2>1. main = Idle /\ UNCHANGED <<streams, toDelete, main, messages>>
            BY <1>10 DEF cras_iodev_list_add_active_node, OnlyRouter
        <2>2. Ready(iodevs', streams, Lists, Range(streams), {})
            BY <1>10, <2>1, IdleCalm, AddActiveCalm
        <2> QED
            BY <2>1, <2>2, RouterCalm
    <1>11. ASSUME NEW d \in Devs, NEW f \in Faults, cras_iodev_list_rm_active_node(d, f)
           PROVE  CInv'
        <2>1. main = Idle /\ UNCHANGED <<streams, toDelete, main, messages>>
            BY <1>11 DEF cras_iodev_list_rm_active_node, OnlyRouter
        <2>2. Ready(iodevs', streams, Lists, Range(streams), {})
            BY <1>11, <2>1, IdleCalm, RmActiveCalm
        <2> QED
            BY <2>1, <2>2, RouterCalm
    <1>12. ASSUME NEW d \in Devs, cras_iodev_list_add(d)  PROVE CInv'
        <2>1. /\ main = Idle /\ UNCHANGED <<streams, toDelete, main, messages>>
              /\ iodevs' = [iodevs EXCEPT !.fresh = @ \ Group[d], !.devs = @ \cup Group[d]]
            BY <1>12 DEF cras_iodev_list_add, OnlyRouter
        <2>2. d \in Devs \ Fallbacks
            BY <1>12 DEF cras_iodev_list_add, IInv, Good, RouterState
        <2>3. Ready(iodevs, streams, Lists, Range(streams), {})
            BY <2>1, IdleCalm
        <2>4. Ready(iodevs', streams, Lists, Range(streams), {})
            BY <2>1, <2>2, <2>3, ListAddCalm
        <2> QED
            BY <2>1, <2>4, RouterCalm
    <1>13. ASSUME NEW d \in Devs, NEW f \in Faults, cras_iodev_list_rm(d, f)  PROVE CInv'
        <2> DEFINE k == disable_and_close_dev_group(iodevs, streams, d, f)
        <2>1. /\ main = Idle /\ UNCHANGED <<streams, toDelete, main, messages>>
              /\ iodevs' = [k EXCEPT !.devs = @ \ Group[d]]
            BY <1>13 DEF cras_iodev_list_rm, OnlyRouter
        <2>2. d \in Devs \ Fallbacks
            BY <1>13 DEF cras_iodev_list_rm, IInv, Good, RouterState
        <2>3. Ready(iodevs, streams, Lists, Range(streams), {})
            BY <2>1, IdleCalm
        <2>4. k = disable_and_close_dev_group(iodevs, streams, d, f)
            OBVIOUS
        <2> HIDE DEF k
        <2>5. Ready(iodevs', streams, Lists, Range(streams), {})
            BY <1>13, <2>1, <2>2, <2>3, <2>4, ListRmCalm
        <2> QED
            BY <2>1, <2>5, RouterCalm
    <1>14. ASSUME suspend_devs  PROVE CInv'
        <2>1. main = Idle /\ UNCHANGED <<streams, toDelete, main, messages>>
            BY <1>14 DEF suspend_devs, OnlyRouter
        <2>2. Ready(iodevs', streams, Lists, Range(streams), {})
            BY <1>14, <2>1, IdleCalm, SuspendCalm
        <2> QED
            BY <2>1, <2>2, RouterCalm
    <1>15. ASSUME resume_devs  PROVE CInv'
        BY <1>15, ResumeDevsCalm
    <1>16. ASSUME NEW f \in Faults, resume_stream(f)  PROVE CInv'
        BY <1>16, ResumeStreamCalm
    <1>17. ASSUME NEW d \in Devs, NEW f \in Faults, init_device_cb(d, f)  PROVE CInv'
        <2>1. main = Idle /\ d \in iodevs.retry
            BY <1>17 DEF init_device_cb
        <2>2. Steady(iodevs)
            BY <2>1, IdleCalm, ReadyFacts
        <2> QED
            BY <2>1, <2>2 DEF Steady
    <1>18. ASSUME NEW expired \in SUBSET iodevs.idle, idle_dev_check(expired)  PROVE CInv'
        <2>1. main = Idle /\ UNCHANGED <<streams, toDelete, main, messages>>
            BY <1>18 DEF idle_dev_check
        <2>2. Ready(iodevs', streams, Lists, Range(streams), {})
            BY <1>18, <2>1, IdleCalm, IdleCheckCalm
        <2> QED
            BY <2>1, <2>2, RouterCalm
    <1>19. ASSUME NEW f \in Faults, handle_device_message(f)  PROVE CInv'
        BY <1>19 DEF handle_device_message, CInv
    <1>20. ASSUME NEW d \in Devs, NEW f \in Faults, reset_for_noise_cancellation(d, f)
           PROVE  CInv'
        <2>1. main = Idle /\ UNCHANGED <<streams, toDelete, main, messages>>
            BY <1>20 DEF reset_for_noise_cancellation, OnlyRouter
        <2>2. Ready(iodevs', streams, Lists, Range(streams), {})
            BY <1>1, <1>20, <2>1, IdleCalm, NoiseCalm
        <2> QED
            BY <2>1, <2>2, RouterCalm
    <1>21. ASSUME NEW s \in Streams, NEW f \in Faults, cras_iodev_list_set_aec_ref(s, f)
           PROVE  CInv'
        <2>1. main = Idle /\ UNCHANGED <<streams, toDelete, main, messages>>
            BY <1>21 DEF cras_iodev_list_set_aec_ref, OnlyRouter
        <2>2. Ready(iodevs, streams, Lists, Range(streams), {})
            BY <2>1, IdleCalm
        <2>3. CASE Pinned(s)
            <3>1. ~iodevs.suspended
                BY <1>1, <1>21, <2>3 DEF EchoesSuspended
            <3>2. Ready(iodevs', streams, Lists, Range(streams), {})
                BY <1>21, <2>2, <2>3, <3>1, PinnedAecRefCalm
            <3> QED
                BY <2>1, <3>2, RouterCalm
        <2>4. CASE ~Pinned(s)
            <3>1. Ready(iodevs', streams, Lists, Range(streams), {})
                BY <1>21, <2>2, <2>4, AecRefCalm
            <3> QED
                BY <2>1, <3>1, RouterCalm
        <2> QED
            BY <2>3, <2>4
    <1>22. ASSUME NEW d \in Devs, handle_dev_err(d)  PROVE CInv'
        BY <1>22 DEF handle_dev_err, FaultFree
    <1>23. ASSUME NEW s \in Streams, play_out(s)  PROVE CInv'
        BY <1>23, StutterCalm DEF play_out
    <1> QED
        BY <1>1, <1>2, <1>3, <1>4, <1>5, <1>6, <1>7, <1>8, <1>9, <1>10, <1>11, <1>12, <1>13,
           <1>14, <1>15, <1>16, <1>17, <1>18, <1>19, <1>20, <1>21, <1>22, <1>23 DEF Next
-----------------------------------------------------------------------------
(* What the invariant says.                                                *)

\* The invariant implies the properties TLC checks.
LEMMA CalmImplies ==
    ASSUME CInv
    PROVE  /\ NoPinnedEcho => OpenDevsAreUsed
           /\ OpenDevsHaveNode /\ AlwaysADevice /\ IdleDevsAreUnused
    <1>1. Ready(iodevs, streams, Lists, Visited, {})
        BY DEF CInv
    <1>2. iodevs \in RouterState /\ Steady(iodevs) /\ Unidle(iodevs, Range(streams))
        BY <1>1, ReadyFacts DEF Calm
    <1>3. NoPinnedEcho => OpenDevsAreUsed
        BY <1>2 DEF Steady, OpenDevsAreUsed
    <1>4. OpenDevsHaveNode
        BY <1>2 DEF Steady, OpenDevsHaveNode
    <1>5. AlwaysADevice
        <2> SUFFICES ASSUME NEW dir \in Directions  PROVE EnabledIn(iodevs, dir) # {}
            BY DEF AlwaysADevice
        <2>1. PICK d \in iodevs.enabled : Dir[d] = dir
            BY <1>2 DEF Steady
        <2> QED
            BY <2>1 DEF EnabledIn
    <1>6. IdleDevsAreUnused
        BY <1>2 DEF Unidle, IdleDevsAreUnused
    <1> QED
        BY <1>3, <1>4, <1>5, <1>6

\* Some device of every enabled group takes a normal stream.
LEMMA ServedImplies ==
    ASSUME CInv
    PROVE  NormalStreamsServed
    <1> SUFFICES ASSUME main.loop # "resume", ~iodevs.suspended,
                        NEW s \in Range(streams), ~Pinned(s)
                 PROVE  \E d \in Devs : s \in iodevs.att[d]
        BY DEF NormalStreamsServed
    <1>1. Ready(iodevs, streams, Lists, Range(streams), {})
        BY NotResuming
    <1>2. /\ iodevs \in RouterState /\ Steady(iodevs) /\ Served(iodevs, Range(streams), {})
          /\ iodevs.enabled \subseteq Devs
        BY <1>1, ReadyFacts DEF Calm
    <1>3. s \in Streams
        BY <1>1, RangeFacts DEF Ready
    <1>4. Dir[s] \in Directions
        BY <1>3, RouterAssumption
    <1>5. PICK e \in iodevs.enabled : Dir[e] = Dir[s]
        BY <1>2, <1>4 DEF Steady
    <1>6. e \in Devs
        BY <1>2
    <1>7. PICK g \in Group[e] : s \in Attachable[g]
        BY <1>3, <1>5, <1>6, RouterAssumption
    <1>8. g \in Devs /\ Dir[g] = Dir[s]
        BY <1>5, <1>6, <1>7, GroupFacts
    <1>9. g \in iodevs.enabled
        BY <1>2, <1>7 DEF Steady
    <1>10. s \in iodevs.att[g]
        BY <1>2, <1>7, <1>8, <1>9 DEF Served, Wants
    <1> QED
        BY <1>8, <1>10

\* Suspending has taken every listed stream off.
LEMMA ApartImplies ==
    ASSUME CInv
    PROVE  SuspendedIsDisconnected
    <1>1. Ready(iodevs, streams, Lists, Visited, {})
        BY DEF CInv
    <1>2. Apart(iodevs, Range(streams))
        BY <1>1, ReadyFacts DEF Calm
    <1> QED
        BY <1>2 DEF Apart, SuspendedIsDisconnected

\* The invariant of the behaviours without faults holds in every state of them.
THEOREM CalmInvariance ==
    ASSUME FaultFree
    PROVE  CalmSpec => [](IInv /\ CInv)
    <1>1. Init => IInv /\ CInv
        BY InitInv, InitCInv
    <1>2. IInv /\ CInv /\ [CalmNext]_vars => (IInv /\ CInv)'
        <2> SUFFICES ASSUME IInv, CInv, [CalmNext]_vars PROVE IInv' /\ CInv'
            OBVIOUS
        <2>1. IInv'
            BY NextInv DEF CalmNext
        <2>2. CASE CalmNext
            BY <2>1, <2>2, NextCalm
        <2>3. CASE UNCHANGED vars
            BY <2>1, <2>3, StutterCalm DEF vars
        <2> QED
            BY <2>2, <2>3
    <1> QED
        BY <1>1, <1>2, PTL DEF CalmSpec

\* When nothing fails, no handler of cras_iodev_list.c leaves a device open that
\* it takes out of use: what is open is enabled or has pinned streams.  A stream
\* with an echo reference is assumed not to be pinned, since set_aec_ref opens the
\* device of a pinned stream without counting it; CalmSpec leaves out the restart
\* of a device that is open but not enabled.
THEOREM NoDevLeftOpen ==
    ASSUME FaultFree, NoPinnedEcho
    PROVE  CalmSpec => []OpenDevsAreUsed
    <1>1. CInv => OpenDevsAreUsed
        BY CalmImplies
    <1> QED
        BY <1>1, CalmInvariance, PTL

\* When nothing fails, open_dev never meets a device whose node update_active_node
\* has switched off, in the behaviours of CalmSpec.
THEOREM NodesAreOn ==
    ASSUME FaultFree
    PROVE  CalmSpec => []OpenDevsHaveNode
    <1>1. CInv => OpenDevsHaveNode
        BY CalmImplies
    <1> QED
        BY <1>1, CalmInvariance, PTL

\* When nothing fails, the handlers that disable devices never leave a direction
\* without an enabled device.  The exception is the restart of a device that is
\* open but not enabled (RestartsUnused), which CalmSpec leaves out: it disables
\* the fallback device although that may be the only one.
THEOREM DeviceAlways ==
    ASSUME FaultFree
    PROVE  CalmSpec => []AlwaysADevice
    <1>1. CInv => AlwaysADevice
        BY CalmImplies
    <1> QED
        BY <1>1, CalmInvariance, PTL

\* When nothing fails, idle_dev_check never closes a device under a normal stream
\* that plays to it, in the behaviours of CalmSpec.
THEOREM IdleNeverCutsOff ==
    ASSUME FaultFree
    PROVE  CalmSpec => []IdleDevsAreUnused
    <1>1. CInv => IdleDevsAreUnused
        BY CalmImplies
    <1> QED
        BY <1>1, CalmInvariance, PTL

\* When nothing fails, every normal stream is attached to a device whenever the
\* system is awake, whatever devices come, go, are selected or, being enabled, are
\* restarted.  The restart of a device that is open but not enabled, which takes
\* the fallback device from under the normal streams, is left out by CalmSpec.
THEOREM StreamsAreServed ==
    ASSUME FaultFree
    PROVE  CalmSpec => []NormalStreamsServed
    <1>1. CInv => NormalStreamsServed
        BY ServedImplies
    <1> QED
        BY <1>1, CalmInvariance, PTL

\* When nothing fails, no listed stream is attached anywhere while
\* stream_list_suspended is set, pinned streams on the devices of their group that
\* suspend_devs misses excepted, as the property says.  CalmSpec leaves out the
\* echo reference of a pinned stream set while the system is suspended
\* (EchoesSuspended), which opens its device and attaches it.
THEOREM SuspendDisconnects ==
    ASSUME FaultFree
    PROVE  CalmSpec => []SuspendedIsDisconnected
    <1>1. CInv => SuspendedIsDisconnected
        BY ApartImplies
    <1> QED
        BY <1>1, CalmInvariance, PTL
=============================================================================
