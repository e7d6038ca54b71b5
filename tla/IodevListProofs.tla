-------------------------- MODULE IodevListProofs ---------------------------
(***************************************************************************)
(* Proofs about the router, for every set of devices, groups, streams,     *)
(* clients and faults.                                                     *)
(*                                                                         *)
(* The properties are not inductive one by one: a retry is scheduled for   *)
(* devices that failed to open, so "retries only when closed" needs what   *)
(* opening does; a disabled device may keep pinned streams only, which     *)
(* needs num_pinned_streams of a fallback device to be 0.  Good collects   *)
(* what every C function of the router preserves, and there is one lemma   *)
(* per function: XGood says that X takes a good state to a good state.     *)
(* The main invariant IInv adds what the loops over the stream lists need. *)
(***************************************************************************)
EXTENDS IodevList, ListProofs, TLAPS

\* The routing rule of StreamsWhereTheyBelong for stream s on device d.
Belongs(l, d, s) ==
    /\ Dir[s] = Dir[d]
    /\ \/ d \in l.enabled /\ (~Pinned(s) \/ d \in Fallbacks)
       \/ Pinned(s) /\ PinnedTo[s] \in Group[d]

\* A good state of the router, with L the streams on the list and A the ones that
\* are not destroyed yet.
Good(l, L, A) ==
    /\ l \in RouterState
    /\ l.thr \subseteq l.open
    /\ \A d \in Devs : d \in l.thr \/ l.att[d] = {}
    /\ l.retry \cap l.open = {}
    /\ \A d \in Fallbacks : l.pins[d] = 0
    /\ \A d \in Devs : l.att[d] \subseteq A
    /\ \A d \in Devs : \A s \in l.att[d] \cap L : Belongs(l, d, s)

\* What close_dev leaves of the state.
LEMMA CloseFields ==
    ASSUME NEW l \in RouterState, NEW D \in SUBSET Devs
    PROVE  LET m == close_devs(l, D)
               C == D \cap l.open
           IN /\ m \in RouterState
              /\ m.open = l.open \ C /\ m.thr = l.thr \ C
              /\ m.att = [d \in Devs |-> IF d \in C THEN {} ELSE l.att[d]]
              /\ m.retry = l.retry /\ m.pins = l.pins /\ m.enabled = l.enabled
              /\ m.devs = l.devs /\ m.suspended = l.suspended
    BY DEF close_devs, RouterState

\* Closing devices keeps Good: the audio thread lets go of what is closed.
LEMMA CloseGood ==
    ASSUME NEW l, NEW L, NEW A, Good(l, L, A), NEW D \in SUBSET Devs
    PROVE  Good(close_devs(l, D), L, A)
    <1> DEFINE m == close_devs(l, D)
    <1>1. l \in RouterState
        BY DEF Good
    <1>2. /\ m \in RouterState
          /\ m.open = l.open \ (D \cap l.open) /\ m.thr = l.thr \ (D \cap l.open)
          /\ m.att = [d \in Devs |-> IF d \in D \cap l.open THEN {} ELSE l.att[d]]
          /\ m.retry = l.retry /\ m.pins = l.pins /\ m.enabled = l.enabled
        BY <1>1, CloseFields
    <1> HIDE DEF m
    <1>3. /\ m.thr \subseteq m.open
          /\ \A d \in Devs : d \in m.thr \/ m.att[d] = {}
          /\ m.retry \cap m.open = {}
          /\ \A d \in Fallbacks : m.pins[d] = 0
          /\ \A d \in Devs : m.att[d] \subseteq A
        BY <1>2 DEF Good
    <1>4. \A d \in Devs : \A s \in m.att[d] \cap L : Belongs(m, d, s)
        BY <1>2 DEF Good, Belongs
    <1> QED
        BY <1>2, <1>3, <1>4 DEF Good, m

\* What open faults may and may not hit.
LEMMA FaultFacts ==
    ASSUME NEW f \in Faults
    PROVE  f.open \subseteq Devs \ Fallbacks
    BY RouterAssumption DEF Faults

\* A number of channels for each device of D.
FormatOf(D) == [D -> Nat]

\* What init_device changes.
LEMMA InitFields ==
    ASSUME NEW l \in RouterState, NEW D \in SUBSET Devs,
           NEW fmt \in FormatOf(D), NEW f
    PROVE  LET m == init_devices(l, D, fmt, f)
           IN /\ m \in RouterState
              /\ m.open = l.open \cup ((D \ l.open) \ f.open)
              /\ m.thr = l.thr \cup ((D \ l.open) \ f.open)
              /\ m.att = l.att /\ m.retry = l.retry \ (D \ l.open)
              /\ m.pins = l.pins /\ m.enabled = l.enabled
              /\ m.devs = l.devs /\ m.suspended = l.suspended
    <1> DEFINE try == D \ l.open
               up == try \ f.open
               chan == [d \in Devs |-> IF d \in up
                             THEN IF fmt[d] <= MaxChannels[d] THEN fmt[d] ELSE MaxChannels[d]
                             ELSE l.chan[d]]
    <1>1. chan \in [Devs -> Nat]
        BY RouterAssumption DEF RouterState, FormatOf
    <1>3. up \subseteq Devs
        OBVIOUS
    <1> DEFINE m == [l EXCEPT !.idle = l.idle \ D, !.retry = l.retry \ try,
                      !.open = l.open \cup up, !.thr = l.thr \cup up,
                      !.resetPending = l.resetPending \ up, !.chan = chan]
    <1>2. init_devices(l, D, fmt, f) = m
        BY DEF init_devices
    <1> HIDE DEF chan, up, try
    <1>4. m \in RouterState
        BY <1>1, <1>3 DEF RouterState
    <1>5. /\ m.open = l.open \cup up
          /\ m.thr = l.thr \cup up
          /\ m.att = l.att
          /\ m.retry = l.retry \ try
          /\ m.pins = l.pins
          /\ m.enabled = l.enabled
          /\ m.devs = l.devs
          /\ m.suspended = l.suspended
        BY DEF RouterState
    <1> HIDE DEF m
    <1> QED
        BY <1>2, <1>4, <1>5 DEF up, try

\* Opening devices keeps Good; a device whose open failed is not open.
LEMMA InitGood ==
    ASSUME NEW l, NEW L, NEW A, Good(l, L, A), NEW D \in SUBSET Devs,
           NEW fmt \in FormatOf(D), NEW f
    PROVE  /\ Good(init_devices(l, D, fmt, f), L, A)
           /\ init_failed(l, D, f) \cap init_devices(l, D, fmt, f).open = {}
    <1> DEFINE m == init_devices(l, D, fmt, f)
    <1>1. l \in RouterState
        BY DEF Good
    <1>2. /\ m \in RouterState
          /\ m.open = l.open \cup ((D \ l.open) \ f.open)
          /\ m.thr = l.thr \cup ((D \ l.open) \ f.open)
          /\ m.att = l.att /\ m.retry = l.retry \ (D \ l.open)
          /\ m.pins = l.pins /\ m.enabled = l.enabled
        BY <1>1, InitFields
    <1> HIDE DEF m
    <1>3. /\ m.thr \subseteq m.open
          /\ \A d \in Devs : d \in m.thr \/ m.att[d] = {}
          /\ m.retry \cap m.open = {}
          /\ \A d \in Fallbacks : m.pins[d] = 0
          /\ \A d \in Devs : m.att[d] \subseteq A
        BY <1>2 DEF Good
    <1>4. \A d \in Devs : \A s \in m.att[d] \cap L : Belongs(m, d, s)
        BY <1>2 DEF Good, Belongs
    <1>5. init_failed(l, D, f) \cap m.open = {}
        BY <1>2 DEF init_failed
    <1> QED
        BY <1>2, <1>3, <1>4, <1>5 DEF Good, m

\* A retry may be scheduled for devices that are closed.
LEMMA RetryGood ==
    ASSUME NEW l, NEW L, NEW A, Good(l, L, A), NEW D \in SUBSET (Devs \ Fallbacks),
           D \cap l.open = {}
    PROVE  LET m == schedule_init_device_retry(l, D)
           IN /\ Good(m, L, A)
              /\ m.open = l.open /\ m.thr = l.thr /\ m.att = l.att /\ m.pins = l.pins
              /\ m.enabled = l.enabled /\ m.devs = l.devs /\ m.suspended = l.suspended
    <1> DEFINE m == schedule_init_device_retry(l, D)
    <1>1. l \in RouterState
        BY DEF Good
    <1>2. /\ m \in RouterState
          /\ m.open = l.open /\ m.thr = l.thr /\ m.att = l.att /\ m.pins = l.pins
          /\ m.enabled = l.enabled /\ m.retry = l.retry \cup D
          /\ m.devs = l.devs /\ m.suspended = l.suspended
        BY <1>1 DEF schedule_init_device_retry, RouterState
    <1> HIDE DEF m
    <1> QED
        BY <1>2 DEF Good, Belongs, m

\* The nodes that are switched on do not matter to Good.
LEMMA NodeGood ==
    ASSUME NEW l, NEW L, NEW A, Good(l, L, A), NEW N \in SUBSET Devs
    PROVE  LET m == [l EXCEPT !.nodeOn = N]
           IN /\ Good(m, L, A)
              /\ m.open = l.open /\ m.thr = l.thr /\ m.att = l.att /\ m.pins = l.pins
              /\ m.enabled = l.enabled /\ m.devs = l.devs /\ m.suspended = l.suspended
    <1> DEFINE m == [l EXCEPT !.nodeOn = N]
    <1>1. l \in RouterState
        BY DEF Good
    <1>2. /\ m \in RouterState
          /\ m.open = l.open /\ m.thr = l.thr /\ m.att = l.att /\ m.pins = l.pins
          /\ m.enabled = l.enabled /\ m.retry = l.retry
          /\ m.devs = l.devs /\ m.suspended = l.suspended
        BY <1>1 DEF RouterState
    <1> HIDE DEF m
    <1> QED
        BY <1>2 DEF Good, Belongs, m

\* Nor does update_active_node.
LEMMA SwitchGood ==
    ASSUME NEW l, NEW L, NEW A, Good(l, L, A), NEW d \in Devs, NEW on \in BOOLEAN
    PROVE  LET m == SwitchNode(l, d, on)
           IN /\ Good(m, L, A)
              /\ m.open = l.open /\ m.thr = l.thr /\ m.att = l.att /\ m.pins = l.pins
              /\ m.enabled = l.enabled /\ m.devs = l.devs /\ m.suspended = l.suspended
    <1> DEFINE N == IF on THEN l.nodeOn \cup Group[d] ELSE l.nodeOn \ Group[d]
    <1>1. N \in SUBSET Devs
        BY RouterAssumption DEF Good, RouterState
    <1>2. SwitchNode(l, d, on) = [l EXCEPT !.nodeOn = N]
        BY DEF SwitchNode
    <1> HIDE DEF N
    <1> QED
        BY <1>1, <1>2, NodeGood

\* Only the attached streams change.
SameButAtt(m, l) ==
    /\ m \in RouterState
    /\ m.open = l.open /\ m.thr = l.thr /\ m.retry = l.retry /\ m.pins = l.pins
    /\ m.enabled = l.enabled /\ m.devs = l.devs /\ m.suspended = l.suspended

\* Changing the attached streams changes nothing else.
LEMMA AttFields ==
    ASSUME NEW l \in RouterState, NEW a \in [Devs -> SUBSET Streams]
    PROVE  SameButAtt([l EXCEPT !.att = a], l) /\ [l EXCEPT !.att = a].att = a
    BY DEF RouterState, SameButAtt

\* New attachments keep Good if they are where they belong, on devices of the
\* thread.
LEMMA AttGood ==
    ASSUME NEW l, NEW L, NEW A, Good(l, L, A), NEW m, SameButAtt(m, l),
           \A d \in Devs : d \in l.thr \/ m.att[d] = {},
           \A d \in Devs : m.att[d] \subseteq A,
           \A d \in Devs : \A s \in m.att[d] \cap L : Belongs(l, d, s)
    PROVE  Good(m, L, A)
    BY DEF Good, SameButAtt, Belongs

\* What adding one stream to open devices changes.
LEMMA AddFields ==
    ASSUME NEW l \in RouterState, NEW s \in Streams, NEW D, NEW f
    PROVE  LET m == add_stream(l, s, D, f)
           IN /\ SameButAtt(m, l)
              /\ m.att = [d \in Devs |->
                            IF append_fails(l, s, D, f) THEN l.att[d] \ {s}
                            ELSE IF d \in D \cap l.thr THEN l.att[d] \cup {s} ELSE l.att[d]]
    <1> DEFINE a == [d \in Devs |->
                            IF append_fails(l, s, D, f) THEN l.att[d] \ {s}
                            ELSE IF d \in D \cap l.thr THEN l.att[d] \cup {s} ELSE l.att[d]]
    <1>1. a \in [Devs -> SUBSET Streams]
        BY DEF RouterState
    <1>2. add_stream(l, s, D, f) = [l EXCEPT !.att = a]
        BY DEF add_stream
    <1> HIDE DEF a
    <1>3. SameButAtt([l EXCEPT !.att = a], l) /\ [l EXCEPT !.att = a].att = a
        BY <1>1, AttFields
    <1> QED
        BY <1>2, <1>3 DEF a

\* Adding a stream keeps Good; a refused stream is attached nowhere.
LEMMA AddGood ==
    ASSUME NEW l, NEW L, NEW A, Good(l, L, A), NEW s \in Streams, s \in A,
           NEW D, NEW f,
           \A d \in Devs \cap D : Belongs(l, d, s)
    PROVE  LET m == add_stream(l, s, D, f)
           IN /\ Good(m, L, A) /\ SameButAtt(m, l)
              /\ append_fails(l, s, D, f) => \A d \in Devs : s \notin m.att[d]
    <1> DEFINE m == add_stream(l, s, D, f)
    <1>1. l \in RouterState
        BY DEF Good
    <1>2. /\ SameButAtt(m, l)
          /\ m.att = [d \in Devs |->
                        IF append_fails(l, s, D, f) THEN l.att[d] \ {s}
                        ELSE IF d \in D \cap l.thr THEN l.att[d] \cup {s} ELSE l.att[d]]
        BY <1>1, AddFields
    <1> HIDE DEF m
    <1>3. \A d \in Devs : d \in l.thr \/ m.att[d] = {}
        BY <1>2 DEF Good
    <1>4. \A d \in Devs : m.att[d] \subseteq A
        BY <1>2 DEF Good
    <1>5. \A d \in Devs : \A t \in m.att[d] \cap L : Belongs(l, d, t)
        BY <1>2 DEF Good
    <1>6. Good(m, L, A)
        BY <1>2, <1>3, <1>4, <1>5, AttGood
    <1>7. append_fails(l, s, D, f) => \A d \in Devs : s \notin m.att[d]
        BY <1>2
    <1> QED
        BY <1>2, <1>6, <1>7 DEF m

\* Disconnecting a stream from every device keeps Good.
LEMMA DisconnectGood ==
    ASSUME NEW l, NEW L, NEW A, Good(l, L, A), NEW s \in Streams
    PROVE  LET m == disconnect_stream(l, s, Devs)
           IN Good(m, L, A) /\ SameButAtt(m, l) /\ \A d \in Devs : m.att[d] = l.att[d] \ {s}
    <1> DEFINE a == [d \in Devs |-> IF d \in Devs THEN l.att[d] \ {s} ELSE l.att[d]]
               m == disconnect_stream(l, s, Devs)
    <1>1. l \in RouterState /\ a \in [Devs -> SUBSET Streams]
        BY DEF Good, RouterState
    <1>2. m = [l EXCEPT !.att = a]
        BY DEF disconnect_stream
    <1>3. \A d \in Devs : a[d] = l.att[d] \ {s}
        OBVIOUS
    <1> HIDE DEF a
    <1>4. SameButAtt(m, l) /\ m.att = a
        BY <1>1, <1>2, AttFields
    <1> HIDE DEF m
    <1>5. /\ \A d \in Devs : d \in l.thr \/ m.att[d] = {}
          /\ \A d \in Devs : m.att[d] \subseteq A
          /\ \A d \in Devs : \A t \in m.att[d] \cap L : Belongs(l, d, t)
        BY <1>3, <1>4 DEF Good
    <1>6. Good(m, L, A)
        BY <1>4, <1>5, AttGood
    <1> QED
        BY <1>3, <1>4, <1>6 DEF m

\* init_and_attach_streams only picks streams that belong to the device.
LEMMA MayAttachBelongs ==
    ASSUME NEW l, NEW d \in Devs, NEW s \in Streams, MayAttach(l, d, s)
    PROVE  Belongs(l, d, s)
    BY DEF MayAttach, Belongs

\* So do the streams that get appended; they are on the list.
LEMMA AppendedBelong ==
    ASSUME NEW l, NEW list \in Seq(Streams), NEW d \in Devs, NEW f,
           NEW s \in Appended(l, list, d, f)
    PROVE  s \in Range(list) /\ s \in Streams /\ Belongs(l, d, s)
    <1>1. PICK i \in DOMAIN list : s = list[i] /\ MayAttach(l, d, list[i])
        BY DEF Appended, Attaching
    <1>2. s \in Range(list) /\ s \in Streams
        BY <1>1 DEF Range
    <1> QED
        BY <1>1, <1>2, MayAttachBelongs

\* Attaching the streams of the list to devices keeps Good.
LEMMA AttachGood ==
    ASSUME NEW l, NEW list \in Seq(Streams), NEW A, Range(list) \subseteq A,
           Good(l, Range(list), A), NEW D, NEW f
    PROVE  LET m == attach_batches(l, list, D, f)
           IN Good(m, Range(list), A) /\ SameButAtt(m, l)
    <1> DEFINE L == Range(list)
               live == D \cap l.thr
               refusedAfter(d) == UNION {Refused(l, list, e, f) :
                                    e \in {x \in live : d \in D => Pos[x] >= Pos[d]}}
               new(d) == IF d \in live THEN l.att[d] \cup Appended(l, list, d, f) ELSE l.att[d]
               a == [d \in Devs |-> new(d) \ refusedAfter(d)]
               m == attach_batches(l, list, D, f)
    <1>1. m = [l EXCEPT !.att = a]
        BY DEF attach_batches
    <1> HIDE DEF refusedAfter
    <1>2. l \in RouterState /\ l.att \in [Devs -> SUBSET Streams]
        BY DEF Good, RouterState
    <1>3. \A d \in Devs : \A s \in Appended(l, list, d, f) :
             s \in L /\ s \in Streams /\ Belongs(l, d, s)
        BY AppendedBelong
    <1>4. \A d \in Devs : new(d) \subseteq Streams
        BY <1>2, <1>3
    <1>5. \A d \in Devs : a[d] \subseteq new(d)
        OBVIOUS
    <1>6. \A d \in Devs : new(d) \subseteq A
        BY <1>3 DEF Good
    <1>7. \A d \in Devs : \A s \in new(d) \cap L : Belongs(l, d, s)
        BY <1>3 DEF Good
    <1>8. \A d \in Devs : d \in l.thr \/ new(d) = {}
        BY DEF Good
    <1>9. DOMAIN a = Devs /\ a = [d \in Devs |-> a[d]]
        OBVIOUS
    <1> HIDE DEF a, new
    <1>10. a \in [Devs -> SUBSET Streams]
        BY <1>4, <1>5, <1>9
    <1>11. SameButAtt(m, l) /\ m.att = a
        BY <1>1, <1>2, <1>10, AttFields
    <1> HIDE DEF m, L
    <1>12. /\ \A d \in Devs : d \in l.thr \/ m.att[d] = {}
           /\ \A d \in Devs : m.att[d] \subseteq A
           /\ \A d \in Devs : \A t \in m.att[d] \cap L : Belongs(l, d, t)
        BY <1>5, <1>6, <1>7, <1>8, <1>11
    <1>13. Good(m, L, A)
        BY <1>11, <1>12, AttGood DEF L
    <1> QED
        BY <1>11, <1>13 DEF m, L

\* A loop that stops at the first hit stops at a hit.
LEMMA FirstOfIsIn ==
    ASSUME NEW S \in SUBSET Nat, S # {}
    PROVE  FirstOf(S) \in S
    BY NatHasLeast DEF FirstOf

\* The first stream that may attach gives every device a number of channels.
LEMMA FormatsType ==
    ASSUME NEW l, NEW list \in Seq(Streams), NEW D
    PROVE  LET want == HasStreams(l, list, D)
           IN Formats(l, list, want) \in FormatOf(want)
    <1> DEFINE want == HasStreams(l, list, D)
    <1>1. ASSUME NEW d \in want
          PROVE  Channels[list[FirstOf(Attaching(l, list, d))]] \in Nat
        <2>1. Attaching(l, list, d) # {} /\ Attaching(l, list, d) \in SUBSET DOMAIN list
            BY DEF HasStreams, Attaching
        <2>2. DOMAIN list \subseteq Nat
            OBVIOUS
        <2>3. FirstOf(Attaching(l, list, d)) \in DOMAIN list
            BY <2>1, <2>2, FirstOfIsIn
        <2>4. list[FirstOf(Attaching(l, list, d))] \in Streams
            BY <2>3
        <2> QED
            BY <2>4, RouterAssumption
    <1> HIDE DEF want
    <1> QED
        BY <1>1 DEF Formats, FormatOf, want

\* init_and_attach_streams keeps Good, and the devices it fails on stay closed.
LEMMA InitAttachGood ==
    ASSUME NEW l, NEW list \in Seq(Streams), NEW A, Range(list) \subseteq A,
           Good(l, Range(list), A), NEW D \in SUBSET Devs, NEW f \in Faults
    PROVE  LET m == init_and_attach_streams(l, list, D, f)
               failed == attach_failed(l, list, D, f)
           IN /\ Good(m, Range(list), A)
              /\ m.enabled = l.enabled /\ m.pins = l.pins
              /\ m.devs = l.devs /\ m.suspended = l.suspended
              /\ failed \in SUBSET (Devs \ Fallbacks)
              /\ failed \cap m.open = {}
    <1> DEFINE want == HasStreams(l, list, D)
               fmt == Formats(l, list, want)
               bad == init_failed(l, want, f)
               m1 == init_devices(l, want, fmt, f)
               m2 == attach_batches(m1, list, want \ bad, f)
               m == init_and_attach_streams(l, list, D, f)
               failed == attach_failed(l, list, D, f)
    <1>1. CASE l.suspended
        <2>1. m = l /\ failed = {}
            BY <1>1 DEF init_and_attach_streams, attach_failed
        <2> QED
            BY <2>1
    <1>2. CASE ~l.suspended
        <2>1. m = m2 /\ failed = bad
            BY <1>2 DEF init_and_attach_streams, attach_failed
        <2>2. want \in SUBSET Devs /\ fmt \in FormatOf(want) /\ l \in RouterState
            BY FormatsType DEF HasStreams, Good
        <2>3. bad \in SUBSET (Devs \ Fallbacks)
            BY FaultFacts DEF init_failed
        <2> HIDE DEF fmt, want
        <2>4. /\ Good(m1, Range(list), A)
              /\ bad \cap m1.open = {}
            BY <2>2, InitGood
        <2>5. /\ m1.pins = l.pins /\ m1.enabled = l.enabled
              /\ m1.devs = l.devs /\ m1.suspended = l.suspended
            BY <2>2, InitFields
        <2> HIDE DEF m1, bad
        <2>6. Good(m2, Range(list), A) /\ SameButAtt(m2, m1)
            BY <2>4, AttachGood
        <2> HIDE DEF m2, m, failed
        <2>7. QED
            BY <2>1, <2>3, <2>4, <2>5, <2>6 DEF SameButAtt, m, failed
    <1> QED
        BY <1>1, <1>2

-----------------------------------------------------------------------------
(* Enabling and disabling.                                                 *)

\* Groups partition the devices; a device with a group is no fallback.
LEMMA GroupFacts ==
    ASSUME NEW d \in Devs
    PROVE  /\ d \in Group[d] /\ Group[d] \in SUBSET Devs
           /\ \A e \in Group[d] : Group[e] = Group[d] /\ Dir[e] = Dir[d]
           /\ d \notin Fallbacks => Group[d] \cap Fallbacks = {}
    BY RouterAssumption

\* Marking devices enabled keeps Good.
LEMMA EnableMoreGood ==
    ASSUME NEW l, NEW L, NEW A, Good(l, L, A), NEW D \in SUBSET Devs
    PROVE  LET m == [l EXCEPT !.enabled = @ \cup D]
           IN /\ Good(m, L, A) /\ m.enabled = l.enabled \cup D
              /\ m.pins = l.pins /\ m.devs = l.devs /\ m.suspended = l.suspended
    <1> DEFINE m == [l EXCEPT !.enabled = @ \cup D]
    <1>1. l \in RouterState
        BY DEF Good
    <1>2. /\ m \in RouterState
          /\ m.open = l.open /\ m.thr = l.thr /\ m.att = l.att /\ m.pins = l.pins
          /\ m.enabled = l.enabled \cup D /\ m.retry = l.retry
          /\ m.devs = l.devs /\ m.suspended = l.suspended
        BY <1>1 DEF RouterState
    <1> HIDE DEF m
    <1>3. \A d \in Devs : \A s \in m.att[d] \cap L : Belongs(m, d, s)
        BY <1>2 DEF Good, Belongs
    <1> QED
        BY <1>2, <1>3 DEF Good, m

\* init_and_attach_streams followed by the retries of the devices that failed.
LEMMA AttachRetryGood ==
    ASSUME NEW l, NEW list \in Seq(Streams), NEW A, Range(list) \subseteq A,
           Good(l, Range(list), A), NEW D \in SUBSET Devs, NEW f \in Faults
    PROVE  LET m == schedule_init_device_retry(init_and_attach_streams(l, list, D, f),
                                               attach_failed(l, list, D, f))
           IN /\ Good(m, Range(list), A)
              /\ m.enabled = l.enabled /\ m.pins = l.pins
              /\ m.devs = l.devs /\ m.suspended = l.suspended
    <1> DEFINE m1 == init_and_attach_streams(l, list, D, f)
               failed == attach_failed(l, list, D, f)
    <1>1. /\ Good(m1, Range(list), A)
          /\ m1.enabled = l.enabled /\ m1.pins = l.pins
          /\ m1.devs = l.devs /\ m1.suspended = l.suspended
          /\ failed \in SUBSET (Devs \ Fallbacks)
          /\ failed \cap m1.open = {}
        BY InitAttachGood
    <1> HIDE DEF m1, failed
    <1>2. LET m == schedule_init_device_retry(m1, failed)
          IN /\ Good(m, Range(list), A) /\ m.pins = m1.pins
             /\ m.enabled = m1.enabled /\ m.devs = m1.devs /\ m.suspended = m1.suspended
        BY <1>1, RetryGood
    <1> QED
        BY <1>1, <1>2 DEF m1, failed

\* enable_device keeps Good.
LEMMA EnableGood ==
    ASSUME NEW l, NEW list \in Seq(Streams), NEW A, Range(list) \subseteq A,
           Good(l, Range(list), A), NEW D \in SUBSET Devs, NEW f \in Faults
    PROVE  LET m == enable_devices(l, list, D, f)
           IN /\ Good(m, Range(list), A)
              /\ m.enabled = l.enabled \cup D /\ m.pins = l.pins
              /\ m.devs = l.devs /\ m.suspended = l.suspended
    <1> DEFINE new == D \ l.enabled
               l1 == [l EXCEPT !.enabled = @ \cup new]
               m == schedule_init_device_retry(init_and_attach_streams(l1, list, new, f),
                                               attach_failed(l1, list, new, f))
    <1>1. enable_devices(l, list, D, f) = m
        BY DEF enable_devices
    <1>2. new \in SUBSET Devs
        OBVIOUS
    <1>3. /\ Good(l1, Range(list), A) /\ l1.enabled = l.enabled \cup new
          /\ l1.pins = l.pins /\ l1.devs = l.devs /\ l1.suspended = l.suspended
        BY <1>2, EnableMoreGood
    <1>4. l.enabled \cup new = l.enabled \cup D
        OBVIOUS
    <1> HIDE DEF l1, new
    <1>5. /\ Good(m, Range(list), A)
          /\ m.enabled = l1.enabled /\ m.pins = l1.pins
          /\ m.devs = l1.devs /\ m.suspended = l1.suspended
        BY <1>2, <1>3, AttachRetryGood
    <1> HIDE DEF m
    <1> QED
        BY <1>1, <1>3, <1>4, <1>5

\* disable_device keeps Good: the device is closed, or it keeps only what is
\* pinned to it.
LEMMA DisableGood ==
    ASSUME NEW l, NEW list, NEW A,
           Good(l, Range(list), A), NEW D \in SUBSET Devs, NEW force \in BOOLEAN
    PROVE  LET m == disable_devices(l, list, D, force)
           IN /\ Good(m, Range(list), A)
              /\ m.enabled = l.enabled \ D /\ m.pins = l.pins
              /\ m.devs = l.devs /\ m.suspended = l.suspended
    <1> DEFINE L == Range(list)
               keep == IF force THEN {} ELSE {d \in D : l.pins[d] > 0}
               normal == {s \in L : ~Pinned(s)}
               a == [d \in Devs |-> IF d \in keep THEN l.att[d] \ normal ELSE l.att[d]]
               l1 == [l EXCEPT !.enabled = l.enabled \ D,
                               !.retry = IF force THEN l.retry \ D ELSE l.retry,
                               !.att = a]
               l2 == close_devs(l1, D \ keep)
               N == l2.nodeOn \
                      UNION {Group[d] : d \in {x \in D \ keep : Group[x] \cap l2.open = {}}}
               m == [l2 EXCEPT !.nodeOn = N]
    <1>1. disable_devices(l, list, D, force) = m
        BY DEF disable_devices
    <1>2. l \in RouterState /\ keep \in SUBSET D
        BY DEF Good
    <1>3. \A d \in keep : d \notin Fallbacks
        BY DEF Good
    <1>4. a \in [Devs -> SUBSET Streams]
        BY <1>2 DEF RouterState
    <1>5. /\ \A d \in Devs : a[d] \subseteq l.att[d]
          /\ \A d \in keep : a[d] \cap normal = {}
        BY <1>2
    <1> HIDE DEF keep, a
    <1>6. /\ l1 \in RouterState
          /\ l1.open = l.open /\ l1.thr = l.thr /\ l1.att = a /\ l1.pins = l.pins
          /\ l1.enabled = l.enabled \ D /\ l1.retry \subseteq l.retry
          /\ l1.devs = l.devs /\ l1.suspended = l.suspended
        BY <1>2, <1>4 DEF RouterState
    <1> HIDE DEF l1
    <1>7. /\ l2 \in RouterState
          /\ l2.open = l1.open \ ((D \ keep) \cap l1.open)
          /\ l2.thr = l1.thr \ ((D \ keep) \cap l1.open)
          /\ l2.att = [d \in Devs |-> IF d \in (D \ keep) \cap l1.open THEN {} ELSE l1.att[d]]
          /\ l2.retry = l1.retry /\ l2.pins = l1.pins /\ l2.enabled = l1.enabled
          /\ l2.devs = l1.devs /\ l2.suspended = l1.suspended
        BY <1>6, CloseFields
    <1> HIDE DEF l2
    <1>8. /\ l2.thr \subseteq l2.open
          /\ \A d \in Devs : d \in l2.thr \/ l2.att[d] = {}
          /\ l2.retry \cap l2.open = {}
          /\ \A d \in Fallbacks : l2.pins[d] = 0
          /\ \A d \in Devs : l2.att[d] \subseteq A
        BY <1>5, <1>6, <1>7 DEF Good
    <1>9. ASSUME NEW d \in Devs, NEW s \in l2.att[d] \cap L
          PROVE  Belongs(l2, d, s)
        <2>1. s \in a[d] /\ s \in l.att[d] /\ Belongs(l, d, s)
            BY <1>5, <1>6, <1>7 DEF Good
        <2>2. CASE d \in keep
            <3>1. Pinned(s) /\ d \notin Fallbacks
                BY <2>1, <2>2, <1>3, <1>5
            <3> QED
                BY <2>1, <3>1 DEF Belongs
        <2>3. CASE d \in D \ keep
            <3>1. d \in l.open
                BY <2>1 DEF Good
            <3> QED
                BY <2>3, <3>1, <1>6, <1>7
        <2>4. CASE d \notin D
            BY <2>1, <2>4, <1>6, <1>7 DEF Belongs
        <2> QED
            BY <2>2, <2>3, <2>4
    <1>10. Good(l2, L, A)
        BY <1>7, <1>8, <1>9 DEF Good
    <1>11. N \in SUBSET Devs
        BY <1>7 DEF RouterState
    <1> HIDE DEF N, L
    <1>12. /\ Good(m, L, A) /\ m.pins = l2.pins
           /\ m.enabled = l2.enabled /\ m.devs = l2.devs /\ m.suspended = l2.suspended
        BY <1>10, <1>11, NodeGood
    <1> HIDE DEF m
    <1> QED
        BY <1>1, <1>6, <1>7, <1>12 DEF L

\* Directions and their fallback devices.
LEMMA DirFacts ==
    /\ \A d \in Devs : Dir[d] \in Directions
    /\ \A s \in Streams : Dir[s] \in Directions
    /\ \A dir \in Directions : /\ Fallback[dir] \in Devs /\ Fallback[dir] \in Fallbacks
                               /\ Dir[Fallback[dir]] = dir
    BY RouterAssumption DEF Fallbacks

\* possibly_disable_fallback keeps Good.
LEMMA NoFallbackGood ==
    ASSUME NEW l, NEW list, NEW A, Good(l, Range(list), A), NEW dir
    PROVE  LET m == possibly_disable_fallback(l, list, dir)
           IN /\ Good(m, Range(list), A) /\ m.pins = l.pins
              /\ m.devs = l.devs /\ m.suspended = l.suspended
    <1> DEFINE D == {Fallback[dir]} \cap l.enabled
               m == disable_devices(l, list, D, FALSE)
    <1>1. D \in SUBSET Devs
        BY DEF Good, RouterState
    <1>2. possibly_disable_fallback(l, list, dir) = m
        BY DEF possibly_disable_fallback
    <1> HIDE DEF D
    <1>3. /\ Good(m, Range(list), A) /\ m.pins = l.pins
          /\ m.devs = l.devs /\ m.suspended = l.suspended
        <2>1. \A force \in BOOLEAN :
                /\ Good(disable_devices(l, list, D, force), Range(list), A)
                /\ disable_devices(l, list, D, force).pins = l.pins
                /\ disable_devices(l, list, D, force).devs = l.devs
                /\ disable_devices(l, list, D, force).suspended = l.suspended
            BY <1>1, DisableGood
        <2> QED
            BY <2>1, Zenon
    <1> HIDE DEF m
    <1> QED
        BY <1>2, <1>3

\* possibly_enable_fallback keeps Good.
LEMMA FallbackGood ==
    ASSUME NEW l, NEW list \in Seq(Streams), NEW A, Range(list) \subseteq A,
           Good(l, Range(list), A), NEW dir \in Directions, NEW f \in Faults
    PROVE  LET m == possibly_enable_fallback(l, list, dir, f)
           IN /\ Good(m, Range(list), A) /\ l.enabled \subseteq m.enabled
              /\ m.pins = l.pins /\ m.devs = l.devs /\ m.suspended = l.suspended
    <1> DEFINE D == {Fallback[dir]} \ l.enabled
               m == enable_devices(l, list, D, f)
    <1>1. D \in SUBSET Devs
        BY DirFacts
    <1> HIDE DEF D
    <1>2. /\ Good(m, Range(list), A)
          /\ m.enabled = l.enabled \cup D /\ m.pins = l.pins
          /\ m.devs = l.devs /\ m.suspended = l.suspended
        BY <1>1, EnableGood
    <1>3. possibly_enable_fallback(l, list, dir, f) = m
        BY DEF possibly_enable_fallback, D
    <1> HIDE DEF m
    <1> QED
        BY <1>2, <1>3

\* DisableGood for either value of force, in the form its users need.
LEMMA DisableAnyGood ==
    ASSUME NEW l, NEW list, NEW A, Good(l, Range(list), A), NEW D \in SUBSET Devs
    PROVE  \A g \in BOOLEAN :
                /\ Good(disable_devices(l, list, D, g), Range(list), A)
                /\ disable_devices(l, list, D, g).pins = l.pins
                /\ disable_devices(l, list, D, g).devs = l.devs
                /\ disable_devices(l, list, D, g).suspended = l.suspended
    BY DisableGood

\* disable_device_group keeps Good.
LEMMA DisableGroupGood ==
    ASSUME NEW l, NEW list \in Seq(Streams), NEW A, Range(list) \subseteq A,
           Good(l, Range(list), A), NEW d \in Devs, NEW force \in BOOLEAN, NEW f \in Faults
    PROVE  LET m == disable_device_group(l, list, d, force, f)
           IN /\ Good(m, Range(list), A) /\ m.pins = l.pins
              /\ m.devs = l.devs /\ m.suspended = l.suspended
    <1> DEFINE l1 == IF EnabledIn(l, Dir[d]) \subseteq Group[d]
                     THEN possibly_enable_fallback(l, list, Dir[d], f) ELSE l
               D == l1.enabled \cap Group[d]
               m == disable_devices(l1, list, D, force)
    <1>1. disable_device_group(l, list, d, force, f) = m
        BY DEF disable_device_group
    <1>2. /\ Good(l1, Range(list), A) /\ l1.pins = l.pins
          /\ l1.devs = l.devs /\ l1.suspended = l.suspended
        BY DirFacts, FallbackGood
    <1> HIDE DEF l1
    <1>3. D \in SUBSET Devs
        BY GroupFacts
    <1> HIDE DEF D
    <1>4. /\ Good(m, Range(list), A) /\ m.pins = l1.pins
          /\ m.devs = l1.devs /\ m.suspended = l1.suspended
        <2>1. \A g \in BOOLEAN :
                /\ Good(disable_devices(l1, list, D, g), Range(list), A)
                /\ disable_devices(l1, list, D, g).pins = l1.pins
                /\ disable_devices(l1, list, D, g).devs = l1.devs
                /\ disable_devices(l1, list, D, g).suspended = l1.suspended
            BY <1>2, <1>3, DisableAnyGood
        <2> QED
            BY <2>1, Zenon
    <1> HIDE DEF m
    <1> QED
        BY <1>1, <1>2, <1>4

\* disable_and_close_dev_group keeps Good.
LEMMA CloseGroupGood ==
    ASSUME NEW l, NEW list \in Seq(Streams), NEW A, Range(list) \subseteq A,
           Good(l, Range(list), A), NEW d \in Devs, NEW f \in Faults
    PROVE  LET m == disable_and_close_dev_group(l, list, d, f)
           IN /\ Good(m, Range(list), A) /\ m.pins = l.pins
              /\ m.devs = l.devs /\ m.suspended = l.suspended
    <1> DEFINE l1 == disable_device_group(l, list, d, TRUE, f)
               l2 == close_devs(l1, Group[d])
               l3 == SwitchNode(l2, d, FALSE)
    <1>1. /\ Good(l1, Range(list), A) /\ l1.pins = l.pins
          /\ l1.devs = l.devs /\ l1.suspended = l.suspended
        BY DisableGroupGood
    <1>2. disable_and_close_dev_group(l, list, d, f) =
            IF Group[d] \cap l1.open # {} THEN l3 ELSE l2
        BY DEF disable_and_close_dev_group
    <1> HIDE DEF l1
    <1>3. l1 \in RouterState /\ Group[d] \in SUBSET Devs
        BY <1>1, GroupFacts DEF Good
    <1>4. /\ Good(l2, Range(list), A) /\ l2.pins = l1.pins
          /\ l2.devs = l1.devs /\ l2.suspended = l1.suspended
        BY <1>1, <1>3, CloseFields, CloseGood
    <1> HIDE DEF l2
    <1>5. /\ Good(l3, Range(list), A) /\ l3.pins = l2.pins
          /\ l3.devs = l2.devs /\ l3.suspended = l2.suspended
        BY <1>4, SwitchGood, Zenon
    <1> HIDE DEF l3
    <1> QED
        BY <1>1, <1>2, <1>4, <1>5

\* restart_device_group keeps Good.
LEMMA RestartGood ==
    ASSUME NEW l, NEW list \in Seq(Streams), NEW A, Range(list) \subseteq A,
           Good(l, Range(list), A), NEW D \in SUBSET Devs, NEW f \in Faults
    PROVE  LET m == restart_device_groups(l, list, D, f)
           IN /\ Good(m, Range(list), A) /\ m.enabled = l.enabled /\ m.pins = l.pins
              /\ m.devs = l.devs /\ m.suspended = l.suspended
    <1> DEFINE G == UNION {Group[d] : d \in D}
               l0 == close_devs(l, G)
               N == l0.nodeOn \cup G
               l1 == [l0 EXCEPT !.nodeOn = N]
               m == schedule_init_device_retry(init_and_attach_streams(l1, list, G, f),
                                               attach_failed(l1, list, G, f))
    <1>1. restart_device_groups(l, list, D, f) = m
        BY DEF restart_device_groups
    <1>2. G \in SUBSET Devs /\ l \in RouterState
        BY GroupFacts DEF Good
    <1> HIDE DEF G
    <1>3. /\ Good(l0, Range(list), A) /\ l0.enabled = l.enabled /\ l0.pins = l.pins
          /\ l0.devs = l.devs /\ l0.suspended = l.suspended
        BY <1>2, CloseFields, CloseGood
    <1> HIDE DEF l0
    <1>4. N \in SUBSET Devs
        BY <1>2, <1>3 DEF Good, RouterState
    <1> HIDE DEF N
    <1>5. /\ Good(l1, Range(list), A) /\ l1.enabled = l0.enabled /\ l1.pins = l0.pins
          /\ l1.devs = l0.devs /\ l1.suspended = l0.suspended
        BY <1>3, <1>4, NodeGood
    <1> HIDE DEF l1
    <1>6. /\ Good(m, Range(list), A) /\ m.enabled = l1.enabled /\ m.pins = l1.pins
          /\ m.devs = l1.devs /\ m.suspended = l1.suspended
        BY <1>2, <1>5, AttachRetryGood
    <1> HIDE DEF m
    <1> QED
        BY <1>1, <1>3, <1>5, <1>6

-----------------------------------------------------------------------------
(* The callbacks of the stream list.                                       *)

\* The devices of a pinned stream are in its target's group, and it belongs
\* there.
LEMMA PinnedFacts ==
    ASSUME NEW s \in Streams, Pinned(s)
    PROVE  /\ PinnedTo[s] \in Devs \ Fallbacks
           /\ PinnedDevs(s) \in SUBSET (Devs \ Fallbacks)
           /\ \A l : \A d \in PinnedDevs(s) : Belongs(l, d, s)
    <1>1. PinnedTo[s] \in Devs \ Fallbacks /\ Dir[PinnedTo[s]] = Dir[s]
        BY RouterAssumption DEF Pinned
    <1>2. PinnedDevs(s) \in SUBSET (Devs \ Fallbacks)
        BY <1>1, GroupFacts DEF PinnedDevs
    <1>3. ASSUME NEW l, NEW d \in PinnedDevs(s)
          PROVE  Belongs(l, d, s)
        BY <1>1, GroupFacts DEF PinnedDevs, Belongs
    <1> QED
        BY <1>1, <1>2, <1>3

\* A stream gives its number of channels to any set of devices.
LEMMA OneFormat ==
    ASSUME NEW s \in Streams, NEW D
    PROVE  [d \in D |-> Channels[s]] \in FormatOf(D)
    BY RouterAssumption DEF FormatOf

\* init_pinned_device keeps Good, and the devices it fails on stay closed.
LEMMA InitPinnedGood ==
    ASSUME NEW l, NEW L, NEW A, Good(l, L, A), NEW D \in SUBSET Devs,
           NEW s \in Streams, Pinned(s), NEW f \in Faults
    PROVE  LET m == init_pinned_devices(l, D, s, f)
           IN /\ Good(m, L, A) /\ m.enabled = l.enabled /\ m.pins = l.pins
              /\ m.devs = l.devs /\ m.suspended = l.suspended
              /\ init_failed(l, D, f) \in SUBSET (Devs \ Fallbacks)
              /\ init_failed(l, D, f) \cap m.open = {}
    <1> DEFINE sw == SwitchNode(l, PinnedTo[s], TRUE)
               l1 == IF D \subseteq l.thr \/ \E d \in D : Group[d] \cap l.open # {}
                     THEN l ELSE sw
               fmt == [d \in D |-> Channels[s]]
               m == init_devices(l1, D, fmt, f)
               failed == init_failed(l, D, f)
    <1>1. init_pinned_devices(l, D, s, f) = m
        BY DEF init_pinned_devices
    <1>2. fmt \in FormatOf(D) /\ PinnedTo[s] \in Devs
        BY OneFormat, PinnedFacts
    <1>3. /\ Good(sw, L, A) /\ sw.open = l.open /\ sw.att = l.att /\ sw.pins = l.pins
          /\ sw.enabled = l.enabled /\ sw.devs = l.devs /\ sw.suspended = l.suspended
        BY <1>2, SwitchGood, Zenon
    <1> HIDE DEF sw, fmt
    <1>4. /\ Good(l1, L, A) /\ l1.open = l.open /\ l1.att = l.att /\ l1.pins = l.pins
          /\ l1.enabled = l.enabled /\ l1.devs = l.devs /\ l1.suspended = l.suspended
        BY <1>3
    <1> HIDE DEF l1
    <1>5. l1 \in RouterState /\ init_failed(l1, D, f) = failed
        BY <1>4 DEF Good, init_failed
    <1>6. Good(m, L, A) /\ failed \cap m.open = {}
        BY <1>2, <1>4, <1>5, InitGood
    <1>7. /\ m.att = l1.att /\ m.pins = l1.pins /\ m.enabled = l1.enabled
          /\ m.devs = l1.devs /\ m.suspended = l1.suspended
        BY <1>2, <1>5, InitFields
    <1>8. failed \in SUBSET (Devs \ Fallbacks)
        BY FaultFacts DEF init_failed
    <1> HIDE DEF m, failed
    <1> QED
        BY <1>1, <1>4, <1>6, <1>7, <1>8 DEF failed

\* init_pinned_device attaches nothing.
LEMMA InitPinnedAtt ==
    ASSUME NEW l \in RouterState, NEW D \in SUBSET Devs, NEW s \in Streams, Pinned(s), NEW f
    PROVE  init_pinned_devices(l, D, s, f).att = l.att
    <1> DEFINE sw == SwitchNode(l, PinnedTo[s], TRUE)
               l1 == IF D \subseteq l.thr \/ \E d \in D : Group[d] \cap l.open # {}
                     THEN l ELSE sw
               fmt == [d \in D |-> Channels[s]]
    <1>1. init_pinned_devices(l, D, s, f) = init_devices(l1, D, fmt, f)
        BY DEF init_pinned_devices
    <1>2. fmt \in FormatOf(D) /\ PinnedTo[s] \in Devs
        BY OneFormat, PinnedFacts
    <1>3. sw \in RouterState /\ sw.att = l.att
        BY <1>2, GroupFacts DEF SwitchNode, RouterState
    <1> HIDE DEF sw, fmt
    <1>4. l1 \in RouterState /\ l1.att = l.att
        BY <1>3
    <1> HIDE DEF l1
    <1> QED
        BY <1>1, <1>2, <1>4, InitFields

\* num_pinned_streams may change on devices other than the fallbacks.
LEMMA PinsGood ==
    ASSUME NEW l, NEW L, NEW A, Good(l, L, A), NEW p \in [Devs -> Nat],
           \A d \in Fallbacks : p[d] = 0
    PROVE  LET m == [l EXCEPT !.pins = p]
           IN /\ Good(m, L, A) /\ m.pins = p /\ m.att = l.att /\ m.open = l.open
              /\ m.enabled = l.enabled /\ m.devs = l.devs /\ m.suspended = l.suspended
    <1> DEFINE m == [l EXCEPT !.pins = p]
    <1>1. l \in RouterState
        BY DEF Good
    <1>2. /\ m \in RouterState
          /\ m.open = l.open /\ m.thr = l.thr /\ m.att = l.att /\ m.pins = p
          /\ m.enabled = l.enabled /\ m.retry = l.retry
          /\ m.devs = l.devs /\ m.suspended = l.suspended
        BY <1>1 DEF RouterState
    <1> HIDE DEF m
    <1>3. \A d \in Devs : \A s \in m.att[d] \cap L : Belongs(m, d, s)
        BY <1>2 DEF Good, Belongs
    <1> QED
        BY <1>2, <1>3 DEF Good, m

\* A pinned stream that is not accepted is attached nowhere it was not before.
LEMMA PinnedAddedGood ==
    ASSUME NEW l, NEW L, NEW A, Good(l, L, A), NEW s \in Streams, s \in A,
           Pinned(s), NEW f \in Faults
    PROVE  LET r == pinned_stream_added(l, s, f)
           IN /\ Good(r.l, L, A)
              /\ ~r.ok => \A d \in Devs : s \in r.l.att[d] => s \in l.att[d]
    <1> DEFINE D == PinnedDevs(s)
               failed == init_failed(l, D, f)
               up == D \ failed
               l0 == init_pinned_devices(l, D, s, f)
               l1 == schedule_init_device_retry(l0, failed)
               added == up # {} /\ ~append_fails(l1, s, up, f)
               counted == failed \cup (IF added THEN up ELSE {})
               la == add_stream(l1, s, up, f)
               p == [d \in Devs |-> IF d \in counted THEN la.pins[d] + 1 ELSE la.pins[d]]
               l2 == [la EXCEPT !.pins = p]
               r == pinned_stream_added(l, s, f)
    <1>1. r = IF PinnedTo[s] \notin l.devs THEN [ok |-> FALSE, l |-> l]
              ELSE [ok |-> counted # {}, l |-> l2]
        BY DEF pinned_stream_added
    <1>2. D \in SUBSET (Devs \ Fallbacks) /\ D \in SUBSET Devs
        BY PinnedFacts
    <1>17. \A m : \A d \in D : Belongs(m, d, s)
        BY PinnedFacts
    <1> HIDE DEF D
    <1>3. /\ Good(l0, L, A) /\ l0.att = l.att
          /\ failed \in SUBSET (Devs \ Fallbacks) /\ failed \cap l0.open = {}
        <2>1. Good(l0, L, A)
            BY <1>2, InitPinnedGood
        <2>2. l0.att = l.att
            BY <1>2, InitPinnedAtt DEF Good
        <2>3. failed \in SUBSET (Devs \ Fallbacks)
            BY <1>2, InitPinnedGood
        <2>4. failed \cap l0.open = {}
            BY <1>2, InitPinnedGood
        <2> QED
            BY <2>1, <2>2, <2>3, <2>4
    <1>4. up \subseteq D
        OBVIOUS
    <1>5. failed \subseteq D
        BY DEF init_failed
    <1> HIDE DEF l0, failed
    <1>6. Good(l1, L, A) /\ l1.att = l0.att
        BY <1>3, RetryGood
    <1> HIDE DEF l1
    <1>7. \A d \in Devs \cap up : Belongs(l1, d, s)
        BY <1>17
    <1>8. /\ Good(la, L, A) /\ SameButAtt(la, l1)
          /\ append_fails(l1, s, up, f) => \A d \in Devs : s \notin la.att[d]
        BY <1>6, <1>7, AddGood
    <1>9. l1 \in RouterState
        BY <1>6 DEF Good
    <1>10. up = {} => \A d \in Devs : s \in la.att[d] => s \in l1.att[d]
        <2> SUFFICES ASSUME up = {}
                     PROVE  \A d \in Devs : s \in la.att[d] => s \in l1.att[d]
            OBVIOUS
        <2> HIDE DEF up
        <2>1. ~append_fails(l1, s, up, f)
            BY DEF append_fails
        <2>2. la.att = [d \in Devs |->
                        IF append_fails(l1, s, up, f) THEN l1.att[d] \ {s}
                        ELSE IF d \in up \cap l1.thr THEN l1.att[d] \cup {s} ELSE l1.att[d]]
            BY <1>9, AddFields
        <2> HIDE DEF la
        <2> QED
            BY <2>1, <2>2
    <1> HIDE DEF la
    <1>11. p \in [Devs -> Nat] /\ \A d \in Fallbacks : p[d] = 0
        <2>1. la.pins \in [Devs -> Nat] /\ \A d \in Fallbacks : la.pins[d] = 0 /\ d \in Devs
            BY <1>8, RouterAssumption DEF Good, RouterState, Fallbacks
        <2>2. counted \cap Fallbacks = {}
            BY <1>2, <1>4, <1>5
        <2> HIDE DEF counted
        <2> QED
            BY <2>1, <2>2
    <1> HIDE DEF p
    <1>12. Good(l2, L, A) /\ l2.att = la.att
        BY <1>8, <1>11, PinsGood
    <1> HIDE DEF l2
    <1>13. counted = {} => up = {} \/ append_fails(l1, s, up, f)
        OBVIOUS
    <1>14. counted = {} => \A d \in Devs : s \in l2.att[d] => s \in l.att[d]
        BY <1>3, <1>6, <1>8, <1>10, <1>12, <1>13
    <1> HIDE DEF counted, r
    <1>15. CASE PinnedTo[s] \notin l.devs
        <2>1. r.l = l
            BY <1>1, <1>15
        <2> QED
            BY <2>1 DEF r
    <1>16. CASE PinnedTo[s] \in l.devs
        <2>1. r.l = l2 /\ (~r.ok => counted = {})
            BY <1>1, <1>16
        <2> QED
            BY <2>1, <1>12, <1>14 DEF r
    <1> QED
        BY <1>15, <1>16

\* Members of an enabled set in the stream's direction take a normal stream.
LEMMA EnabledBelongs ==
    ASSUME NEW l, NEW s, ~Pinned(s), NEW d \in l.enabled, Dir[d] = Dir[s]
    PROVE  Belongs(l, d, s)
    BY DEF Belongs

\* The fallback device catches a stream: its init cannot fail, its append may.
LEMMA CatchGood ==
    ASSUME NEW l, NEW L, NEW A, Good(l, L, A), NEW s \in Streams, s \in A, ~Pinned(s),
           NEW f \in Faults
    PROVE  LET fb == Fallback[Dir[s]]
               m == add_stream(init_devices(l, {fb}, [d \in {fb} |-> Channels[s]], f), s, {fb}, f)
           IN fb \in l.enabled => /\ Good(m, L, A) /\ m.enabled = l.enabled
                                  /\ m.pins = l.pins /\ m.devs = l.devs
    <1> DEFINE fb == Fallback[Dir[s]]
               D == {fb}
               fmt == [d \in D |-> Channels[s]]
               l1 == init_devices(l, D, fmt, f)
               m == add_stream(l1, s, D, f)
    <1> SUFFICES ASSUME fb \in l.enabled
                 PROVE  /\ Good(m, L, A) /\ m.enabled = l.enabled
                        /\ m.pins = l.pins /\ m.devs = l.devs
        OBVIOUS
    <1>1. /\ D \in SUBSET Devs /\ fmt \in FormatOf(D) /\ l \in RouterState
          /\ Dir[fb] = Dir[s]
        BY DirFacts, OneFormat DEF Good
    <1> HIDE DEF fmt
    <1>2. Good(l1, L, A)
        BY <1>1, InitGood
    <1>3. l1.enabled = l.enabled /\ l1.pins = l.pins /\ l1.devs = l.devs
        BY <1>1, InitFields
    <1> HIDE DEF l1
    <1>4. \A d \in Devs \cap D : Belongs(l1, d, s)
        BY <1>1, <1>3, EnabledBelongs
    <1> HIDE DEF D
    <1>5. Good(m, L, A) /\ SameButAtt(m, l1)
        BY <1>2, <1>4, AddGood
    <1> QED
        BY <1>3, <1>5 DEF SameButAtt

\* A normal stream that is not accepted is attached nowhere.
LEMMA NormalAddedGood ==
    ASSUME NEW l, NEW list \in Seq(Streams), NEW A, Range(list) \subseteq A,
           Good(l, Range(list), A), NEW s \in Streams, s \in A, ~Pinned(s), NEW f \in Faults
    PROVE  LET r == normal_stream_added(l, list, s, f)
           IN /\ Good(r.l, Range(list), A)
              /\ ~r.ok => \A d \in Devs : s \notin r.l.att[d]
    <1> DEFINE L == Range(list)
               fb == Fallback[Dir[s]]
               lc == add_stream(init_devices(l, {fb}, [d \in {fb} |-> Channels[s]], f), s, {fb}, f)
               l0 == IF fb \in l.enabled THEN lc ELSE l
               want == {d \in EnabledIn(l, Dir[s]) \ {fb} : s \in Attachable[d]}
               reopen == {d \in want \cap l.open :
                            l.chan[d] < Channels[s] /\ Channels[s] <= MaxChannels[d]}
               lf == possibly_enable_fallback(l0, list, Dir[s], f)
               lr == restart_device_groups(lf, list, reopen, f)
               l1 == IF reopen = {} THEN l0 ELSE lr
               others == want \ reopen
               failed == init_failed(l1, others, f)
               up == others \ failed
               fmt == [d \in others |-> Channels[s]]
               li == init_devices(l1, others, fmt, f)
               l2 == schedule_init_device_retry(li, failed)
               l3 == add_stream(l2, s, up, f)
               le == possibly_disable_fallback(l3, list, Dir[s])
               lg == possibly_enable_fallback(l3, list, Dir[s], f)
               r == normal_stream_added(l, list, s, f)
    <1>1. r = IF append_fails(l2, s, up, f) THEN [ok |-> FALSE, l |-> l3]
              ELSE [ok |-> TRUE, l |-> IF up # {} \/ reopen # {} THEN le ELSE lg]
        BY DEF normal_stream_added
    <1>2. /\ want \in SUBSET Devs /\ Dir[s] \in Directions
          /\ \A d \in want : d \in l.enabled /\ Dir[d] = Dir[s]
        BY DirFacts DEF EnabledIn, Good, RouterState
    <1>3. fb \in l.enabled => Good(lc, L, A) /\ lc.enabled = l.enabled
        BY CatchGood, ZenonT(60)
    <1> HIDE DEF want, lc
    <1>4. Good(l0, L, A) /\ l0.enabled = l.enabled
        BY <1>3
    <1> HIDE DEF l0
    <1>5. reopen \in SUBSET Devs /\ others \in SUBSET want
        BY <1>2
    <1> HIDE DEF reopen, others
    <1>6. Good(lf, L, A) /\ l0.enabled \subseteq lf.enabled
        BY <1>2, <1>4, FallbackGood
    <1> HIDE DEF lf
    <1>7. Good(lr, L, A) /\ lr.enabled = lf.enabled
        BY <1>5, <1>6, RestartGood
    <1> HIDE DEF lr
    <1>8. Good(l1, L, A) /\ l.enabled \subseteq l1.enabled
        BY <1>4, <1>6, <1>7
    <1> HIDE DEF l1
    <1>9. /\ others \in SUBSET Devs /\ fmt \in FormatOf(others) /\ l1 \in RouterState
          /\ failed \in SUBSET (Devs \ Fallbacks)
        BY <1>2, <1>5, <1>8, OneFormat, FaultFacts DEF Good, init_failed
    <1> HIDE DEF fmt
    <1>10. Good(li, L, A) /\ failed \cap li.open = {}
        BY <1>8, <1>9, InitGood
    <1>11. li.enabled = l1.enabled
        BY <1>9, InitFields
    <1>12. up \subseteq others
        OBVIOUS
    <1> HIDE DEF li, failed, up
    <1>13. Good(l2, L, A) /\ l2.enabled = li.enabled
        BY <1>9, <1>10, RetryGood
    <1> HIDE DEF l2
    <1>14. \A d \in Devs \cap up : Belongs(l2, d, s)
        BY <1>2, <1>5, <1>8, <1>11, <1>12, <1>13, EnabledBelongs
    <1>15. Good(l3, L, A)
        BY <1>13, <1>14, AddGood
    <1>16. append_fails(l2, s, up, f) => \A d \in Devs : s \notin l3.att[d]
        BY <1>13, <1>14, AddGood
    <1> HIDE DEF l3
    <1>17. Good(le, L, A)
        BY <1>15, NoFallbackGood
    <1>18. Good(lg, L, A)
        BY <1>2, <1>15, FallbackGood
    <1> HIDE DEF le, lg, r, L
    <1> QED
        BY <1>1, <1>15, <1>16, <1>17, <1>18 DEF r, L

\* stream_added_cb of the router, which stream_list_add and resume_devs call.
LEMMA AddedGood ==
    ASSUME NEW l, NEW list \in Seq(Streams), NEW A, Range(list) \subseteq A,
           Good(l, Range(list), A), NEW s \in Streams, s \in A, NEW f \in Faults
    PROVE  LET r == stream_added_cb(l, list, s, f)
           IN /\ Good(r.l, Range(list), A)
              /\ ~r.ok => \A d \in Devs : s \in r.l.att[d] => s \in l.att[d]
    <1> DEFINE r == stream_added_cb(l, list, s, f)
    <1>1. CASE l.suspended
        <2>1. r = [ok |-> TRUE, l |-> l]
            BY <1>1 DEF stream_added_cb
        <2> QED
            BY <2>1
    <1>2. CASE ~l.suspended /\ Pinned(s)
        <2>1. r = pinned_stream_added(l, s, f)
            BY <1>2 DEF stream_added_cb
        <2>2. /\ Good(r.l, Range(list), A)
              /\ ~r.ok => \A d \in Devs : s \in r.l.att[d] => s \in l.att[d]
            BY <1>2, <2>1, PinnedAddedGood
        <2> QED
            BY <2>2
    <1>3. CASE ~l.suspended /\ ~Pinned(s)
        <2>1. r = normal_stream_added(l, list, s, f)
            BY <1>3 DEF stream_added_cb
        <2>2. /\ Good(r.l, Range(list), A)
              /\ ~r.ok => \A d \in Devs : s \notin r.l.att[d]
            BY <1>3, <2>1, NormalAddedGood
        <2> QED
            BY <2>2
    <1> QED
        BY <1>1, <1>2, <1>3

-----------------------------------------------------------------------------
(* Removing a stream.                                                      *)

\* A smaller set of listed streams, or a larger one of known streams, asks for
\* less.
LEMMA GoodWeaker ==
    ASSUME NEW l, NEW L, NEW A, Good(l, L, A), NEW M, NEW B, M \subseteq L,
           \A d \in Devs : l.att[d] \subseteq B
    PROVE  Good(l, M, B)
    BY DEF Good

\* pinned_stream_removed keeps Good.
LEMMA PinnedRemovedGood ==
    ASSUME NEW l, NEW L, NEW A, Good(l, L, A), NEW s \in Streams, Pinned(s)
    PROVE  Good(pinned_stream_removed(l, s), L, A)
    <1> DEFINE D == PinnedDevs(s)
               p == [d \in Devs |-> IF d \in D /\ l.pins[d] > 0 THEN l.pins[d] - 1 ELSE l.pins[d]]
               l1 == [l EXCEPT !.pins = p]
               unused == {d \in D : d \notin l1.enabled /\ l1.pins[d] = 0}
               l2 == close_devs(l1, unused)
               l3 == SwitchNode(l2, PinnedTo[s], FALSE)
    <1>1. pinned_stream_removed(l, s) =
            IF PinnedTo[s] \notin l.devs THEN l
            ELSE IF unused # {} /\ Group[PinnedTo[s]] \cap l2.open = {} THEN l3 ELSE l2
        BY DEF pinned_stream_removed
    <1>2. D \in SUBSET Devs /\ PinnedTo[s] \in Devs
        BY PinnedFacts
    <1> HIDE DEF D
    <1>3. p \in [Devs -> Nat] /\ \A d \in Fallbacks : p[d] = 0
        <2>1. l.pins \in [Devs -> Nat] /\ \A d \in Fallbacks : l.pins[d] = 0 /\ d \in Devs
            BY RouterAssumption DEF Good, RouterState, Fallbacks
        <2> QED
            BY <2>1
    <1> HIDE DEF p
    <1>4. Good(l1, L, A)
        BY <1>3, PinsGood
    <1>5. unused \in SUBSET Devs
        BY <1>2
    <1> HIDE DEF l1, unused
    <1>6. Good(l2, L, A)
        BY <1>4, <1>5, CloseGood
    <1> HIDE DEF l2
    <1>7. Good(l3, L, A)
        BY <1>2, <1>6, SwitchGood, Zenon
    <1> HIDE DEF l3
    <1> QED
        BY <1>1, <1>6, <1>7

\* Marking devices idle keeps Good.
LEMMA IdleGood ==
    ASSUME NEW l, NEW L, NEW A, Good(l, L, A), NEW D \in SUBSET Devs
    PROVE  Good([l EXCEPT !.idle = @ \cup D], L, A)
    <1> DEFINE m == [l EXCEPT !.idle = @ \cup D]
    <1>1. l \in RouterState
        BY DEF Good
    <1>2. /\ m \in RouterState
          /\ m.open = l.open /\ m.thr = l.thr /\ m.att = l.att /\ m.pins = l.pins
          /\ m.enabled = l.enabled /\ m.retry = l.retry
        BY <1>1 DEF RouterState
    <1> HIDE DEF m
    <1>3. \A d \in Devs : \A s \in m.att[d] \cap L : Belongs(m, d, s)
        BY <1>2 DEF Good, Belongs
    <1> QED
        BY <1>2, <1>3 DEF Good, m

\* possibly_close_enabled_devs keeps Good.
LEMMA CloseEnabledGood ==
    ASSUME NEW l, NEW L, NEW A, Good(l, L, A), NEW list, NEW dir
    PROVE  Good(possibly_close_enabled_devs(l, list, dir), L, A)
    <1>1. Deserted(l, list, dir) \in SUBSET Devs
        BY DEF Deserted, EnabledIn, Good, RouterState
    <1>2. Good(close_devs(l, Deserted(l, list, dir)), L, A)
        BY <1>1, CloseGood
    <1>3. Good([l EXCEPT !.idle = @ \cup Deserted(l, list, dir)], L, A)
        BY <1>1, IdleGood
    <1> QED
        BY <1>2, <1>3 DEF possibly_close_enabled_devs

\* Once stream_removed_cb has returned, no device refers to the stream.
LEMMA RemovedGood ==
    ASSUME NEW l, NEW L, NEW A, Good(l, L, A), NEW s \in Streams, NEW list
    PROVE  Good(stream_removed(l, list, s), L, A \ {s})
    <1> DEFINE l1 == disconnect_stream(l, s, Devs)
               lp == pinned_stream_removed(l1, s)
               l2 == IF Pinned(s) THEN lp ELSE l1
               m == possibly_close_enabled_devs(l2, list, Dir[s])
    <1>1. stream_removed(l, list, s) = m
        BY DEF stream_removed
    <1>2. Good(l1, L, A) /\ \A d \in Devs : l1.att[d] = l.att[d] \ {s}
        BY DisconnectGood
    <1> HIDE DEF l1
    <1>3. \A d \in Devs : l1.att[d] \subseteq A \ {s}
        BY <1>2 DEF Good
    <1>4. Good(l1, L, A \ {s})
        BY <1>2, <1>3, GoodWeaker
    <1>5. Pinned(s) => Good(lp, L, A \ {s})
        BY <1>4, PinnedRemovedGood
    <1> HIDE DEF lp
    <1>6. Good(l2, L, A \ {s})
        BY <1>4, <1>5
    <1> HIDE DEF l2
    <1> QED
        BY <1>1, <1>6, CloseEnabledGood

-----------------------------------------------------------------------------
(* The lists of streams.                                                   *)

\* The streams of a list are streams.
LEMMA RangeFacts ==
    ASSUME NEW list \in Seq(Streams)
    PROVE  Range(list) \subseteq Streams
    BY DEF Range

\* A listed stream has an index.
LEMMA IndexFacts ==
    ASSUME NEW list \in Seq(Streams), NEW s \in Range(list)
    PROVE  IndexOf(list, s) \in 1..Len(list) /\ list[IndexOf(list, s)] = s
    BY DEF IndexOf, Range

\* stream_list_add finds a position within the list or at its end.
LEMMA InsertPosFacts ==
    ASSUME NEW list \in Seq(Streams), NEW s \in Streams
    PROVE  InsertPos(list, s) \in 1..(Len(list) + 1)
    <1> DEFINE S == {i \in 1..(Len(list) + 1) :
                        i = Len(list) + 1 \/ Channels[s] >= Channels[list[i]]}
    <1>1. S \in SUBSET Nat /\ Len(list) + 1 \in S
        OBVIOUS
    <1>2. S \subseteq 1..(Len(list) + 1)
        OBVIOUS
    <1>3. InsertPos(list, s) = FirstOf(S)
        BY DEF InsertPos
    <1> HIDE DEF S
    <1> QED
        BY <1>1, <1>2, <1>3, FirstOfIsIn

\* The rest of a loop's list.
LEMMA TailRange ==
    ASSUME NEW list \in Seq(Streams), list # <<>>
    PROVE  /\ Head(list) \in Range(list) /\ Tail(list) \in Seq(Streams)
           /\ Range(Tail(list)) \subseteq Range(list)
           /\ IsInjective(list) => /\ IsInjective(Tail(list))
                                   /\ Head(list) \notin Range(Tail(list))
    <1> DEFINE t == Tail(list)
    <1>1. /\ t \in Seq(Streams) /\ Len(list) >= 1 /\ Len(t) = Len(list) - 1 /\ Head(list) = list[1]
          /\ \A j \in 1..(Len(list) - 1) : t[j] = list[j + 1]
        OBVIOUS
    <1> HIDE DEF t
    <1>2. DOMAIN t = 1..(Len(list) - 1) /\ DOMAIN list = 1..Len(list)
        BY <1>1
    <1>3. Head(list) \in Range(list)
        BY <1>1, <1>2 DEF Range
    <1>4. Range(t) \subseteq Range(list)
        <2>1. \A j \in 1..(Len(list) - 1) : j + 1 \in 1..Len(list) /\ t[j] = list[j + 1]
            BY <1>1
        <2> QED
            BY <2>1, <1>2 DEF Range
    <1>5. ASSUME IsInjective(list)
          PROVE  IsInjective(t) /\ Head(list) \notin Range(t)
        <2>1. \A j, k \in 1..Len(list) : list[j] = list[k] => j = k
            BY <1>2, <1>5 DEF IsInjective
        <2>2. IsInjective(t)
            BY <2>1, <1>1, <1>2 DEF IsInjective
        <2>3. Head(list) \notin Range(t)
            BY <2>1, <1>1, <1>2 DEF Range
        <2> QED
            BY <2>2, <2>3
    <1> QED
        BY <1>1, <1>3, <1>4, <1>5 DEF t

-----------------------------------------------------------------------------
(* The handlers of the main thread and of the audio thread.                *)

\* The state after a handler that changes none of the fields Good relates.
LEMMA SameCoreGood ==
    ASSUME NEW l, NEW L, NEW A, Good(l, L, A), NEW m \in RouterState,
           m.open = l.open, m.thr = l.thr, m.att = l.att, m.retry \subseteq l.retry,
           m.pins = l.pins, m.enabled = l.enabled
    PROVE  Good(m, L, A)
    <1>1. \A d \in Devs : \A s \in m.att[d] \cap L : Belongs(m, d, s)
        BY DEF Good, Belongs
    <1> QED
        BY <1>1 DEF Good

\* Choosing the active node keeps Good.
LEMMA SetNodeGood ==
    ASSUME NEW l, NEW L, NEW A, Good(l, L, A), NEW d \in Devs, NEW n \in Nodes
    PROVE  Good([l EXCEPT !.node[d] = n], L, A)
    <1> DEFINE m == [l EXCEPT !.node[d] = n]
    <1>1. l \in RouterState
        BY DEF Good
    <1>2. /\ m \in RouterState /\ m.open = l.open /\ m.thr = l.thr /\ m.att = l.att
          /\ m.retry = l.retry /\ m.pins = l.pins /\ m.enabled = l.enabled
        BY <1>1 DEF RouterState
    <1> HIDE DEF m
    <1> QED
        BY <1>2, SameCoreGood DEF m

\* A node of d is chosen and the group enabled, as select_node and
\* add_active_node do.
LEMMA ActivateGood ==
    ASSUME NEW l, NEW list \in Seq(Streams), NEW A, Range(list) \subseteq A,
           Good(l, Range(list), A), NEW d \in Devs, NEW n \in Nodes, NEW dir, NEW f \in Faults
    PROVE  LET l3 == disable_and_close_dev_group(l, list, d, f)
               l4 == SwitchNode([l3 EXCEPT !.node[d] = n], d, TRUE)
               l5 == enable_devices(l4, list, Group[d], f)
           IN /\ Good(l5, Range(list), A)
              /\ Good(possibly_disable_fallback(l5, list, dir), Range(list), A)
    <1> DEFINE L == Range(list)
               l3 == disable_and_close_dev_group(l, list, d, f)
               ln == [l3 EXCEPT !.node[d] = n]
               l4 == SwitchNode(ln, d, TRUE)
               l5 == enable_devices(l4, list, Group[d], f)
    <1>1. Good(l3, L, A)
        BY CloseGroupGood
    <1> HIDE DEF l3
    <1>2. Good(ln, L, A)
        BY <1>1, SetNodeGood
    <1> HIDE DEF ln
    <1>3. Good(l4, L, A)
        BY <1>2, SwitchGood, Zenon
    <1> HIDE DEF l4
    <1>4. Good(l5, L, A)
        BY <1>3, EnableGood, GroupFacts
    <1> HIDE DEF l5
    <1>5. Good(possibly_disable_fallback(l5, list, dir), L, A)
        BY <1>4, NoFallbackGood
    <1> HIDE DEF L
    <1> QED
        BY <1>4, <1>5 DEF l3, ln, l4, l5, L

\* What is known of the streams when a handler of the main thread starts.
Lists == Range(streams) \cup Range(toDelete)

\* cras_iodev_list_select_node keeps Good.
LEMMA SelectNodeGood ==
    ASSUME Good(iodevs, Range(streams), Lists), streams \in Seq(Streams),
           NEW dir \in Directions, NEW d \in (Devs \ Fallbacks) \cup {NoDev}, NEW n \in Nodes,
           NEW f \in Faults, cras_iodev_list_select_node(dir, d, n, f)
    PROVE  Good(iodevs', Range(streams), Lists)
    <1> DEFINE L == Range(streams)
               found == d \in iodevs.devs
               already == found /\ d \in iodevs.enabled /\ iodevs.node[d] = n
               le == possibly_enable_fallback(iodevs, streams, dir, f)
               l1 == IF already THEN iodevs ELSE le
               D == EnabledIn(l1, dir) \ (Fallbacks \cup IF found THEN Group[d] ELSE {})
               l2 == disable_devices(l1, streams, D, FALSE)
               l3 == disable_and_close_dev_group(l2, streams, d, f)
               l4 == SwitchNode([l3 EXCEPT !.node[d] = n], d, TRUE)
               l5 == enable_devices(l4, streams, Group[d], f)
               l6 == possibly_disable_fallback(l5, streams, dir)
    <1>1. iodevs' = IF ~found \/ already THEN l2
                    ELSE IF enable_succeeds(l4, streams, Group[d], f) THEN l6 ELSE l5
        BY DEF cras_iodev_list_select_node
    <1>2. L \subseteq Lists /\ (found => d \in Devs)
        BY DEF Lists, Good, RouterState
    <1>3. Good(le, L, Lists)
        BY <1>2, FallbackGood
    <1> HIDE DEF le, already, found
    <1>4. Good(l1, L, Lists)
        BY <1>3
    <1> HIDE DEF l1
    <1>5. D \in SUBSET Devs
        BY <1>4 DEF EnabledIn, Good, RouterState
    <1> HIDE DEF D
    <1>6. Good(l2, L, Lists)
        <2>1. \A force \in BOOLEAN : Good(disable_devices(l1, streams, D, force), L, Lists)
            BY <1>4, <1>5, DisableGood
        <2> QED
            BY <2>1, Zenon
    <1> HIDE DEF l2
    <1>7. found => Good(l5, L, Lists) /\ Good(l6, L, Lists)
        BY <1>2, <1>6, ActivateGood
    <1> HIDE DEF l3, l4, l5, l6, L
    <1> QED
        BY <1>1, <1>6, <1>7 DEF L

\* cras_iodev_list_add_active_node keeps Good.
LEMMA AddActiveNodeGood ==
    ASSUME Good(iodevs, Range(streams), Lists), streams \in Seq(Streams),
           NEW d \in Devs, NEW n \in Nodes,
           NEW f \in Faults, cras_iodev_list_add_active_node(d, n, f)
    PROVE  Good(iodevs', Range(streams), Lists)
    <1> DEFINE L == Range(streams)
               l1 == disable_and_close_dev_group(iodevs, streams, d, f)
               l2 == SwitchNode([l1 EXCEPT !.node[d] = n], d, TRUE)
               l3 == enable_devices(l2, streams, Group[d], f)
               l4 == possibly_disable_fallback(l3, streams, Dir[d])
    <1>1. iodevs' = IF enable_succeeds(l2, streams, Group[d], f) THEN l4 ELSE l3
        BY DEF cras_iodev_list_add_active_node
    <1>2. Range(streams) \subseteq Lists
        BY DEF Lists
    <1>3. Good(l3, L, Lists) /\ Good(l4, L, Lists)
        BY <1>2, ActivateGood
    <1> HIDE DEF l1, l2, l3, l4, L
    <1> QED
        BY <1>1, <1>3 DEF L

\* cras_iodev_list_rm_active_node keeps Good.
LEMMA RmActiveNodeGood ==
    ASSUME Good(iodevs, Range(streams), Lists), streams \in Seq(Streams),
           NEW d \in Devs, NEW f \in Faults, cras_iodev_list_rm_active_node(d, f)
    PROVE  Good(iodevs', Range(streams), Lists)
    <1>1. Range(streams) \subseteq Lists
        BY DEF Lists
    <1>2. \A force \in BOOLEAN :
            Good(disable_device_group(iodevs, streams, d, force, f), Range(streams), Lists)
        BY <1>1, DisableGroupGood
    <1>3. iodevs' = disable_device_group(iodevs, streams, d, FALSE, f)
        BY DEF cras_iodev_list_rm_active_node
    <1> QED
        BY <1>2, <1>3, Zenon

\* cras_iodev_list_add keeps Good.
LEMMA ListAddGood ==
    ASSUME Good(iodevs, Range(streams), Lists), NEW d \in Devs, cras_iodev_list_add(d)
    PROVE  Good(iodevs', Range(streams), Lists)
    <1> DEFINE m == [iodevs EXCEPT !.fresh = @ \ Group[d], !.devs = @ \cup Group[d]]
    <1>1. iodevs' = m /\ iodevs \in RouterState /\ d \in Devs \ Fallbacks
        BY DEF cras_iodev_list_add, Good, RouterState
    <1>2. Group[d] \subseteq Devs \ Fallbacks
        BY <1>1, GroupFacts
    <1>3. /\ m \in RouterState /\ m.open = iodevs.open /\ m.thr = iodevs.thr
          /\ m.att = iodevs.att /\ m.retry = iodevs.retry /\ m.pins = iodevs.pins
          /\ m.enabled = iodevs.enabled
        BY <1>1, <1>2 DEF RouterState
    <1> HIDE DEF m
    <1> QED
        BY <1>1, <1>3, SameCoreGood

\* cras_iodev_list_rm keeps Good.
LEMMA ListRmGood ==
    ASSUME Good(iodevs, Range(streams), Lists), streams \in Seq(Streams),
           NEW d \in Devs, NEW f \in Faults, cras_iodev_list_rm(d, f)
    PROVE  Good(iodevs', Range(streams), Lists)
    <1> DEFINE l1 == disable_and_close_dev_group(iodevs, streams, d, f)
               m == [l1 EXCEPT !.devs = @ \ Group[d]]
    <1>1. iodevs' = m /\ Range(streams) \subseteq Lists
        BY DEF cras_iodev_list_rm, Lists
    <1>2. Good(l1, Range(streams), Lists)
        BY <1>1, CloseGroupGood
    <1> HIDE DEF l1
    <1>3. l1 \in RouterState
        BY <1>2 DEF Good
    <1>4. /\ m \in RouterState /\ m.open = l1.open /\ m.thr = l1.thr
          /\ m.att = l1.att /\ m.retry = l1.retry /\ m.pins = l1.pins
          /\ m.enabled = l1.enabled
        BY <1>3 DEF RouterState
    <1> HIDE DEF m
    <1> QED
        BY <1>1, <1>2, <1>4, SameCoreGood

\* suspend_devs keeps Good.
LEMMA SuspendGood ==
    ASSUME Good(iodevs, Range(streams), Lists), streams \in Seq(Streams), suspend_devs
    PROVE  Good(iodevs', Range(streams), Lists)
    <1> DEFINE pinned == {s \in Range(streams) : Pinned(s) /\ PinnedTo[s] \in iodevs.devs}
               normal == {s \in Range(streams) : ~Pinned(s)}
               a == [d \in Devs |-> (iodevs.att[d] \ normal) \ {s \in pinned : PinnedTo[s] = d}]
               l1 == [iodevs EXCEPT !.suspended = TRUE, !.att = a]
               D == {PinnedTo[s] : s \in pinned} \cup iodevs.enabled
    <1>1. iodevs' = close_devs(l1, D)
        BY DEF suspend_devs
    <1>2. iodevs \in RouterState
        BY DEF Good
    <1>3. /\ a \in [Devs -> SUBSET Streams]
          /\ \A d \in Devs : a[d] \subseteq iodevs.att[d]
        BY <1>2 DEF RouterState
    <1>4. D \in SUBSET Devs
        BY <1>2 DEF RouterState
    <1> HIDE DEF a, D
    <1>5. /\ l1 \in RouterState /\ l1.open = iodevs.open /\ l1.thr = iodevs.thr
          /\ l1.att = a /\ l1.retry = iodevs.retry /\ l1.pins = iodevs.pins
          /\ l1.enabled = iodevs.enabled
        BY <1>2, <1>3 DEF RouterState
    <1> HIDE DEF l1
    <1>6. \A d \in Devs : \A s \in l1.att[d] \cap Range(streams) : Belongs(l1, d, s)
        BY <1>3, <1>5 DEF Good, Belongs
    <1>7. Good(l1, Range(streams), Lists)
        BY <1>3, <1>5, <1>6 DEF Good
    <1> QED
        BY <1>1, <1>4, <1>7, CloseGood

\* The start of resume_devs keeps Good.
LEMMA ResumeGood ==
    ASSUME Good(iodevs, Range(streams), Lists), resume_devs
    PROVE  Good(iodevs', Range(streams), Lists)
    <1> DEFINE m == [iodevs EXCEPT !.suspended = FALSE]
    <1>1. iodevs' = m /\ iodevs \in RouterState
        BY DEF resume_devs, Good
    <1>2. /\ m \in RouterState /\ m.open = iodevs.open /\ m.thr = iodevs.thr
          /\ m.att = iodevs.att /\ m.retry = iodevs.retry /\ m.pins = iodevs.pins
          /\ m.enabled = iodevs.enabled
        BY <1>1 DEF RouterState
    <1> HIDE DEF m
    <1> QED
        BY <1>1, <1>2, SameCoreGood

\* Cancelling a retry keeps Good.
LEMMA DropRetry ==
    ASSUME NEW l, NEW L, NEW A, Good(l, L, A), NEW d
    PROVE  Good([l EXCEPT !.retry = @ \ {d}], L, A)
    <1> DEFINE m == [l EXCEPT !.retry = @ \ {d}]
    <1>1. l \in RouterState
        BY DEF Good
    <1>2. /\ m \in RouterState /\ m.open = l.open /\ m.thr = l.thr /\ m.att = l.att
          /\ m.retry \subseteq l.retry /\ m.pins = l.pins /\ m.enabled = l.enabled
        BY <1>1 DEF RouterState
    <1> HIDE DEF m
    <1> QED
        BY <1>2, SameCoreGood DEF m

\* The retry timer's handler keeps Good.
LEMMA InitDeviceCbGood ==
    ASSUME Good(iodevs, Range(streams), Lists), streams \in Seq(Streams),
           NEW d \in Devs, NEW f \in Faults, init_device_cb(d, f)
    PROVE  Good(iodevs', Range(streams), Lists)
    <1> DEFINE L == Range(streams)
               D == {d}
               l1 == [iodevs EXCEPT !.retry = @ \ {d}]
               l2 == init_and_attach_streams(l1, streams, D, f)
               l3 == possibly_disable_fallback(l2, streams, Dir[d])
    <1>1. iodevs' = IF d \notin l1.devs \/ d \in l1.open THEN l1
                    ELSE IF attach_failed(l1, streams, D, f) # {} THEN l2 ELSE l3
        BY DEF init_device_cb
    <1>2. Range(streams) \subseteq Lists /\ D \in SUBSET Devs
        BY DEF Lists
    <1>3. Good(l1, L, Lists)
        BY DropRetry
    <1> HIDE DEF l1, D
    <1>4. Good(l2, L, Lists)
        BY <1>2, <1>3, InitAttachGood
    <1> HIDE DEF l2
    <1>5. Good(l3, L, Lists)
        BY <1>4, NoFallbackGood
    <1> HIDE DEF l3, L
    <1> QED
        BY <1>1, <1>3, <1>4, <1>5 DEF L

\* The idle timer's handler keeps Good.
LEMMA IdleCheckGood ==
    ASSUME Good(iodevs, Range(streams), Lists), NEW expired, idle_dev_check(expired)
    PROVE  Good(iodevs', Range(streams), Lists)
    <1>1. iodevs' = close_devs(iodevs, expired) /\ expired \in SUBSET Devs
        BY DEF idle_dev_check, Good, RouterState
    <1> QED
        BY <1>1, CloseGood

\* cras_iodev_list_suspend_dev keeps Good.
LEMMA SuspendDevGood ==
    ASSUME NEW l, NEW L, NEW A, Good(l, L, A), NEW d \in Devs
    PROVE  Good(cras_iodev_list_suspend_dev(l, d), L, A)
    <1> DEFINE D == {d}
               l1 == close_devs(l, D)
               l2 == SwitchNode(l1, d, FALSE)
    <1>1. cras_iodev_list_suspend_dev(l, d) = IF d \notin l.devs THEN l ELSE l2
        BY DEF cras_iodev_list_suspend_dev
    <1>2. D \in SUBSET Devs
        OBVIOUS
    <1> HIDE DEF D
    <1>3. Good(l1, L, A)
        BY <1>2, CloseGood
    <1> HIDE DEF l1
    <1>4. Good(l2, L, A)
        BY <1>3, SwitchGood, Zenon
    <1> HIDE DEF l2
    <1> QED
        BY <1>1, <1>4

\* cras_iodev_list_resume_dev keeps Good.
LEMMA ResumeDevGood ==
    ASSUME NEW l, NEW list \in Seq(Streams), NEW A, Range(list) \subseteq A,
           Good(l, Range(list), A), NEW d \in Devs, NEW f \in Faults
    PROVE  Good(cras_iodev_list_resume_dev(l, list, d, f), Range(list), A)
    <1> DEFINE L == Range(list)
               D == {d}
               l1 == SwitchNode(l, d, TRUE)
               l2 == init_and_attach_streams(l1, list, D, f)
               failed == attach_failed(l1, list, D, f)
               l3 == schedule_init_device_retry(l2, failed)
               l4 == possibly_disable_fallback(l2, list, Dir[d])
    <1>1. cras_iodev_list_resume_dev(l, list, d, f) =
            IF d \notin l.devs THEN l
            ELSE IF failed # {} THEN l3
            ELSE IF l2.pins[d] > 0 THEN l2 ELSE l4
        BY DEF cras_iodev_list_resume_dev
    <1>2. D \in SUBSET Devs
        OBVIOUS
    <1> HIDE DEF D
    <1>3. Good(l1, L, A)
        BY SwitchGood, Zenon
    <1> HIDE DEF l1
    <1>4. Good(l2, L, A)
        BY <1>2, <1>3, InitAttachGood
    <1>5. Good(l3, L, A)
        BY <1>2, <1>3, AttachRetryGood
    <1> HIDE DEF l2, l3, failed
    <1>6. Good(l4, L, A)
        BY <1>4, NoFallbackGood
    <1> HIDE DEF l4, L
    <1> QED
        BY <1>1, <1>4, <1>5, <1>6 DEF L

\* Handling a device message keeps Good.
LEMMA MessageGood ==
    ASSUME Good(iodevs, Range(streams), Lists), streams \in Seq(Streams),
           messages \in Seq([type : {"RESET_DEVICE", "ERROR_CLOSE"}, dev : Devs]),
           NEW f \in Faults, handle_device_message(f)
    PROVE  Good(iodevs', Range(streams), Lists)
    <1> DEFINE m == Head(messages)
               l1 == cras_iodev_list_suspend_dev(iodevs, m.dev)
               l2 == cras_iodev_list_resume_dev(l1, streams, m.dev, f)
    <1>1. iodevs' = IF m.type = "RESET_DEVICE" THEN l2 ELSE l1
        BY DEF handle_device_message
    <1>2. m.dev \in Devs /\ Range(streams) \subseteq Lists
        <2>1. messages # <<>> /\ Range(streams) \subseteq Lists
            BY DEF handle_device_message, Lists
        <2>2. m \in [type : {"RESET_DEVICE", "ERROR_CLOSE"}, dev : Devs]
            BY <2>1, HeadTailProperties
        <2> QED
            BY <2>1, <2>2
    <1> HIDE DEF m
    <1>3. Good(l1, Range(streams), Lists)
        BY <1>2, SuspendDevGood
    <1> HIDE DEF l1
    <1>4. Good(l2, Range(streams), Lists)
        BY <1>2, <1>3, ResumeDevGood
    <1> HIDE DEF l2
    <1> QED
        BY <1>1, <1>3, <1>4

\* Restarting a device for noise cancellation keeps Good.
LEMMA NoiseCancellationGood ==
    ASSUME Good(iodevs, Range(streams), Lists), streams \in Seq(Streams),
           NEW d \in Devs, NEW f \in Faults, reset_for_noise_cancellation(d, f)
    PROVE  Good(iodevs', Range(streams), Lists)
    <1> DEFINE D == {d}
               l1 == possibly_enable_fallback(iodevs, streams, Dir[d], f)
               l2 == restart_device_groups(l1, streams, D, f)
               l3 == possibly_disable_fallback(l2, streams, Dir[d])
    <1>1. iodevs' = l3
        BY DEF reset_for_noise_cancellation
    <1>2. D \in SUBSET Devs /\ Range(streams) \subseteq Lists /\ Dir[d] \in Directions
        BY DirFacts DEF Lists
    <1> HIDE DEF D
    <1>3. Good(l1, Range(streams), Lists)
        BY <1>2, FallbackGood
    <1> HIDE DEF l1
    <1>4. Good(l2, Range(streams), Lists)
        BY <1>2, <1>3, RestartGood
    <1> HIDE DEF l2
    <1> QED
        BY <1>1, <1>4, NoFallbackGood

\* Reconnecting a stream for a new AEC reference keeps Good.
LEMMA AecRefGood ==
    ASSUME Good(iodevs, Range(streams), Lists), streams \in Seq(Streams),
           NEW s \in Streams, NEW f \in Faults, cras_iodev_list_set_aec_ref(s, f)
    PROVE  Good(iodevs', Range(streams), Lists)
    <1> DEFINE L == Range(streams)
               D == PinnedDevs(s)
               l1 == disconnect_stream(iodevs, s, Devs)
               E == EnabledIn(l1, Dir[s]) \cap l1.open
               l2 == init_pinned_devices(l1, D, s, f)
               up == D \ init_failed(l1, D, f)
               ln == add_stream(l1, s, E, f)
               lp == add_stream(l2, s, up, f)
    <1>1. iodevs' = IF ~Pinned(s) THEN ln ELSE IF PinnedTo[s] \notin l1.devs THEN l1 ELSE lp
        BY DEF cras_iodev_list_set_aec_ref
    <1>2. s \in Lists
        BY DEF cras_iodev_list_set_aec_ref, Lists
    <1>3. Good(l1, L, Lists)
        BY DisconnectGood
    <1> HIDE DEF l1
    <1>4. ~Pinned(s) => Good(ln, L, Lists)
        <2> SUFFICES ASSUME ~Pinned(s)  PROVE Good(ln, L, Lists)
            OBVIOUS
        <2>1. \A d \in Devs \cap E : Belongs(l1, d, s)
            BY EnabledBelongs DEF EnabledIn
        <2> HIDE DEF E
        <2> QED
            BY <1>2, <1>3, <2>1, AddGood
    <1>5. Pinned(s) => Good(lp, L, Lists)
        <2> SUFFICES ASSUME Pinned(s)  PROVE Good(lp, L, Lists)
            OBVIOUS
        <2>1. D \in SUBSET Devs /\ \A d \in D : Belongs(l2, d, s)
            BY PinnedFacts
        <2>2. up \subseteq D
            OBVIOUS
        <2> HIDE DEF D, up
        <2>3. Good(l2, L, Lists)
            BY <1>3, <2>1, InitPinnedGood
        <2> HIDE DEF l2
        <2>4. \A d \in Devs \cap up : Belongs(l2, d, s)
            BY <2>1, <2>2
        <2> QED
            BY <1>2, <2>3, <2>4, AddGood
    <1> HIDE DEF ln, lp
    <1> QED
        BY <1>1, <1>3, <1>4, <1>5

\* The audio thread dropping a device keeps Good.
LEMMA DropDevGood ==
    ASSUME NEW l, NEW L, NEW A, Good(l, L, A), NEW d \in Devs
    PROVE  Good(dev_io_rm_open_dev(l, d), L, A)
    <1> DEFINE m == dev_io_rm_open_dev(l, d)
    <1>1. l \in RouterState
        BY DEF Good
    <1>2. /\ m \in RouterState /\ m.open = l.open /\ m.thr = l.thr \ {d}
          /\ m.att = [l.att EXCEPT ![d] = {}]
          /\ m.retry = l.retry /\ m.pins = l.pins /\ m.enabled = l.enabled
        BY <1>1 DEF dev_io_rm_open_dev, RouterState
    <1> HIDE DEF m
    <1>3. \A e \in Devs : m.att[e] = IF e = d THEN {} ELSE l.att[e]
        BY <1>1, <1>2 DEF RouterState
    <1>4. \A e \in Devs : \A s \in m.att[e] \cap L : Belongs(m, e, s)
        BY <1>2, <1>3 DEF Good, Belongs
    <1> QED
        BY <1>2, <1>3, <1>4 DEF Good, m

\* The audio thread's error path keeps Good.
LEMMA DevErrGood ==
    ASSUME Good(iodevs, Range(streams), Lists), NEW d \in Devs, handle_dev_err(d)
    PROVE  Good(iodevs', Range(streams), Lists)
    <1> DEFINE l1 == dev_io_rm_open_dev(iodevs, d)
               l2 == [l1 EXCEPT !.resetPending = @ \cup {d}]
    <1>1. iodevs' = l1 \/ iodevs' = l2
        BY DEF handle_dev_err, cras_iodev_reset_request
    <1>2. Good(l1, Range(streams), Lists)
        BY DropDevGood
    <1> HIDE DEF l1
    <1>3. l1 \in RouterState
        BY <1>2 DEF Good
    <1>4. /\ l2 \in RouterState /\ l2.open = l1.open /\ l2.thr = l1.thr /\ l2.att = l1.att
          /\ l2.retry = l1.retry /\ l2.pins = l1.pins /\ l2.enabled = l1.enabled
        BY <1>3 DEF RouterState
    <1> HIDE DEF l2
    <1>5. Good(l2, Range(streams), Lists)
        BY <1>2, <1>4, SameCoreGood
    <1> QED
        BY <1>1, <1>2, <1>5

-----------------------------------------------------------------------------
(* The inductive invariant.                                                *)

\* A stream is in one of the two lists at most, and once: a handler that moves
\* it takes it out of the other list.
InOneList ==
    /\ IsInjective(streams) /\ IsInjective(toDelete)
    /\ Range(streams) \cap Range(toDelete) = {}

\* A loop of the main thread has streams left to visit, and each of them is still
\* in the list the loop runs over.
LoopsVisitListed ==
    /\ main.loop = "delete" => /\ main.todo # <<>> /\ IsInjective(main.todo)
                               /\ Range(main.todo) \subseteq Range(toDelete)
    /\ main.loop = "resume" => main.todo # <<>> /\ Range(main.todo) \subseteq Range(streams)

\* The types of everything but the router's own state.
TypeOfLists ==
    /\ streams \in Seq(Streams) /\ toDelete \in Seq(Streams)
    /\ drainTimer \in BOOLEAN /\ idleTimer \in BOOLEAN
    /\ unplayed \subseteq Streams
    /\ main \in [loop : {"none", "client", "delete", "resume"}, todo : Seq(Streams),
                 who : SUBSET Range(Client)]
    /\ messages \in Seq([type : {"RESET_DEVICE", "ERROR_CLOSE"}, dev : Devs])

\* The inductive invariant.
IInv ==
    /\ TypeOfLists /\ InOneList /\ LoopsVisitListed
    /\ Good(iodevs, Range(streams), Lists)

\* Initially everything is empty.
LEMMA InitInv ==
    ASSUME Init
    PROVE  IInv
    <1>1. iodevs \in RouterState
        <2>1. (CHOOSE n \in Nodes : TRUE) \in Nodes
            BY RouterAssumption
        <2>2. /\ InitialDevs \subseteq Devs \ Fallbacks /\ Fallbacks \subseteq Devs
            BY RouterAssumption DEF Fallbacks
        <2> DEFINE n0 == CHOOSE n \in Nodes : TRUE
        <2> HIDE DEF n0
        <2>3. [d \in Devs |-> n0] \in [Devs -> Nodes]
            BY <2>1 DEF n0
        <2> QED
            BY <2>2, <2>3 DEF Init, RouterState, n0
    <1>2. /\ iodevs.open = {} /\ iodevs.thr = {} /\ iodevs.retry = {}
          /\ iodevs.att = [d \in Devs |-> {}] /\ iodevs.pins = [d \in Devs |-> 0]
        BY DEF Init
    <1>3. Fallbacks \subseteq Devs
        BY RouterAssumption DEF Fallbacks
    <1>4. Good(iodevs, Range(streams), Lists)
        <2>1. /\ \A d \in Devs : iodevs.att[d] = {}
              /\ \A d \in Fallbacks : iodevs.pins[d] = 0
            BY <1>2, <1>3
        <2> QED
            BY <1>1, <1>2, <2>1 DEF Good
    <1>5. TypeOfLists
        <2>1. /\ streams = <<>> /\ toDelete = <<>> /\ unplayed = {} /\ drainTimer = FALSE
              /\ idleTimer = FALSE /\ main = Idle /\ messages = <<>>
            BY DEF Init
        <2>2. Idle \in [loop : {"none", "client", "delete", "resume"}, todo : Seq(Streams),
                        who : SUBSET Range(Client)]
            BY DEF Idle
        <2>3. /\ streams \in Seq(Streams) /\ toDelete \in Seq(Streams)
              /\ messages \in Seq([type : {"RESET_DEVICE", "ERROR_CLOSE"}, dev : Devs])
            BY <2>1, EmptySeq
        <2>4. drainTimer \in BOOLEAN /\ idleTimer \in BOOLEAN /\ unplayed \subseteq Streams
            BY <2>1
        <2> QED
            BY <2>1, <2>2, <2>3, <2>4 DEF TypeOfLists
    <1>6. InOneList
        BY DEF Init, InOneList, IsInjective, Range
    <1>7. LoopsVisitListed
        BY DEF Init, LoopsVisitListed, Idle
    <1> QED
        BY <1>4, <1>5, <1>6, <1>7 DEF IInv

\* A step that leaves the lists and the loop alone.
LEMMA RouterStep ==
    ASSUME IInv, UNCHANGED <<streams, toDelete, main>>, Good(iodevs', Range(streams), Lists),
           drainTimer' \in BOOLEAN, idleTimer' \in BOOLEAN, unplayed' \subseteq Streams,
           messages' \in Seq([type : {"RESET_DEVICE", "ERROR_CLOSE"}, dev : Devs])
    PROVE  IInv'
    <1>1. TypeOfLists' /\ InOneList' /\ LoopsVisitListed'
        BY DEF IInv, TypeOfLists, InOneList, LoopsVisitListed
    <1>2. Good(iodevs', Range(streams'), Lists')
        BY DEF Lists
    <1> QED
        BY <1>1, <1>2 DEF IInv

\* Handlers of the router keep everything else.
LEMMA OnlyRouterStep ==
    ASSUME IInv, OnlyRouter, Good(iodevs', Range(streams), Lists)
    PROVE  IInv'
    <1>1. /\ UNCHANGED <<streams, toDelete, main>> /\ drainTimer' \in BOOLEAN
          /\ idleTimer' \in BOOLEAN /\ unplayed' \subseteq Streams
          /\ messages' \in Seq([type : {"RESET_DEVICE", "ERROR_CLOSE"}, dev : Devs])
        BY DEF OnlyRouter, IInv, TypeOfLists
    <1> QED
        BY <1>1, RouterStep

\* A loop that starts has something left to visit.
LEMMA LoopFacts ==
    ASSUME NEW loop \in {"delete", "resume"}, NEW todo \in Seq(Streams)
    PROVE  /\ Loop(loop, todo) \in [loop : {"none", "client", "delete", "resume"},
                                    todo : Seq(Streams), who : SUBSET Range(Client)]
           /\ Loop(loop, todo).loop \in {"none", loop}
           /\ Loop(loop, todo).loop # "none" => Loop(loop, todo).todo = todo /\ todo # <<>>
    BY DEF Loop, Idle

\* stream_list_add: an accepted stream is listed, a refused one attached
\* nowhere.
LEMMA AddStep ==
    ASSUME IInv, NEW s \in Streams, NEW f \in Faults, stream_list_add(s, f)
    PROVE  IInv'
    <1> DEFINE i == InsertPos(streams, s)
               list == InsertAt(streams, i, s)
               r == stream_added_cb(iodevs, list, s, f)
               A == Lists \cup {s}
    <1>1. /\ iodevs' = r.l /\ streams' = (IF r.ok THEN list ELSE streams)
          /\ UNCHANGED <<toDelete, drainTimer, idleTimer, unplayed, main, messages>>
          /\ s \notin Range(streams) /\ s \notin Range(toDelete) /\ main = Idle
        BY DEF stream_list_add
    <1>2. streams \in Seq(Streams) /\ i \in 1..(Len(streams) + 1)
        BY InsertPosFacts DEF IInv, TypeOfLists
    <1> HIDE DEF i
    <1>3. /\ list \in Seq(Streams) /\ Range(list) = Range(streams) \cup {s} /\ IsInjective(list)
        BY <1>1, <1>2, InsertAtFacts, InsertAtRange DEF IInv, InOneList
    <1> HIDE DEF list
    <1>4. \A d \in Devs : iodevs.att[d] \subseteq Lists
        BY DEF IInv, Good
    <1>5. s \notin Lists
        BY <1>1 DEF Lists
    <1>6. Good(iodevs, Range(list), A)
        BY <1>3, <1>4, <1>5 DEF IInv, Good
    <1>7. Range(list) \subseteq A
        BY <1>3 DEF Lists
    <1>8. s \in A
        OBVIOUS
    <1> HIDE DEF A
    <1>9. /\ Good(r.l, Range(list), A)
          /\ ~r.ok => \A d \in Devs : s \in r.l.att[d] => s \in iodevs.att[d]
        BY <1>3, <1>6, <1>7, <1>8, AddedGood
    <1> HIDE DEF r
    <1>10. TypeOfLists'
        BY <1>1, <1>2, <1>3 DEF IInv, TypeOfLists
    <1>11. InOneList'
        BY <1>1, <1>3 DEF IInv, InOneList
    <1>12. LoopsVisitListed'
        BY <1>1 DEF LoopsVisitListed, Idle
    <1>13. Good(iodevs', Range(streams'), Lists')
        <2>1. CASE r.ok
            <3>1. streams' = list /\ Lists' = A
                BY <2>1, <1>1, <1>3 DEF Lists, A
            <3> QED
                BY <3>1, <1>1, <1>9
        <2>2. CASE ~r.ok
            <3>1. streams' = streams /\ Lists' = Lists
                BY <2>2, <1>1 DEF Lists
            <3>2. \A d \in Devs : r.l.att[d] \subseteq Lists
                BY <2>2, <1>4, <1>5, <1>9 DEF Good, A
            <3>3. Range(streams) \subseteq Range(list)
                BY <1>3
            <3>4. Good(r.l, Range(streams), Lists)
                BY <1>9, <3>2, <3>3, GoodWeaker
            <3> QED
                BY <3>1, <3>4, <1>1
        <2> QED
            BY <2>1, <2>2
    <1> QED
        BY <1>10, <1>11, <1>12, <1>13 DEF IInv

\* A stream moves from one list to the other.
LEMMA MoveFacts ==
    ASSUME IInv, NEW i \in 1..Len(streams), MoveToDelete(i)
    PROVE  /\ streams' \in Seq(Streams) /\ toDelete' \in Seq(Streams) /\ toDelete' # <<>>
           /\ unplayed' \subseteq Streams /\ UNCHANGED <<iodevs, idleTimer, messages>>
           /\ InOneList' /\ Good(iodevs', Range(streams'), Lists')
    <1> DEFINE s == streams[i]
    <1>1. /\ streams' = RemoveAt(streams, i) /\ toDelete' = Append(toDelete, s)
          /\ unplayed' \subseteq unplayed \cup {s}
          /\ UNCHANGED <<iodevs, idleTimer, messages>>
        BY DEF MoveToDelete
    <1>2. /\ streams \in Seq(Streams) /\ toDelete \in Seq(Streams) /\ unplayed \subseteq Streams
          /\ IsInjective(streams) /\ IsInjective(toDelete)
          /\ Range(streams) \cap Range(toDelete) = {}
        BY DEF IInv, TypeOfLists, InOneList
    <1>3. s \in Streams /\ s \in Range(streams)
        BY <1>2 DEF Range
    <1>4. s \notin Range(toDelete)
        BY <1>2, <1>3
    <1>5. /\ streams' \in Seq(Streams) /\ Range(streams') = Range(streams) \ {s}
          /\ IsInjective(streams')
        BY <1>1, <1>2, RemoveAtFacts, RemoveAtRange
    <1> HIDE DEF s
    <1>6. /\ toDelete' \in Seq(Streams) /\ toDelete' # <<>>
          /\ Range(toDelete') = Range(toDelete) \cup {s} /\ IsInjective(toDelete')
        BY <1>1, <1>2, <1>3, <1>4, AppendRange
    <1>7. InOneList'
        BY <1>2, <1>5, <1>6 DEF InOneList
    <1>8. Lists' = Lists
        BY <1>3, <1>5, <1>6 DEF Lists
    <1>9. Range(streams') \subseteq Range(streams) /\ \A d \in Devs : iodevs.att[d] \subseteq Lists
        BY <1>5 DEF IInv, Good
    <1>10. Good(iodevs, Range(streams'), Lists)
        BY <1>9, GoodWeaker DEF IInv
    <1>11. Good(iodevs', Range(streams'), Lists')
        BY <1>1, <1>8, <1>10
    <1> QED
        BY <1>1, <1>2, <1>3, <1>5, <1>6, <1>7, <1>11

\* The main thread goes on to delete_streams, or stays in the loop over the
\* streams of a client.
LEMMA MoveStep ==
    ASSUME IInv, NEW i \in 1..Len(streams), MoveToDelete(i), drainTimer' \in BOOLEAN,
           \/ main' = Loop("delete", toDelete')
           \/ \E c \in Range(Client) :
                 main' = [loop |-> "client", todo |-> <<>>, who |-> {c}]
    PROVE  IInv'
    <1>1. /\ streams' \in Seq(Streams) /\ toDelete' \in Seq(Streams) /\ toDelete' # <<>>
          /\ unplayed' \subseteq Streams /\ UNCHANGED <<iodevs, idleTimer, messages>>
          /\ InOneList' /\ Good(iodevs', Range(streams'), Lists')
        BY MoveFacts
    <1>2. /\ main' \in [loop : {"none", "client", "delete", "resume"},
                        todo : Seq(Streams), who : SUBSET Range(Client)]
          /\ LoopsVisitListed'
        <2>1. CASE main' = Loop("delete", toDelete')
            <3>1. main' = [loop |-> "delete", todo |-> toDelete', who |-> {}]
                BY <2>1, <1>1 DEF Loop
            <3> QED
                BY <3>1, <1>1 DEF LoopsVisitListed, InOneList
        <2>2. CASE \E c \in Range(Client) :
                      main' = [loop |-> "client", todo |-> <<>>, who |-> {c}]
            BY <2>2 DEF LoopsVisitListed
        <2> QED
            BY <2>1, <2>2
    <1>3. TypeOfLists'
        BY <1>1, <1>2 DEF IInv, TypeOfLists
    <1> QED
        BY <1>1, <1>2, <1>3 DEF IInv

\* One iteration of stream_list_rm_all_client_streams.
LEMMA ClientStep ==
    ASSUME IInv, NEW c \in Range(Client), move_client_stream(c)
    PROVE  IInv'
    <1> DEFINE mine == {i \in DOMAIN streams : Client[streams[i]] = c}
               i == FirstOf(mine)
    <1>1. /\ mine # {} /\ MoveToDelete(i)
          /\ drainTimer' \in {FALSE, drainTimer}
          /\ \/ main' = Loop("delete", toDelete')
             \/ main' = [loop |-> "client", todo |-> <<>>, who |-> {c}]
        BY DEF move_client_stream
    <1>2. DOMAIN streams = 1..Len(streams) /\ drainTimer \in BOOLEAN /\ Len(streams) \in Nat
        BY DEF IInv, TypeOfLists
    <1>3. mine \in SUBSET Nat /\ mine \subseteq 1..Len(streams)
        BY <1>2
    <1> HIDE DEF mine
    <1>4. i \in 1..Len(streams)
        BY <1>1, <1>3, FirstOfIsIn
    <1> HIDE DEF i
    <1>5. drainTimer' \in BOOLEAN
        BY <1>1, <1>2
    <1> QED
        BY <1>1, <1>4, <1>5, MoveStep

\* stream_list_rm.
LEMMA RmStep ==
    ASSUME IInv, NEW s \in Streams, stream_list_rm(s)
    PROVE  IInv'
    <1>1. /\ s \in Range(streams) /\ MoveToDelete(IndexOf(streams, s)) /\ drainTimer' = FALSE
          /\ main' = Loop("delete", toDelete')
        BY DEF stream_list_rm
    <1>2. IndexOf(streams, s) \in 1..Len(streams)
        BY <1>1, IndexFacts DEF IInv, TypeOfLists
    <1> QED
        BY <1>1, <1>2, MoveStep

\* stream_list_direct_rm: the stream is disconnected before it is destroyed.
LEMMA DirectRmStep ==
    ASSUME IInv, NEW s \in Streams, stream_list_direct_rm(s)
    PROVE  IInv'
    <1> DEFINE i == IndexOf(streams, s)
               l1 == stream_removed(iodevs, streams', s)
    <1>1. /\ s \in Range(streams) /\ streams' = RemoveAt(streams, i) /\ main = Idle
          /\ iodevs' = l1
          /\ UNCHANGED <<toDelete, drainTimer, idleTimer, unplayed, main, messages>>
        BY DEF stream_list_direct_rm
    <1>2. streams \in Seq(Streams) /\ IsInjective(streams)
        BY DEF IInv, TypeOfLists, InOneList
    <1>3. i \in 1..Len(streams) /\ streams[i] = s
        BY <1>1, <1>2, IndexFacts
    <1> HIDE DEF i
    <1>4. /\ streams' \in Seq(Streams) /\ Range(streams') = Range(streams) \ {s}
          /\ IsInjective(streams')
        BY <1>1, <1>2, <1>3, RemoveAtFacts, RemoveAtRange
    <1>5. Good(l1, Range(streams), Lists \ {s})
        BY RemovedGood DEF IInv
    <1> HIDE DEF l1
    <1>6. Lists \ {s} \subseteq Lists'
        BY <1>1, <1>4 DEF Lists
    <1>7. \A d \in Devs : l1.att[d] \subseteq Lists'
        BY <1>5, <1>6 DEF Good
    <1>8. Range(streams') \subseteq Range(streams)
        BY <1>4
    <1>9. Good(l1, Range(streams'), Lists')
        BY <1>5, <1>7, <1>8, GoodWeaker
    <1>10. TypeOfLists'
        BY <1>1, <1>4 DEF IInv, TypeOfLists
    <1>11. InOneList'
        BY <1>1, <1>4 DEF IInv, InOneList
    <1>12. LoopsVisitListed'
        BY <1>1 DEF LoopsVisitListed, Idle
    <1> QED
        BY <1>1, <1>9, <1>10, <1>11, <1>12 DEF IInv

\* One iteration of delete_streams: a stream leaves the list once no device has
\* it.
LEMMA DeleteStep ==
    ASSUME IInv, delete_streams
    PROVE  IInv'
    <1> DEFINE s == Head(main.todo)
               rest == Tail(main.todo)
               keep == Draining(iodevs, s)
               i == IndexOf(toDelete, s)
               cut == RemoveAt(toDelete, i)
               l1 == stream_removed(iodevs, streams, s)
    <1>1. /\ main.loop = "delete"
          /\ toDelete' = (IF keep THEN toDelete ELSE cut)
          /\ unplayed' = (IF keep THEN unplayed ELSE unplayed \ {s})
          /\ iodevs' = (IF keep THEN iodevs ELSE l1)
          /\ idleTimer' \in BOOLEAN /\ drainTimer' \in BOOLEAN
          /\ main' = Loop("delete", rest)
          /\ UNCHANGED <<streams, messages>>
        BY DEF delete_streams, IInv, TypeOfLists
    <1>2. /\ toDelete \in Seq(Streams) /\ main.todo \in Seq(Streams) /\ main.todo # <<>>
          /\ IsInjective(main.todo) /\ Range(main.todo) \subseteq Range(toDelete)
          /\ IsInjective(toDelete) /\ unplayed \subseteq Streams
          /\ Range(streams) \cap Range(toDelete) = {}
        BY <1>1 DEF IInv, TypeOfLists, InOneList, LoopsVisitListed
    <1>3. /\ s \in Range(main.todo) /\ rest \in Seq(Streams) /\ IsInjective(rest)
          /\ Range(rest) \subseteq Range(main.todo) /\ s \notin Range(rest)
        BY <1>2, TailRange
    <1> HIDE DEF s, rest, keep
    <1>4. s \in Range(toDelete) /\ s \in Streams
        BY <1>2, <1>3, RangeFacts
    <1>5. i \in 1..Len(toDelete) /\ toDelete[i] = s
        BY <1>2, <1>4, IndexFacts
    <1> HIDE DEF i
    <1>6. cut \in Seq(Streams) /\ Range(cut) = Range(toDelete) \ {s} /\ IsInjective(cut)
        BY <1>2, <1>5, RemoveAtFacts, RemoveAtRange
    <1> HIDE DEF cut
    <1>7. Good(l1, Range(streams), Lists \ {s})
        BY <1>4, RemovedGood DEF IInv
    <1> HIDE DEF l1
    <1>8. /\ toDelete' \in Seq(Streams) /\ IsInjective(toDelete')
          /\ Range(rest) \subseteq Range(toDelete')
          /\ Range(toDelete') \subseteq Range(toDelete)
        BY <1>1, <1>2, <1>3, <1>6
    <1>9. Good(iodevs', Range(streams'), Lists')
        <2>1. CASE keep
            <3>1. Lists' = Lists /\ iodevs' = iodevs /\ streams' = streams
                BY <2>1, <1>1 DEF Lists
            <3> QED
                BY <3>1 DEF IInv
        <2>2. CASE ~keep
            <3>1. iodevs' = l1 /\ streams' = streams /\ Lists \ {s} \subseteq Lists'
                BY <2>2, <1>1, <1>6 DEF Lists
            <3>2. \A d \in Devs : l1.att[d] \subseteq Lists'
                BY <3>1, <1>7 DEF Good
            <3>3. Good(l1, Range(streams), Lists')
                BY <3>2, <1>7, GoodWeaker
            <3> QED
                BY <3>1, <3>3
        <2> QED
            BY <2>1, <2>2
    <1>10. /\ main' \in [loop : {"none", "client", "delete", "resume"},
                         todo : Seq(Streams), who : SUBSET Range(Client)]
           /\ main'.loop \in {"none", "delete"}
           /\ main'.loop # "none" => main'.todo = rest /\ rest # <<>>
        BY <1>1, <1>3, LoopFacts
    <1>11. LoopsVisitListed'
        BY <1>3, <1>8, <1>10 DEF LoopsVisitListed
    <1>12. TypeOfLists'
        BY <1>1, <1>2, <1>8, <1>10 DEF IInv, TypeOfLists
    <1>13. InOneList'
        BY <1>1, <1>2, <1>8 DEF IInv, InOneList
    <1> QED
        BY <1>9, <1>11, <1>12, <1>13 DEF IInv

\* A loop starts over a whole list, the lists unchanged.
LEMMA StartLoop ==
    ASSUME IInv, UNCHANGED <<streams, toDelete, idleTimer, unplayed, messages>>,
           drainTimer' \in BOOLEAN, Good(iodevs', Range(streams), Lists),
           main' = Loop("delete", toDelete) \/ main' = Loop("resume", streams)
    PROVE  IInv'
    <1>1. streams \in Seq(Streams) /\ toDelete \in Seq(Streams)
        BY DEF IInv, TypeOfLists
    <1>2. /\ main' \in [loop : {"none", "client", "delete", "resume"},
                        todo : Seq(Streams), who : SUBSET Range(Client)]
          /\ \/ main'.loop = "none"
             \/ main'.loop = "delete" /\ main'.todo = toDelete /\ toDelete # <<>>
             \/ main'.loop = "resume" /\ main'.todo = streams /\ streams # <<>>
        <2>1. CASE main' = Loop("delete", toDelete)
            BY <2>1, <1>1, LoopFacts
        <2>2. CASE main' = Loop("resume", streams)
            BY <2>2, <1>1, LoopFacts
        <2> QED
            BY <2>1, <2>2
    <1>3. LoopsVisitListed'
        BY <1>2 DEF LoopsVisitListed, IInv, InOneList
    <1>4. TypeOfLists'
        BY <1>2 DEF IInv, TypeOfLists
    <1>5. InOneList'
        BY DEF IInv, InOneList
    <1>6. Good(iodevs', Range(streams'), Lists')
        BY DEF Lists
    <1> QED
        BY <1>3, <1>4, <1>5, <1>6 DEF IInv

\* delete_streams starts.
LEMMA BeginDeleteStep ==
    ASSUME IInv, BeginDelete
    PROVE  IInv'
    <1>1. /\ UNCHANGED <<streams, toDelete, idleTimer, unplayed, messages>>
          /\ iodevs' = iodevs /\ drainTimer' \in BOOLEAN /\ main' = Loop("delete", toDelete)
        BY DEF BeginDelete
    <1>2. Good(iodevs', Range(streams), Lists)
        BY <1>1 DEF IInv
    <1> QED
        BY <1>1, <1>2, StartLoop

\* One iteration of resume_devs.
LEMMA ResumeStreamStep ==
    ASSUME IInv, NEW f \in Faults, resume_stream(f)
    PROVE  IInv'
    <1> DEFINE s == Head(main.todo)
               rest == Tail(main.todo)
               r == stream_added_cb(iodevs, streams, s, f)
    <1>1. /\ main.loop = "resume" /\ iodevs' = r.l /\ main' = Loop("resume", rest)
          /\ UNCHANGED <<streams, toDelete, drainTimer, idleTimer, unplayed, messages>>
        BY DEF resume_stream
    <1>2. /\ main.todo \in Seq(Streams) /\ main.todo # <<>> /\ streams \in Seq(Streams)
          /\ Range(main.todo) \subseteq Range(streams) /\ Range(streams) \subseteq Lists
        BY <1>1 DEF IInv, TypeOfLists, LoopsVisitListed, Lists
    <1>3. /\ s \in Range(main.todo) /\ rest \in Seq(Streams)
          /\ Range(rest) \subseteq Range(main.todo)
        BY <1>2, TailRange
    <1> HIDE DEF s, rest
    <1>4. s \in Streams /\ s \in Lists
        BY <1>2, <1>3, RangeFacts
    <1>5. Good(r.l, Range(streams), Lists)
        BY <1>2, <1>4, AddedGood DEF IInv
    <1> HIDE DEF r
    <1>6. /\ main' \in [loop : {"none", "client", "delete", "resume"},
                        todo : Seq(Streams), who : SUBSET Range(Client)]
          /\ main'.loop \in {"none", "resume"}
          /\ main'.loop # "none" => main'.todo = rest /\ rest # <<>>
        BY <1>1, <1>3, LoopFacts
    <1>7. LoopsVisitListed'
        BY <1>1, <1>2, <1>3, <1>6 DEF LoopsVisitListed
    <1>8. TypeOfLists'
        BY <1>1, <1>6 DEF IInv, TypeOfLists
    <1>9. InOneList'
        BY <1>1 DEF IInv, InOneList
    <1>10. Good(iodevs', Range(streams'), Lists')
        BY <1>1, <1>5 DEF Lists
    <1> QED
        BY <1>7, <1>8, <1>9, <1>10 DEF IInv

\* Every step of the system keeps the invariant.
LEMMA NextInv ==
    ASSUME IInv, [Next]_vars
    PROVE  IInv'
    <1> DEFINE Message == [type : {"RESET_DEVICE", "ERROR_CLOSE"}, dev : Devs]
    <1>1. /\ Good(iodevs, Range(streams), Lists) /\ streams \in Seq(Streams)
          /\ toDelete \in Seq(Streams) /\ drainTimer \in BOOLEAN /\ idleTimer \in BOOLEAN
          /\ unplayed \subseteq Streams /\ messages \in Seq(Message)
        BY DEF IInv, TypeOfLists
    <1>2. CASE UNCHANGED vars
        <2>1. /\ UNCHANGED <<streams, toDelete, main>> /\ iodevs' = iodevs
              /\ drainTimer' = drainTimer /\ idleTimer' = idleTimer
              /\ unplayed' = unplayed /\ messages' = messages
            BY <1>2 DEF vars
        <2> QED
            BY <1>1, <2>1, RouterStep
    <1>3. ASSUME NEW s \in Streams, NEW f \in Faults, stream_list_add(s, f)  PROVE IInv'
        BY <1>3, AddStep
    <1>4. ASSUME NEW s \in Streams, stream_list_rm(s)  PROVE IInv'
        BY <1>4, RmStep
    <1>5. ASSUME NEW c \in Range(Client), stream_list_rm_all_client_streams(c)  PROVE IInv'
        <2>1. CASE move_client_stream(c)
            BY <2>1, ClientStep
        <2>2. CASE BeginDelete
            BY <2>2, BeginDeleteStep
        <2> QED
            BY <1>5, <2>1, <2>2 DEF stream_list_rm_all_client_streams
    <1>6. ASSUME rm_client_stream  PROVE IInv'
        <2>1. PICK c \in main.who : move_client_stream(c)
            BY <1>6 DEF rm_client_stream
        <2>2. c \in Range(Client)
            BY <2>1 DEF IInv, TypeOfLists
        <2> QED
            BY <2>1, <2>2, ClientStep
    <1>7. ASSUME NEW s \in Streams, stream_list_direct_rm(s)  PROVE IInv'
        BY <1>7, DirectRmStep
    <1>8. ASSUME delete_streams  PROVE IInv'
        BY <1>8, DeleteStep
    <1>9. ASSUME drain_timer  PROVE IInv'
        BY <1>9, BeginDeleteStep DEF drain_timer
    <1>10. ASSUME NEW dir \in Directions, NEW d \in (Devs \ Fallbacks) \cup {NoDev},
                  NEW n \in Nodes, NEW f \in Faults, cras_iodev_list_select_node(dir, d, n, f)
           PROVE  IInv'
        <2>1. OnlyRouter
            BY <1>10 DEF cras_iodev_list_select_node
        <2> QED
            BY <1>1, <1>10, <2>1, SelectNodeGood, OnlyRouterStep
    <1>11. ASSUME NEW d \in Devs, NEW n \in Nodes, NEW f \in Faults,
                  cras_iodev_list_add_active_node(d, n, f)
           PROVE  IInv'
        <2>1. OnlyRouter
            BY <1>11 DEF cras_iodev_list_add_active_node
        <2> QED
            BY <1>1, <1>11, <2>1, AddActiveNodeGood, OnlyRouterStep
    <1>12. ASSUME NEW d \in Devs, NEW f \in Faults, cras_iodev_list_rm_active_node(d, f)
           PROVE  IInv'
        <2>1. OnlyRouter
            BY <1>12 DEF cras_iodev_list_rm_active_node
        <2> QED
            BY <1>1, <1>12, <2>1, RmActiveNodeGood, OnlyRouterStep
    <1>13. ASSUME NEW d \in Devs, cras_iodev_list_add(d)  PROVE IInv'
        <2>1. OnlyRouter
            BY <1>13 DEF cras_iodev_list_add
        <2> QED
            BY <1>1, <1>13, <2>1, ListAddGood, OnlyRouterStep
    <1>14. ASSUME NEW d \in Devs, NEW f \in Faults, cras_iodev_list_rm(d, f)  PROVE IInv'
        <2>1. OnlyRouter
            BY <1>14 DEF cras_iodev_list_rm
        <2> QED
            BY <1>1, <1>14, <2>1, ListRmGood, OnlyRouterStep
    <1>15. ASSUME suspend_devs  PROVE IInv'
        <2>1. OnlyRouter
            BY <1>15 DEF suspend_devs
        <2> QED
            BY <1>1, <1>15, <2>1, SuspendGood, OnlyRouterStep
    <1>16. ASSUME resume_devs  PROVE IInv'
        <2>1. /\ UNCHANGED <<streams, toDelete, idleTimer, unplayed, messages>>
              /\ drainTimer' = drainTimer /\ main' = Loop("resume", streams)
            BY <1>16 DEF resume_devs
        <2>2. Good(iodevs', Range(streams), Lists)
            BY <1>1, <1>16, ResumeGood
        <2> QED
            BY <1>1, <2>1, <2>2, StartLoop
    <1>17. ASSUME NEW f \in Faults, resume_stream(f)  PROVE IInv'
        BY <1>17, ResumeStreamStep
    <1>18. ASSUME NEW d \in Devs, NEW f \in Faults, init_device_cb(d, f)  PROVE IInv'
        <2>1. OnlyRouter
            BY <1>18 DEF init_device_cb
        <2> QED
            BY <1>1, <1>18, <2>1, InitDeviceCbGood, OnlyRouterStep
    <1>19. ASSUME NEW expired \in SUBSET iodevs.idle, idle_dev_check(expired)  PROVE IInv'
        <2>1. /\ UNCHANGED <<streams, toDelete, main>> /\ drainTimer' = drainTimer
              /\ idleTimer' \in BOOLEAN /\ unplayed' = unplayed /\ messages' = messages
            BY <1>19 DEF idle_dev_check
        <2>2. Good(iodevs', Range(streams), Lists)
            BY <1>1, <1>19, IdleCheckGood
        <2> QED
            BY <1>1, <2>1, <2>2, RouterStep
    <1>20. ASSUME NEW f \in Faults, handle_device_message(f)  PROVE IInv'
        <2>1. /\ UNCHANGED <<streams, toDelete, main>> /\ drainTimer' = drainTimer
              /\ idleTimer' = idleTimer /\ unplayed' = unplayed
              /\ messages # <<>> /\ messages' = Tail(messages)
            BY <1>20 DEF handle_device_message
        <2>2. messages' \in Seq(Message)
            BY <1>1, <2>1
        <2>3. Good(iodevs', Range(streams), Lists)
            BY <1>1, <1>20, MessageGood
        <2> QED
            BY <1>1, <2>1, <2>2, <2>3, RouterStep
    <1>21. ASSUME NEW d \in Devs, NEW f \in Faults, reset_for_noise_cancellation(d, f)
           PROVE  IInv'
        <2>1. OnlyRouter
            BY <1>21 DEF reset_for_noise_cancellation
        <2> QED
            BY <1>1, <1>21, <2>1, NoiseCancellationGood, OnlyRouterStep
    <1>22. ASSUME NEW s \in Streams, NEW f \in Faults, cras_iodev_list_set_aec_ref(s, f)
           PROVE  IInv'
        <2>1. OnlyRouter
            BY <1>22 DEF cras_iodev_list_set_aec_ref
        <2> QED
            BY <1>1, <1>22, <2>1, AecRefGood, OnlyRouterStep
    <1>23. ASSUME NEW d \in Devs, handle_dev_err(d)  PROVE IInv'
        <2>1. /\ UNCHANGED <<streams, toDelete, main>> /\ drainTimer' = drainTimer
              /\ idleTimer' = idleTimer /\ unplayed' = unplayed
              /\ \/ messages' = messages
                 \/ \E type \in {"RESET_DEVICE", "ERROR_CLOSE"} :
                       messages' = Append(messages, [type |-> type, dev |-> d])
            BY <1>23 DEF handle_dev_err, cras_iodev_reset_request, cras_main_message_send
        <2>2. messages' \in Seq(Message)
            <3>1. \A type \in {"RESET_DEVICE", "ERROR_CLOSE"} : [type |-> type, dev |-> d] \in Message
                OBVIOUS
            <3> HIDE DEF Message
            <3>2. \A m \in Message : Append(messages, m) \in Seq(Message)
                BY <1>1, AppendProperties
            <3> QED
                BY <1>1, <2>1, <3>1, <3>2
        <2>3. Good(iodevs', Range(streams), Lists)
            BY <1>1, <1>23, DevErrGood
        <2> QED
            BY <1>1, <2>1, <2>2, <2>3, RouterStep
    <1>24. ASSUME NEW s \in Streams, play_out(s)  PROVE IInv'
        <2>1. /\ UNCHANGED <<streams, toDelete, main>> /\ iodevs' = iodevs
              /\ drainTimer' = drainTimer /\ idleTimer' = idleTimer
              /\ unplayed' = unplayed \ {s} /\ messages' = messages
            BY <1>24 DEF play_out
        <2>2. unplayed' \subseteq Streams
            BY <1>1, <2>1
        <2> QED
            BY <1>1, <2>1, <2>2, RouterStep
    <1> QED
        BY <1>2, <1>3, <1>4, <1>5, <1>6, <1>7, <1>8, <1>9, <1>10, <1>11, <1>12, <1>13, <1>14,
           <1>15, <1>16, <1>17, <1>18, <1>19, <1>20, <1>21, <1>22, <1>23, <1>24 DEF Next

\* The invariant implies the properties TLC checks.
LEMMA InvImplies ==
    ASSUME IInv
    PROVE  /\ TypeOK /\ ThreadHoldsOpenDevs /\ NoDanglingStream
           /\ StreamsWhereTheyBelong /\ RetriesOnlyWhenClosed
    <1>1. TypeOK
        BY DEF IInv, TypeOfLists, Good, TypeOK
    <1>2. ThreadHoldsOpenDevs /\ RetriesOnlyWhenClosed
        BY DEF IInv, Good, ThreadHoldsOpenDevs, RetriesOnlyWhenClosed
    <1>3. NoDanglingStream
        BY DEF IInv, Good, Lists, NoDanglingStream
    <1>4. StreamsWhereTheyBelong
        BY DEF IInv, Good, Belongs, StreamsWhereTheyBelong
    <1> QED
        BY <1>1, <1>2, <1>3, <1>4

\* The inductive invariant holds in every reachable state.
THEOREM Invariance == Spec => []IInv
    <1>1. Init => IInv
        BY InitInv
    <1>2. IInv /\ [Next]_vars => IInv'
        BY NextInv
    <1> QED
        BY <1>1, <1>2, PTL DEF Spec

\* Every variable has its type, and num_pinned_streams is never decremented
\* below zero, whatever the devices, streams and faults.
THEOREM TypeCorrect == Spec => []TypeOK
    BY Invariance, InvImplies, PTL

\* close_dev and the error path of the audio thread keep the thread on open
\* devices, and streams on devices the thread holds.
THEOREM ThreadSafe == Spec => []ThreadHoldsOpenDevs
    BY Invariance, InvImplies, PTL

\* A stream that has left both lists is attached nowhere, whichever handler
\* removed it and whichever append failed.
THEOREM NoDangling == Spec => []NoDanglingStream
    BY Invariance, InvImplies, PTL

\* Streams are attached where the routing rules allow it, after every device
\* switch, retry, restart, suspension and error.
THEOREM RoutedRight == Spec => []StreamsWhereTheyBelong
    BY Invariance, InvImplies, PTL

\* No retry of an open device is pending.
THEOREM RetriesRight == Spec => []RetriesOnlyWhenClosed
    BY Invariance, InvImplies, PTL
=============================================================================
