---------------------------- MODULE PlaybackProofs --------------------------
(***************************************************************************)
(* Proofs about Playback: every device plays the frames of every stream in *)
(* order, no device gets ahead of the buffer, and a stream that drains is  *)
(* played to the end, for any number of streams, devices and frames.       *)
(*                                                                         *)
(* The invariant has a part for the devices (DevsOK) and one for each      *)
(* stream (StreamOK).  Shape says how the two halves of a buffer can be    *)
(* filled and what is read of them.  Protocol says that a request, an      *)
(* unfinished store or a reply is under way exactly while the server waits *)
(* for one, and that the half a request asks for is empty: this is what    *)
(* keeps the client from making the buffer shorter under a device's        *)
(* offset.  Numbered says which frames the halves hold, counted from the   *)
(* read pointer, unless the server has overtaken the client's stores or an *)
(* answer of no frames has put the halves out of turn.  A device's offset  *)
(* is then at most the frames in the buffer, and the frame there is the    *)
(* one that comes next.  That the halves stay in turn without such answers *)
(* is a second invariant (TurnInv), which says which half the next request *)
(* will fill; between the client's two stores that is not the half widx    *)
(* names.                                                                  *)
(* TailsQueued is needed for a stream that drains on several devices: the  *)
(* frames counted when the run wrote the first of them are not fewer than  *)
(* what it has to play.                                                    *)
(***************************************************************************)
EXTENDS Playback, ListProofs, FiniteSetTheorems, TLAPS

-----------------------------------------------------------------------------
(* The inductive invariant.                                                *)

Header == [woff : [Halves -> Nat], roff : [Halves -> Nat], widx : Halves, ridx : Halves,
           pending : BOOLEAN]

Numbers == [next : 0..FrameIds - 1, first : [Halves -> 0..FrameIds - 1], tail : Nat,
            raced : BOOLEAN, swapped : BOOLEAN]

Budget == [opens : Nat, adds : [Streams -> Nat], leaves : Nat, deaths : Nat,
           slow : SUBSET Streams, answers : SUBSET Int, late : SUBSET Devs]

\* What adding, removing and writing streams changes, with streams of V.
DevState(V) == [state : [Devs -> {"closed", "open", "run", "nostream"}],
                hw : [Devs -> 0..HwSize], on : [Devs -> SUBSET V], run : [Devs -> SUBSET V],
                off : [Streams -> [Devs -> 0..BufFrames]], due : [Streams -> BOOLEAN],
                written : Nat]

\* The devices O are open: only they have streams and offsets.
DevOK(L, d, O) ==
    /\ L.run[d] \subseteq L.on[d]
    /\ d \notin O => L.on[d] = {} /\ \A s \in Streams : L.off[s][d] = 0

DevsOK(L, V, O) == L \in DevState(V) /\ \A d \in Devs : DevOK(L, d, O)

\* How the two halves are filled, with callbacks of n frames: nothing is read of
\* the half that is not being read, nor of an empty one.
Shape(h, n) ==
    /\ h.roff[1 - h.ridx] = 0
    /\ h.woff[h.ridx] <= n /\ h.woff[1 - h.ridx] <= n
    /\ h.roff[h.ridx] < h.woff[h.ridx] \/ (h.roff[h.ridx] = 0 /\ h.woff[h.ridx] = 0)

\* One request or reply is under way exactly while the server waits for one, and
\* a request finds an empty half.
Protocol(h, c, rq, rp) ==
    /\ c \in {"wait", "stored", "dead"} /\ rq \in 0..1 /\ rp \in 0..1
    /\ c = "dead" => rq = 0
    /\ c # "dead" => rq + rp + (IF c = "stored" THEN 1 ELSE 0) = IF h.pending THEN 1 ELSE 0
    /\ rq = 1 => h.woff[h.widx] = 0

\* The frames in the buffer are numbered from the read pointer.
Numbered(h, fr) ==
    /\ fr.tail <= cras_shm_get_frames(h)
    /\ fr.raced => fr.tail = 0
    /\ ~fr.raced /\ ~fr.swapped =>
         /\ fr.next = cras_shm_get_frames(h)
         /\ h.woff[h.ridx] > 0 => fr.first[h.ridx] = (-h.roff[h.ridx]) % FrameIds
         /\ h.woff[1 - h.ridx] > 0 =>
              fr.first[1 - h.ridx] = (h.woff[h.ridx] - h.roff[h.ridx]) % FrameIds

\* All that concerns one stream; o are its offsets, k its queued frames.
StreamOK(s, h, c, fr, rq, rp, o, k) ==
    /\ h \in Header /\ fr \in Numbers
    /\ Shape(h, Cb[s]) /\ Protocol(h, c, rq, rp) /\ Numbered(h, fr)
    /\ k \in 0..BufFrames /\ k <= cras_shm_get_frames(h)
    /\ \A d \in Devs : o[d] <= cras_shm_get_frames(h)

StreamFuns ==
    /\ shm \in [Streams -> Header] /\ frames \in [Streams -> Numbers]
    /\ client \in [Streams -> {"wait", "stored", "dead"}]
    /\ req \in [Streams -> 0..1] /\ rep \in [Streams -> 0..1]
    /\ queued \in [Streams -> 0..BufFrames]

PassOK ==
    /\ pass \in [phase : {"idle", "write", "pointers"}, todo : Seq(Devs)]
    /\ pass.phase = "write" => pass.todo # <<>>

\* After the first device of a run, the queued frames of a stream are no fewer
\* than what it has to play to the end, or buffer_frames.
TailsQueued ==
    pass.phase = "write" => \/ pass.todo = open
                            \/ \A s \in Streams : \A d \in Devs :
                                 s \in on[d] => Smaller(frames[s].tail, BufFrames) <= queued[s]

HistOK ==
    /\ hist \in [broken : BOOLEAN, cut : BOOLEAN] /\ ~hist.broken
    /\ ~hist.cut /\ TailsQueued

IInv ==
    /\ open \in Seq(Devs) /\ IsInjective(open)
    /\ live \subseteq Streams /\ drain \subseteq Streams
    /\ DevsOK(Lists, live \cup drain, Range(open))
    /\ StreamFuns
    /\ \A s \in Streams : StreamOK(s, shm[s], client[s], frames[s], req[s], rep[s],
                                   off[s], queued[s])
    /\ PassOK /\ HistOK
    /\ budget \in Budget

-----------------------------------------------------------------------------
(* Constants and numbers.                                                  *)

\* What the assumption says of the constants.
LEMMA ConstFacts ==
  /\ BufFrames \in Nat /\ HwSize \in Nat /\ HwSize >= 2 /\ FrameIds \in Nat
  /\ \A s \in Streams : /\ Route[s] \subseteq Devs /\ Cb[s] \in Nat \ {0} /\ Cb[s] <= BufFrames
                        /\ FrameIds \in Nat \ {0} /\ FrameIds > 2 * Cb[s]
  /\ Order \in Seq(Streams) /\ IsInjective(Order) /\ Streams = Range(Order)
  /\ Budgets \subseteq Budget
  <1>1. BufFrames \in Nat /\ HwSize \in Nat /\ HwSize >= 2 /\ FrameIds \in Nat
    BY PlaybackAssumption
  <1>2. ASSUME NEW s \in Streams
        PROVE  /\ Route[s] \subseteq Devs /\ Cb[s] \in Nat \ {0} /\ Cb[s] <= BufFrames
               /\ FrameIds \in Nat \ {0} /\ FrameIds > 2 * Cb[s]
    BY PlaybackAssumption
  <1>3. Order \in Seq(Streams) /\ IsInjective(Order) /\ Streams = Range(Order)
    BY PlaybackAssumption
  <1>4. Budgets \subseteq Budget BY PlaybackAssumption DEF Budget
  <1> QED BY <1>1, <1>2, <1>3, <1>4

\* The least of a set of naturals is one of its members.
LEMMA LeastFacts ==
  ASSUME NEW S \in SUBSET Nat, S # {}
  PROVE  Least(S) \in S /\ \A x \in S : Least(S) <= x
  BY NatHasLeast DEF Least

\* The smaller of two naturals.
LEMMA SmallerFacts ==
  ASSUME NEW a \in Nat, NEW b \in Nat
  PROVE  /\ Smaller(a, b) \in Nat /\ Smaller(a, b) <= a /\ Smaller(a, b) <= b
         /\ Smaller(a, b) \in {a, b}
  BY DEF Smaller

\* 1 - i is the other half.
LEMMA HalfFacts == \A i \in Halves : 1 - i \in Halves /\ 1 - i # i /\ 1 - (1 - i) = i
  BY DEF Halves

\* There are only two halves.
LEMMA OtherHalf == \A i, j \in Halves : i # j => i = 1 - j
  BY DEF Halves

-----------------------------------------------------------------------------
(* The double buffer.                                                      *)

\* The header of a new stream: nothing is written and no half is in use.
LEMMA FreshHeader ==
  /\ FreshShm \in Header /\ ~FreshShm.pending
  /\ FreshShm.widx = 0 /\ FreshShm.ridx = 0
  /\ \A i \in Halves : FreshShm.woff[i] = 0 /\ FreshShm.roff[i] = 0
  BY DEF FreshShm, Header, Halves

\* The types of a header's fields, of both halves.
LEMMA HeaderFields ==
  ASSUME NEW h \in Header
  PROVE  /\ h.ridx \in Halves /\ 1 - h.ridx \in Halves /\ 1 - h.ridx # h.ridx
         /\ 1 - (1 - h.ridx) = h.ridx /\ h.widx \in Halves
         /\ h.woff \in [Halves -> Nat] /\ h.roff \in [Halves -> Nat] /\ h.pending \in BOOLEAN
         /\ h.woff[h.ridx] \in Nat /\ h.woff[1 - h.ridx] \in Nat
         /\ h.roff[h.ridx] \in Nat /\ h.roff[1 - h.ridx] \in Nat
  BY HalfFacts DEF Header

\* The frames in the buffer: the rest of the half being read, and the other one.
LEMMA FramesOf ==
  ASSUME NEW h \in Header, NEW n \in Nat, Shape(h, n)
  PROVE  /\ cras_shm_get_frames(h) = (h.woff[h.ridx] - h.roff[h.ridx]) + h.woff[1 - h.ridx]
         /\ cras_shm_get_frames(h) \in Nat /\ cras_shm_get_frames(h) <= 2 * n
  <1>1. h.ridx \in Halves /\ 1 - h.ridx \in Halves BY HeaderFields
  <1>2. \A i \in Halves : InHalf(h, i) \in Int
    BY HeaderFields DEF InHalf
  <1>3. cras_shm_get_frames(h) = InHalf(h, h.ridx) + InHalf(h, 1 - h.ridx)
    BY <1>1, <1>2 DEF cras_shm_get_frames, Halves
  <1>4. InHalf(h, h.ridx) = h.woff[h.ridx] - h.roff[h.ridx]
    BY HeaderFields DEF InHalf, Shape
  <1>5. InHalf(h, 1 - h.ridx) = h.woff[1 - h.ridx]
    BY HeaderFields DEF InHalf, Shape
  <1> QED BY <1>3, <1>4, <1>5, HeaderFields DEF Shape

\* What cras_shm_buffer_read does to the fields.
LEMMA ReadFields ==
  ASSUME NEW h \in Header, NEW m \in Nat
  PROVE  LET g == cras_shm_buffer_read(h, m)
             r == h.ridx
             o == 1 - h.ridx
             rest == h.roff[r] + m - h.woff[r]
         IN /\ g \in Header /\ g.widx = h.widx /\ g.pending = h.pending
            /\ \/ m = 0 /\ g = h
               \/ /\ m > 0 /\ rest < 0 /\ g.ridx = r /\ g.woff = h.woff
                  /\ g.roff[r] = h.roff[r] + m /\ g.roff[o] = h.roff[o]
               \/ /\ m > 0 /\ rest >= 0 /\ rest < h.woff[o] /\ g.ridx = o
                  /\ g.woff[r] = 0 /\ g.roff[r] = 0
                  /\ g.woff[o] = h.woff[o] /\ g.roff[o] = rest
               \/ /\ m > 0 /\ rest > 0 /\ rest >= h.woff[o] /\ g.ridx = r
                  /\ g.woff[r] = 0 /\ g.roff[r] = 0
                  /\ g.woff[o] = 0 /\ g.roff[o] = h.roff[o]
               \/ /\ m > 0 /\ rest = 0 /\ h.woff[o] = 0 /\ g.ridx = o
                  /\ g.woff[r] = 0 /\ g.roff[r] = 0
                  /\ g.woff[o] = 0 /\ g.roff[o] = h.roff[o]
  <1> DEFINE g == cras_shm_buffer_read(h, m)
             r == h.ridx
             o == 1 - r
             rest == h.roff[r] + m - h.woff[r]
             wo == [h.woff EXCEPT ![r] = 0]
             ro == [h.roff EXCEPT ![r] = 0]
             adv == [h.roff EXCEPT ![r] = @ + m]
             wo2 == [wo EXCEPT ![o] = 0]
             ro2 == [ro EXCEPT ![o] = rest]
             read == [h EXCEPT !.roff[r] = 0, !.woff[r] = 0, !.ridx = 1 - @]
  <1>1. /\ r \in Halves /\ o \in Halves /\ o # r /\ h.woff \in [Halves -> Nat]
        /\ h.roff \in [Halves -> Nat] /\ h.roff[r] \in Nat /\ h.woff[r] \in Nat
        /\ h.woff[o] \in Nat /\ h.roff[o] \in Nat
    BY HeaderFields
  <1>2. rest \in Int BY <1>1
  <1>3. /\ wo \in [Halves -> Nat] /\ wo[r] = 0 /\ wo[o] = h.woff[o]
        /\ ro \in [Halves -> Nat] /\ ro[r] = 0 /\ ro[o] = h.roff[o]
        /\ adv \in [Halves -> Nat] /\ adv[r] = h.roff[r] + m /\ adv[o] = h.roff[o]
    BY <1>1
  <1>4. read = [h EXCEPT !.roff = ro, !.woff = wo, !.ridx = o] OBVIOUS
  <1> HIDE DEF wo, ro, adv, read
  <1>5. /\ wo2 \in [Halves -> Nat] /\ wo2[r] = 0 /\ wo2[o] = 0 BY <1>1, <1>3
  <1>6. rest >= 0 => ro2 \in [Halves -> Nat] /\ ro2[r] = 0 /\ ro2[o] = rest
    <2> HIDE DEF rest
    <2> QED BY <1>1, <1>2, <1>3
  <1>7. /\ read \in Header /\ read.widx = h.widx /\ read.pending = h.pending
        /\ read.roff = ro /\ read.woff = wo /\ read.ridx = o
    <2> HIDE DEF o, r
    <2> QED BY <1>1, <1>3, <1>4 DEF Header
  <1>8. CASE m = 0 BY <1>8 DEF cras_shm_buffer_read
  <1>9. CASE m > 0 /\ rest < 0
    <2>1. g = [h EXCEPT !.roff = adv] BY <1>9, <1>1 DEF cras_shm_buffer_read, adv
    <2> HIDE DEF g
    <2>2. g \in Header /\ g.widx = h.widx /\ g.pending = h.pending
          /\ g.ridx = r /\ g.woff = h.woff /\ g.roff = adv
      BY <1>3, <2>1 DEF Header
    <2> QED BY <1>3, <1>9, <2>2 DEF g
  <1>10. CASE m > 0 /\ rest >= 0 /\ rest < h.woff[o]
    <2>1. g = [read EXCEPT !.roff[o] = rest]
      BY <1>10, <1>1, <1>2 DEF cras_shm_buffer_read, read
    <2>2. g = [read EXCEPT !.roff = ro2] BY <1>7, <2>1
    <2> HIDE DEF g, ro2
    <2>3. g \in Header /\ g.widx = h.widx /\ g.pending = h.pending
          /\ g.ridx = o /\ g.woff = wo /\ g.roff = ro2
      BY <1>6, <1>7, <1>10, <2>2 DEF Header
    <2> QED BY <1>3, <1>6, <1>10, <2>3 DEF g
  <1>11. CASE m > 0 /\ rest > 0 /\ rest >= h.woff[o]
    <2>1. g = [read EXCEPT !.woff[o] = 0, !.ridx = r]
      BY <1>11, <1>1, <1>2 DEF cras_shm_buffer_read, read
    <2>2. g = [read EXCEPT !.woff = wo2, !.ridx = r] BY <1>7, <2>1
    <2> HIDE DEF g, wo2
    <2>3. g \in Header /\ g.widx = h.widx /\ g.pending = h.pending
          /\ g.ridx = r /\ g.woff = wo2 /\ g.roff = ro
      BY <1>1, <1>5, <1>7, <1>11, <2>2 DEF Header
    <2> QED BY <1>3, <1>5, <1>11, <2>3 DEF g
  <1>12. CASE m > 0 /\ rest = 0 /\ h.woff[o] = 0
    <2>1. g = read BY <1>12, <1>1, <1>2 DEF cras_shm_buffer_read, read
    <2> HIDE DEF g
    <2> QED BY <1>3, <1>7, <1>12, <2>1 DEF g
  <1>13. \/ m = 0
         \/ m > 0 /\ rest < 0
         \/ m > 0 /\ rest >= 0 /\ rest < h.woff[o]
         \/ m > 0 /\ rest > 0 /\ rest >= h.woff[o]
         \/ m > 0 /\ rest = 0 /\ h.woff[o] = 0
    BY <1>1, <1>2
  <1> QED BY <1>8, <1>9, <1>10, <1>11, <1>12, <1>13

\* Reading at most what is there keeps the shape.
LEMMA ReadShape ==
  ASSUME NEW h \in Header, NEW n \in Nat, Shape(h, n),
         NEW m \in Nat, m <= cras_shm_get_frames(h)
  PROVE  LET g == cras_shm_buffer_read(h, m)
         IN /\ Shape(g, n) /\ cras_shm_get_frames(g) = cras_shm_get_frames(h) - m
            /\ \A i \in Halves : h.woff[i] = 0 => g.woff[i] = 0
  <1> DEFINE g == cras_shm_buffer_read(h, m)
             r == h.ridx
             o == 1 - r
             a == h.woff[r]
             b == h.woff[o]
             p == h.roff[r]
             rest == p + m - a
  <1>1. /\ g \in Header /\ g.widx = h.widx /\ g.pending = h.pending
        /\ \/ m = 0 /\ g = h
           \/ /\ m > 0 /\ rest < 0 /\ g.ridx = r /\ g.woff = h.woff
              /\ g.roff[r] = p + m /\ g.roff[o] = h.roff[o]
           \/ /\ m > 0 /\ rest >= 0 /\ rest < b /\ g.ridx = o
              /\ g.woff[r] = 0 /\ g.roff[r] = 0
              /\ g.woff[o] = b /\ g.roff[o] = rest
           \/ /\ m > 0 /\ rest > 0 /\ rest >= b /\ g.ridx = r
              /\ g.woff[r] = 0 /\ g.roff[r] = 0
              /\ g.woff[o] = 0 /\ g.roff[o] = h.roff[o]
           \/ /\ m > 0 /\ rest = 0 /\ b = 0 /\ g.ridx = o
              /\ g.woff[r] = 0 /\ g.roff[r] = 0
              /\ g.woff[o] = 0 /\ g.roff[o] = h.roff[o]
    BY ReadFields
  <1>2. /\ r \in Halves /\ o \in Halves /\ o # r /\ 1 - o = r
        /\ a \in Nat /\ b \in Nat /\ p \in Nat
    BY HeaderFields
  <1>3. /\ h.roff[o] = 0 /\ a <= n /\ b <= n
        /\ p < a \/ (p = 0 /\ a = 0)
    BY DEF Shape
  <1>4. cras_shm_get_frames(h) = (a - p) + b BY FramesOf
  <1>5. rest <= b BY <1>2, <1>4
  <1>6. Shape(g, n) <=>
          /\ g.roff[1 - g.ridx] = 0
          /\ g.woff[g.ridx] <= n /\ g.woff[1 - g.ridx] <= n
          /\ g.roff[g.ridx] < g.woff[g.ridx] \/ (g.roff[g.ridx] = 0 /\ g.woff[g.ridx] = 0)
    BY DEF Shape
  <1>7. \A i \in Halves : i = r \/ i = o BY <1>2, OtherHalf
  <1> HIDE DEF g, o, r
  <1>8. Shape(g, n) /\ \A i \in Halves : h.woff[i] = 0 => g.woff[i] = 0
    <2>1. CASE m = 0 /\ g = h BY <2>1
    <2>2. CASE /\ m > 0 /\ rest < 0 /\ g.ridx = r /\ g.woff = h.woff
               /\ g.roff[r] = p + m /\ g.roff[o] = h.roff[o]
      <3>1. 1 - g.ridx = o BY <2>2 DEF o
      <3> HIDE DEF a, b, p
      <3>2. g.woff[g.ridx] = a /\ g.woff[1 - g.ridx] = b /\ g.roff[g.ridx] = p + m
            /\ g.roff[1 - g.ridx] = 0
        BY <1>3, <2>2, <3>1 DEF a, b
      <3>3. p + m < a BY <1>2, <2>2
      <3> QED BY <1>2, <1>3, <1>6, <2>2, <3>2, <3>3
    <2>3. CASE /\ m > 0 /\ rest >= 0 /\ rest < b /\ g.ridx = o
               /\ g.woff[r] = 0 /\ g.roff[r] = 0
               /\ g.woff[o] = b /\ g.roff[o] = rest
      <3>1. 1 - g.ridx = r BY <1>2, <2>3
      <3> QED BY <1>2, <1>3, <1>6, <1>7, <2>3, <3>1
    <2>4. CASE /\ m > 0 /\ rest > 0 /\ rest >= b /\ g.ridx = r
               /\ g.woff[r] = 0 /\ g.roff[r] = 0
               /\ g.woff[o] = 0 /\ g.roff[o] = h.roff[o]
      <3>1. 1 - g.ridx = o BY <2>4 DEF o
      <3> QED BY <1>2, <1>3, <1>6, <1>7, <2>4, <3>1
    <2>5. CASE /\ m > 0 /\ rest = 0 /\ b = 0 /\ g.ridx = o
               /\ g.woff[r] = 0 /\ g.roff[r] = 0
               /\ g.woff[o] = 0 /\ g.roff[o] = h.roff[o]
      <3>1. 1 - g.ridx = r BY <1>2, <2>5
      <3> QED BY <1>2, <1>3, <1>6, <1>7, <2>5, <3>1
    <2> QED BY <1>1, <2>1, <2>2, <2>3, <2>4, <2>5
  <1>9. cras_shm_get_frames(g) = (g.woff[g.ridx] - g.roff[g.ridx]) + g.woff[1 - g.ridx]
    BY <1>1, <1>8, FramesOf
  <1>10. cras_shm_get_frames(g) = cras_shm_get_frames(h) - m
    <2>1. CASE m = 0 /\ g = h BY <1>2, <1>4, <2>1
    <2>2. CASE m > 0 /\ rest < 0 /\ g.ridx = r /\ g.woff = h.woff /\ g.roff[r] = p + m
      BY <1>2, <1>4, <1>9, <2>2 DEF o
    <2>3. CASE m > 0 /\ g.ridx = o /\ g.woff[r] = 0 /\ g.woff[o] = b /\ g.roff[o] = rest
      BY <1>2, <1>4, <1>9, <2>3
    <2>4. CASE m > 0 /\ rest > 0 /\ rest >= b /\ g.ridx = r /\ g.woff[r] = 0 /\ g.roff[r] = 0
               /\ g.woff[o] = 0
      BY <1>2, <1>4, <1>5, <1>9, <2>4 DEF o
    <2>5. CASE m > 0 /\ rest = 0 /\ b = 0 /\ g.ridx = o /\ g.woff[r] = 0 /\ g.woff[o] = 0
               /\ g.roff[o] = h.roff[o]
      BY <1>2, <1>3, <1>4, <1>9, <2>5
    <2> QED BY <1>1, <2>1, <2>2, <2>3, <2>4, <2>5
  <1> QED BY <1>8, <1>10 DEF g

-----------------------------------------------------------------------------
(* The numbers of the frames.                                              *)

\* Subtracting from a remainder and from the number leaves the same remainder.
LEMMA ModMinus ==
  ASSUME NEW F \in Nat \ {0}, NEW a \in Int, NEW b \in Int
  PROVE  ((a % F) - b) % F = (a - b) % F
  <1> DEFINE c == -b
  <1>1. c \in Int /\ a + c = a - b /\ \A x \in Int : x + c = x - b OBVIOUS
  <1>2. a % F \in Int OBVIOUS
  <1> HIDE DEF c
  <1>3. ((a % F) + c) % F = (a + c) % F BY <1>1, ModOfMod
  <1> QED BY <1>1, <1>2, <1>3

\* A number below F is its own remainder.
LEMMA ModSmall ==
  ASSUME NEW F \in Nat \ {0}, NEW a \in 0..F - 1
  PROVE  a % F = a
  OBVIOUS

\* A remainder is a frame number.
LEMMA ModRange ==
  ASSUME NEW F \in Nat \ {0}, NEW a \in Int
  PROVE  a % F \in 0..F - 1
  OBVIOUS

\* The numbers after n frames were read, of which the header h is left.
Renum(fr, n, h) ==
    IF fr.raced THEN RacedFrames
    ELSE IF fr.swapped THEN SwappedFrames(Larger(fr.tail - n, 0))
    ELSE [next |-> (fr.next - n) % FrameIds,
          first |-> [i \in Halves |-> IF h.woff[i] = 0 THEN 0
                                      ELSE (fr.first[i] - n) % FrameIds],
          tail |-> Larger(fr.tail - n, 0), raced |-> FALSE, swapped |-> FALSE]

\* The numbers of a new stream, of one that was overtaken and of one whose halves
\* have changed places.
LEMMA FreshNumbers ==
  ASSUME FrameIds \in Nat \ {0}
  PROVE  /\ FreshFrames \in Numbers /\ RacedFrames \in Numbers
         /\ FreshFrames.tail = 0 /\ ~FreshFrames.raced /\ FreshFrames.next = 0
         /\ ~FreshFrames.swapped
         /\ RacedFrames.tail = 0 /\ RacedFrames.raced /\ ~RacedFrames.swapped
         /\ \A t \in Nat : /\ SwappedFrames(t) \in Numbers /\ SwappedFrames(t).tail = t
                          /\ ~SwappedFrames(t).raced /\ SwappedFrames(t).swapped
  <1> DEFINE z == [i \in Halves |-> 0]
             yes == TRUE
             no == FALSE
  <1>1. z \in [Halves -> 0..FrameIds - 1] /\ 0 \in 0..FrameIds - 1 OBVIOUS
  <1>2. yes \in BOOLEAN /\ no \in BOOLEAN /\ yes /\ ~no OBVIOUS
  <1>3. /\ FreshFrames = [next |-> 0, first |-> z, tail |-> 0, raced |-> no, swapped |-> no]
        /\ RacedFrames = [FreshFrames EXCEPT !.raced = yes]
        /\ \A t : SwappedFrames(t) = [FreshFrames EXCEPT !.tail = t, !.swapped = yes]
    BY DEF FreshFrames, RacedFrames, SwappedFrames
  <1> HIDE DEF z, yes, no
  <1>4. /\ FreshFrames \in Numbers /\ FreshFrames.tail = 0 /\ FreshFrames.raced = no
        /\ FreshFrames.next = 0 /\ FreshFrames.swapped = no
    BY <1>1, <1>2, <1>3 DEF Numbers
  <1>5. /\ RacedFrames \in Numbers /\ RacedFrames.tail = 0 /\ RacedFrames.raced = yes
        /\ RacedFrames.swapped = no
    BY <1>2, <1>3, <1>4 DEF Numbers
  <1>6. ASSUME NEW t \in Nat
        PROVE  /\ SwappedFrames(t) \in Numbers /\ SwappedFrames(t).tail = t
               /\ SwappedFrames(t).raced = no /\ SwappedFrames(t).swapped = yes
    BY <1>2, <1>3, <1>4 DEF Numbers
  <1> QED BY <1>2, <1>4, <1>5, <1>6

\* The fields of the numbers.
LEMMA NumbersFields ==
  ASSUME NEW fr \in Numbers
  PROVE  /\ fr.next \in 0..FrameIds - 1 /\ fr.first \in [Halves -> 0..FrameIds - 1]
         /\ fr.tail \in Nat /\ fr.raced \in BOOLEAN /\ fr.swapped \in BOOLEAN
  BY DEF Numbers

\* Reading renumbers what is left from the new read pointer.
LEMMA ReadNumbers ==
  ASSUME NEW h \in Header, NEW n \in Nat, Shape(h, n),
         FrameIds \in Nat \ {0}, FrameIds > 2 * n,
         NEW m \in Nat, m <= cras_shm_get_frames(h), NEW fr \in Numbers, Numbered(h, fr)
  PROVE  LET g == cras_shm_buffer_read(h, m)
             ft == Renum(fr, m, g)
         IN ft \in Numbers /\ Numbered(g, ft)
  <1> DEFINE g == cras_shm_buffer_read(h, m)
             ft == Renum(fr, m, g)
             F == FrameIds
             r == h.ridx
             o == 1 - r
             a == h.woff[r]
             b == h.woff[o]
             p == h.roff[r]
             rest == p + m - a
  <1>1. /\ g \in Header
        /\ \/ m = 0 /\ g = h
           \/ /\ m > 0 /\ rest < 0 /\ g.ridx = r /\ g.woff = h.woff
              /\ g.roff[r] = p + m /\ g.roff[o] = h.roff[o]
           \/ /\ m > 0 /\ rest >= 0 /\ rest < b /\ g.ridx = o
              /\ g.woff[r] = 0 /\ g.roff[r] = 0
              /\ g.woff[o] = b /\ g.roff[o] = rest
           \/ /\ m > 0 /\ rest > 0 /\ rest >= b /\ g.ridx = r
              /\ g.woff[r] = 0 /\ g.roff[r] = 0
              /\ g.woff[o] = 0 /\ g.roff[o] = h.roff[o]
           \/ /\ m > 0 /\ rest = 0 /\ b = 0 /\ g.ridx = o
              /\ g.woff[r] = 0 /\ g.roff[r] = 0
              /\ g.woff[o] = 0 /\ g.roff[o] = h.roff[o]
    BY ReadFields
  <1>2. /\ r \in Halves /\ o \in Halves /\ o # r /\ 1 - o = r
        /\ a \in Nat /\ b \in Nat /\ p \in Nat
    BY HeaderFields
  <1>3. /\ h.roff[o] = 0 /\ a <= n /\ b <= n
        /\ p < a \/ (p = 0 /\ a = 0)
    BY DEF Shape
  <1>4. /\ cras_shm_get_frames(h) = (a - p) + b /\ cras_shm_get_frames(h) \in Nat
        /\ cras_shm_get_frames(h) <= 2 * n
    BY FramesOf
  <1>5. Shape(g, n) /\ cras_shm_get_frames(g) = cras_shm_get_frames(h) - m
    BY ReadShape
  <1>6. cras_shm_get_frames(g) \in Nat BY <1>1, <1>5, FramesOf
  <1>7. /\ fr.next \in 0..F - 1 /\ fr.first \in [Halves -> 0..F - 1]
        /\ fr.tail \in Nat /\ fr.raced \in BOOLEAN /\ fr.swapped \in BOOLEAN
    BY NumbersFields
  <1>8. CASE fr.raced
    <2>1. ft = RacedFrames BY <1>8 DEF Renum
    <2>2. RacedFrames \in Numbers /\ RacedFrames.tail = 0 /\ RacedFrames.raced BY FreshNumbers
    <2> HIDE DEF ft, g
    <2>3. Numbered(g, ft) BY <1>6, <2>1, <2>2 DEF Numbered
    <2> QED BY <2>1, <2>2, <2>3 DEF ft, g
  <1>10. CASE ~fr.raced /\ fr.swapped
    <2> DEFINE tl == Larger(fr.tail - m, 0)
    <2>1. fr.tail <= cras_shm_get_frames(h) BY DEF Numbered
    <2>2. tl \in Nat /\ tl <= cras_shm_get_frames(g) BY <1>4, <1>5, <1>6, <1>7, <2>1 DEF Larger
    <2>3. ft = SwappedFrames(tl) BY <1>10 DEF Renum
    <2> HIDE DEF tl, ft, g
    <2>4. ft \in Numbers /\ ft.tail = tl /\ ~ft.raced /\ ft.swapped
      BY <2>2, <2>3, FreshNumbers
    <2>5. Numbered(g, ft) BY <2>2, <2>4 DEF Numbered
    <2> QED BY <2>4, <2>5 DEF ft, g
  <1>9. CASE ~fr.raced /\ ~fr.swapped
    <2> DEFINE fi == [i \in Halves |-> IF g.woff[i] = 0 THEN 0 ELSE (fr.first[i] - m) % F]
               nx == (fr.next - m) % F
               tl == Larger(fr.tail - m, 0)
               no == FALSE
    <2>1. ft = [next |-> nx, first |-> fi, tail |-> tl, raced |-> no,
                swapped |-> no] BY <1>9 DEF Renum
    <2>2. /\ fr.tail <= cras_shm_get_frames(h) /\ fr.next = cras_shm_get_frames(h)
          /\ a > 0 => fr.first[r] = (-p) % F
          /\ b > 0 => fr.first[o] = (a - p) % F
      BY <1>9 DEF Numbered
    <2>3. tl \in Nat /\ tl <= cras_shm_get_frames(g) BY <1>4, <1>5, <1>6, <1>7, <2>2 DEF Larger
    <2>4. nx = cras_shm_get_frames(g) /\ nx \in 0..F - 1
      <3> DEFINE x == fr.next - m
      <3>1. x \in 0..F - 1 /\ x = cras_shm_get_frames(g) BY <1>4, <1>5, <1>6, <2>2
      <3> HIDE DEF x
      <3>2. x % F = x BY <3>1, ModSmall
      <3> QED BY <3>1, <3>2 DEF x
    <2>5. fi \in [Halves -> 0..F - 1]
      <3>1. ASSUME NEW i \in Halves PROVE (fr.first[i] - m) % F \in 0..F - 1
        <4> DEFINE x == fr.first[i] - m
        <4>1. x \in Int BY <1>7
        <4> HIDE DEF x
        <4>2. x % F \in 0..F - 1 BY <4>1, ModRange
        <4> QED BY <4>2 DEF x
      <3> QED BY <3>1
    <2>6. no \in BOOLEAN /\ ~no OBVIOUS
    <2>7. \A i \in Halves : g.woff[i] # 0 => fi[i] = (fr.first[i] - m) % F OBVIOUS
    <2> HIDE DEF fi, nx, tl, no, ft
    <2>8. ft \in Numbers /\ ft.next = nx /\ ft.first = fi /\ ft.tail = tl /\ ft.raced = no
          /\ ft.swapped = no
      BY <2>1, <2>3, <2>4, <2>5, <2>6 DEF Numbers
    <2>9. \A x \in Int : ((x % F) - m) % F = (x - m) % F
      <3>1. F \in Nat \ {0} /\ m \in Int OBVIOUS
      <3> HIDE DEF F
      <3> QED BY <3>1, ModMinus
    <2> HIDE DEF F
    <2>10. a > 0 => (fr.first[r] - m) % F = (-(p + m)) % F
      <3> SUFFICES ASSUME a > 0 PROVE (fr.first[r] - m) % F = (-(p + m)) % F OBVIOUS
      <3> DEFINE x == -p
      <3>1. x \in Int /\ x - m = -(p + m) BY <1>2
      <3>2. fr.first[r] = x % F BY <2>2
      <3> HIDE DEF x
      <3>3. ((x % F) - m) % F = (x - m) % F BY <2>9, <3>1
      <3> QED BY <3>1, <3>2, <3>3
    <2>11. b > 0 => (fr.first[o] - m) % F = (a - (p + m)) % F
      <3> SUFFICES ASSUME b > 0 PROVE (fr.first[o] - m) % F = (a - (p + m)) % F OBVIOUS
      <3> DEFINE x == a - p
      <3>1. x \in Int /\ x - m = a - (p + m) BY <1>2
      <3>2. fr.first[o] = x % F BY <2>2
      <3> HIDE DEF x
      <3>3. ((x % F) - m) % F = (x - m) % F BY <2>9, <3>1
      <3> QED BY <3>1, <3>2, <3>3
    <2>12. Numbered(g, ft) <=>
             /\ g.woff[g.ridx] > 0 => fi[g.ridx] = (-g.roff[g.ridx]) % F
             /\ g.woff[1 - g.ridx] > 0 =>
                  fi[1 - g.ridx] = (g.woff[g.ridx] - g.roff[g.ridx]) % F
      BY <2>3, <2>4, <2>6, <2>8 DEF Numbered, F
    <2> HIDE DEF g, o, r
    <2>13. CASE m = 0 /\ g = h
      <3> HIDE DEF a, b, p
      <3>1. g.ridx = r /\ 1 - g.ridx = o BY <2>13 DEF r, o
      <3>2. g.woff[g.ridx] = a /\ g.woff[1 - g.ridx] = b /\ g.roff[g.ridx] = p
        BY <2>13, <3>1 DEF a, b, p
      <3>3. p + m = p BY <1>2, <2>13
      <3>4. a > 0 => fi[r] = (-p) % F BY <1>2, <2>7, <2>10, <3>1, <3>2, <3>3
      <3>5. b > 0 => fi[o] = (a - p) % F BY <1>2, <2>7, <2>11, <3>1, <3>2, <3>3
      <3>6. Numbered(g, ft) BY <2>12, <3>1, <3>2, <3>4, <3>5
      <3> QED BY <2>8, <3>6 DEF g, ft
    <2>14. CASE /\ m > 0 /\ rest < 0 /\ g.ridx = r /\ g.woff = h.woff
                /\ g.roff[r] = p + m /\ g.roff[o] = h.roff[o]
      <3> HIDE DEF a, b, p
      <3>1. 1 - g.ridx = o BY <2>14 DEF o
      <3>2. g.woff[r] = a /\ g.woff[o] = b BY <2>14 DEF a, b
      <3>4. a > 0 => fi[r] = (-(p + m)) % F BY <1>2, <2>7, <2>10, <3>2
      <3>5. b > 0 => fi[o] = (a - (p + m)) % F BY <1>2, <2>7, <2>11, <3>2
      <3>6. Numbered(g, ft) BY <2>12, <2>14, <3>1, <3>2, <3>4, <3>5
      <3> QED BY <2>8, <3>6 DEF g, ft
    <2>15. CASE /\ m > 0 /\ rest >= 0 /\ rest < b /\ g.ridx = o
                /\ g.woff[r] = 0 /\ g.roff[r] = 0
                /\ g.woff[o] = b /\ g.roff[o] = rest
      <3>1. 1 - g.ridx = r BY <1>2, <2>15
      <3>2. b > 0 /\ a - (p + m) = -rest BY <1>2, <1>3, <1>4, <2>15
      <3>3. fi[o] = (-rest) % F BY <1>2, <2>7, <2>11, <2>15, <3>2
      <3>4. ~(g.woff[1 - g.ridx] > 0) BY <2>15, <3>1
      <3>5. Numbered(g, ft) BY <2>12, <2>15, <3>3, <3>4
      <3> QED BY <2>8, <3>5 DEF g, ft
    <2>16. CASE g.woff[r] = 0 /\ g.woff[o] = 0 /\ (g.ridx = r \/ g.ridx = o)
      <3>1. 1 - g.ridx = o \/ 1 - g.ridx = r BY <1>2, <2>16 DEF o
      <3>3. ~(g.woff[g.ridx] > 0) /\ ~(g.woff[1 - g.ridx] > 0) BY <2>16, <3>1
      <3>2. Numbered(g, ft) BY <2>12, <3>3
      <3> QED BY <2>8, <3>2 DEF g, ft
    <2> QED BY <1>1, <2>13, <2>14, <2>15, <2>16 DEF g
  <1> QED BY <1>7, <1>8, <1>9, <1>10

\* The frame at an offset past the read pointer has the offset as its number.
LEMMA NumberAt ==
  ASSUME NEW h \in Header, NEW n \in Nat, Shape(h, n),
         FrameIds \in Nat \ {0}, FrameIds > 2 * n, NEW fr \in Numbers, Numbered(h, fr),
         ~fr.raced, ~fr.swapped, NEW x \in Nat, x < cras_shm_get_frames(h)
  PROVE  LET y == h.roff[h.ridx] + x
         IN x = IF y < h.woff[h.ridx] THEN (fr.first[h.ridx] + y) % FrameIds
                ELSE (fr.first[1 - h.ridx] + y - h.woff[h.ridx]) % FrameIds
  <1> DEFINE F == FrameIds
             r == h.ridx
             o == 1 - r
             a == h.woff[r]
             b == h.woff[o]
             p == h.roff[r]
             y == p + x
  <1>1. a \in Nat /\ b \in Nat /\ p \in Nat BY HeaderFields
  <1>2. /\ p < a \/ (p = 0 /\ a = 0)
    BY DEF Shape
  <1>3. cras_shm_get_frames(h) = (a - p) + b /\ cras_shm_get_frames(h) <= 2 * n BY FramesOf
  <1>4. /\ a > 0 => fr.first[r] = (-p) % F
        /\ b > 0 => fr.first[o] = (a - p) % F
    BY DEF Numbered
  <1>6. x \in 0..F - 1 /\ F \in Nat \ {0} BY <1>1, <1>3
  <1> HIDE DEF F, r, o, a, b, p
  <1>7. x % F = x BY <1>6, ModSmall
  <1>8. \A u, v \in Int : ((u % F) + v) % F = (u + v) % F BY <1>6, ModOfMod
  <1>9. CASE y < a
    <2> DEFINE u == -p
    <2>1. u \in Int /\ y \in Int /\ u + y = x BY <1>1
    <2>2. fr.first[r] = u % F
      <3>1. a > 0 BY <1>1, <1>9
      <3> QED BY <1>4, <3>1
    <2> HIDE DEF u, y
    <2>3. (fr.first[r] + y) % F = x BY <1>7, <1>8, <2>1, <2>2
    <2> QED BY <1>9, <2>3 DEF y, F, r, a, p
  <1>10. CASE ~(y < a)
    <2> DEFINE u == a - p
               v == y - a
    <2>1. u \in Int /\ v \in Int /\ u + v = x /\ b > 0 BY <1>1, <1>3, <1>10
    <2>2. fr.first[o] = u % F BY <1>4, <2>1
    <2>3. u % F \in Int BY <2>1, <1>6
    <2>4. (u % F) + v = (u % F) + y - a BY <1>1, <2>3
    <2> HIDE DEF u, v, y
    <2>5. (fr.first[o] + y - a) % F = x BY <1>7, <1>8, <2>1, <2>2, <2>4
    <2> QED BY <1>10, <2>5 DEF y, F, r, o, a, p
  <1> QED BY <1>9, <1>10

-----------------------------------------------------------------------------
(* One stream.                                                             *)

\* What a stream's part of the invariant says of the number of its frames.
LEMMA StreamFrames ==
  ASSUME NEW s \in Streams, NEW h, NEW c, NEW fr, NEW rq, NEW rp, NEW o, NEW k,
         StreamOK(s, h, c, fr, rq, rp, o, k)
  PROVE  /\ h \in Header /\ fr \in Numbers
         /\ cras_shm_get_frames(h) \in Nat /\ cras_shm_get_frames(h) <= 2 * Cb[s]
         /\ cras_shm_get_frames(h) = (h.woff[h.ridx] - h.roff[h.ridx]) + h.woff[1 - h.ridx]
         /\ Cb[s] \in Nat \ {0} /\ FrameIds \in Nat \ {0} /\ FrameIds > 2 * Cb[s]
  <1>1. h \in Header /\ fr \in Numbers BY DEF StreamOK
  <1>2. Shape(h, Cb[s]) BY DEF StreamOK
  <1>3. Cb[s] \in Nat \ {0} /\ FrameIds \in Nat \ {0} /\ FrameIds > 2 * Cb[s] BY ConstFacts
  <1> QED BY <1>1, <1>2, <1>3, FramesOf

\* A new stream.
LEMMA FreshStream ==
  ASSUME NEW s \in Streams, NEW o, \A d \in Devs : o[d] = 0
  PROVE  StreamOK(s, FreshShm, "wait", FreshFrames, 0, 0, o, 0)
  <1> DEFINE h == FreshShm
             fr == FreshFrames
             n == Cb[s]
  <1>1. n \in Nat /\ FrameIds \in Nat \ {0} /\ BufFrames \in Nat BY ConstFacts
  <1>2. /\ h \in Header /\ ~h.pending /\ h.widx = 0 /\ h.ridx = 0
        /\ \A i \in Halves : h.woff[i] = 0 /\ h.roff[i] = 0
    BY FreshHeader
  <1>3. fr \in Numbers /\ fr.tail = 0 /\ ~fr.raced /\ fr.next = 0 BY <1>1, FreshNumbers
  <1> HIDE DEF h, fr, n
  <1>4. h.ridx \in Halves /\ 1 - h.ridx \in Halves /\ h.widx \in Halves BY <1>2, HeaderFields
  <1>5. Shape(h, n) BY <1>1, <1>2, <1>4 DEF Shape
  <1>7. cras_shm_get_frames(h) = 0
    <2>1. cras_shm_get_frames(h) = (h.woff[h.ridx] - h.roff[h.ridx]) + h.woff[1 - h.ridx]
      BY <1>1, <1>2, <1>5, FramesOf
    <2>2. h.woff[h.ridx] = 0 /\ h.roff[h.ridx] = 0 /\ h.woff[1 - h.ridx] = 0 BY <1>2, <1>4
    <2> QED BY <2>1, <2>2
  <1>8. Protocol(h, "wait", 0, 0) BY <1>2 DEF Protocol
  <1>9. Numbered(h, fr) BY <1>2, <1>3, <1>4, <1>7 DEF Numbered
  <1> QED BY <1>1, <1>2, <1>3, <1>5, <1>7, <1>8, <1>9 DEF StreamOK, h, fr, n

\* Offsets and queued frames may be anything that the buffer holds.
LEMMA OffsetsOK ==
  ASSUME NEW s, NEW h, NEW c, NEW fr, NEW rq, NEW rp, NEW o, NEW k,
         StreamOK(s, h, c, fr, rq, rp, o, k),
         NEW o2, \A d \in Devs : o2[d] <= cras_shm_get_frames(h),
         NEW k2 \in 0..BufFrames, k2 <= cras_shm_get_frames(h)
  PROVE  StreamOK(s, h, c, fr, rq, rp, o2, k2)
  BY DEF StreamOK

\* The server has played m frames.
LEMMA ReadStream ==
  ASSUME NEW s \in Streams, NEW h, NEW c, NEW fr, NEW rq, NEW rp, NEW o, NEW k,
         StreamOK(s, h, c, fr, rq, rp, o, k),
         NEW m \in Nat, m <= cras_shm_get_frames(h),
         NEW o2, \A d \in Devs : o2[d] <= cras_shm_get_frames(h) - m
  PROVE  LET g == cras_shm_buffer_read(h, m)
         IN StreamOK(s, g, c, Renum(fr, m, g), rq, rp, o2, 0)
  <1> DEFINE g == cras_shm_buffer_read(h, m)
             ft == Renum(fr, m, g)
             n == Cb[s]
  <1>1. h \in Header /\ fr \in Numbers /\ Numbered(h, fr) /\ Protocol(h, c, rq, rp)
    BY DEF StreamOK
  <1>2. Shape(h, n) BY DEF StreamOK
  <1>3. n \in Nat /\ FrameIds \in Nat \ {0} /\ FrameIds > 2 * n /\ BufFrames \in Nat BY ConstFacts
  <1>4. g \in Header /\ g.widx = h.widx /\ g.pending = h.pending BY <1>1, ReadFields
  <1> HIDE DEF n
  <1>5. /\ Shape(g, n) /\ cras_shm_get_frames(g) = cras_shm_get_frames(h) - m
        /\ \A i \in Halves : h.woff[i] = 0 => g.woff[i] = 0
    BY <1>1, <1>2, <1>3, ReadShape
  <1>6. ft \in Numbers /\ Numbered(g, ft) BY <1>1, <1>2, <1>3, ReadNumbers
  <1> HIDE DEF g, ft
  <1>8. h.widx \in Halves BY <1>1, HeaderFields
  <1>9. Protocol(g, c, rq, rp) BY <1>1, <1>4, <1>5, <1>8 DEF Protocol
  <1>10. cras_shm_get_frames(g) \in Nat BY <1>3, <1>4, <1>5, FramesOf
  <1> QED BY <1>3, <1>4, <1>5, <1>6, <1>9, <1>10 DEF StreamOK, g, ft, n

\* The client dies.
LEMMA DeadStream ==
  ASSUME NEW s, NEW h, NEW c, NEW fr, NEW rq, NEW rp, NEW o, NEW k,
         StreamOK(s, h, c, fr, rq, rp, o, k)
  PROVE  StreamOK(s, h, "dead", fr, 0, rp, o, k)
  <1>1. Protocol(h, "dead", 0, rp) BY DEF StreamOK, Protocol
  <1> QED BY <1>1 DEF StreamOK

\* The stream begins to drain, with t frames to play.
LEMMA TailStream ==
  ASSUME NEW s, NEW h, NEW c, NEW fr, NEW rq, NEW rp, NEW o, NEW k,
         StreamOK(s, h, c, fr, rq, rp, o, k),
         NEW t \in Nat, t <= cras_shm_get_frames(h), fr.raced => t = 0
  PROVE  StreamOK(s, h, c, [fr EXCEPT !.tail = t], rq, rp, o, k)
  <1> DEFINE ft == [fr EXCEPT !.tail = t]
  <1>1. fr \in Numbers /\ Numbered(h, fr) BY DEF StreamOK
  <1>2. /\ ft \in Numbers /\ ft.tail = t /\ ft.next = fr.next /\ ft.first = fr.first
        /\ ft.raced = fr.raced /\ ft.swapped = fr.swapped
    BY <1>1 DEF Numbers
  <1> HIDE DEF ft
  <1>3. Numbered(h, ft) BY <1>1, <1>2 DEF Numbered
  <1> QED BY <1>2, <1>3 DEF StreamOK, ft

\* The header with another pending flag.
LEMMA PendingFields ==
  ASSUME NEW h \in Header, NEW b \in BOOLEAN
  PROVE  LET g == [h EXCEPT !.pending = b]
         IN /\ g \in Header /\ g.pending = b /\ g.woff = h.woff /\ g.roff = h.roff
            /\ g.widx = h.widx /\ g.ridx = h.ridx
  BY DEF Header

\* The server's fetch: the reply is read, and a new request may be sent.
LEMMA FetchedStream ==
  ASSUME NEW s \in Streams, NEW h, NEW c, NEW fr, NEW rq, NEW rp, NEW o, NEW k,
         StreamOK(s, h, c, fr, rq, rp, o, k),
         NEW b \in BOOLEAN, NEW p \in BOOLEAN, NEW rq2,
         p <=> (h.pending /\ rp = 0 /\ c # "dead"),
         b => ~p /\ c # "dead" /\ h.woff[h.widx] = 0,
         rq2 = IF b THEN rq + 1 ELSE rq,
         NEW pb \in BOOLEAN, pb <=> (p \/ b)
  PROVE  StreamOK(s, [h EXCEPT !.pending = pb], c, fr, rq2, 0, o, k)
  <1> DEFINE g == [h EXCEPT !.pending = pb]
  <1>1. h \in Header /\ Protocol(h, c, rq, rp) BY DEF StreamOK
  <1>2. /\ g \in Header /\ g.pending = pb /\ g.woff = h.woff /\ g.roff = h.roff
        /\ g.widx = h.widx /\ g.ridx = h.ridx
    BY <1>1, PendingFields
  <1> HIDE DEF g
  <1>3. cras_shm_get_frames(g) = cras_shm_get_frames(h)
    BY <1>2 DEF cras_shm_get_frames, InHalf
  <1>5. Shape(g, Cb[s]) BY <1>2 DEF StreamOK, Shape
  <1>6. Numbered(g, fr)
    <2>1. Numbered(h, fr) BY DEF StreamOK
    <2> QED BY <1>2, <1>3, <2>1 DEF Numbered
  <1>7. Protocol(g, c, rq2, 0)
    <2>1. /\ c \in {"wait", "stored", "dead"} /\ rq \in 0..1 /\ rp \in 0..1
          /\ c = "dead" => rq = 0
          /\ c # "dead" => rq + rp + (IF c = "stored" THEN 1 ELSE 0) = IF h.pending THEN 1 ELSE 0
          /\ rq = 1 => h.woff[h.widx] = 0
      BY <1>1 DEF Protocol
    <2>2. h.pending \in BOOLEAN BY <1>1, HeaderFields
    <2>3. CASE c = "dead"
      <3>1. ~b /\ rq2 = 0 BY <2>1, <2>3
      <3> QED BY <2>1, <2>3, <3>1 DEF Protocol
    <2>4. CASE c # "dead" /\ p
      <3>1. ~b /\ rq2 = rq /\ rp = 0 /\ h.pending /\ pb BY <2>4
      <3> QED BY <1>2, <2>1, <2>4, <3>1 DEF Protocol
    <2>5. CASE c # "dead" /\ ~p
      <3>1. rq = 0 /\ c # "stored" BY <2>1, <2>2, <2>5
      <3>2. pb <=> b BY <2>5
      <3> QED BY <1>2, <2>1, <2>5, <3>1, <3>2 DEF Protocol
    <2> QED BY <2>3, <2>4, <2>5
  <1> QED BY <1>2, <1>3, <1>5, <1>6, <1>7 DEF StreamOK, g

\* The client's half, once n frames of it are visible (g is the header then).
LEMMA StoreShape ==
  ASSUME NEW h \in Header, NEW N \in Nat, Shape(h, N), h.woff[h.widx] = 0,
         NEW n \in 0..N, NEW g \in Header, g.ridx = h.ridx, g.roff = h.roff,
         g.woff[h.widx] = n, g.woff[1 - h.widx] = h.woff[1 - h.widx]
  PROVE  /\ h.roff[h.widx] = 0 /\ Shape(g, N)
         /\ cras_shm_get_frames(g) = cras_shm_get_frames(h) + n
  <1> DEFINE r == h.ridx
             o == 1 - r
             w == h.widx
             a == h.woff[r]
             b == h.woff[o]
             p == h.roff[r]
  <1>1. /\ r \in Halves /\ o \in Halves /\ o # r /\ 1 - o = r /\ w \in Halves
        /\ a \in Nat /\ b \in Nat /\ p \in Nat
    BY HeaderFields
  <1>2. /\ h.roff[o] = 0 /\ a <= N /\ b <= N
        /\ p < a \/ (p = 0 /\ a = 0)
    BY DEF Shape
  <1>3. w = r \/ w = o BY <1>1, OtherHalf
  <1>4. cras_shm_get_frames(h) = (a - p) + b BY FramesOf
  <1>5. Shape(g, N) <=>
          /\ g.roff[o] = 0
          /\ g.woff[r] <= N /\ g.woff[o] <= N
          /\ g.roff[r] < g.woff[r] \/ (g.roff[r] = 0 /\ g.woff[r] = 0)
    BY DEF Shape
  <1>6. g.roff[r] = p /\ g.roff[o] = 0 BY <1>2
  <1>7. CASE w = r
    <2>1. a = 0 /\ p = 0 BY <1>1, <1>2, <1>7
    <2>2. g.woff[r] = n /\ g.woff[o] = b BY <1>7
    <2>3. h.roff[w] = 0 BY <1>7, <2>1
    <2>9. b <= N BY <1>2
    <2> HIDE DEF a, b, p, r, o, w
    <2>4. Shape(g, N) BY <1>1, <1>5, <1>6, <2>1, <2>2, <2>9
    <2>5. cras_shm_get_frames(g) = (g.woff[g.ridx] - g.roff[g.ridx]) + g.woff[1 - g.ridx]
      BY <2>4, FramesOf
    <2>6. cras_shm_get_frames(g) = cras_shm_get_frames(h) + n
      BY <1>1, <1>4, <1>6, <2>1, <2>2, <2>5 DEF r, o
    <2> QED BY <2>3, <2>4, <2>6 DEF w
  <1>8. CASE w = o
    <2>1. b = 0 /\ w # r BY <1>1, <1>8
    <2>2. g.woff[o] = n /\ g.woff[r] = a BY <1>1, <1>8
    <2>3. h.roff[w] = 0 BY <1>2, <1>8
    <2>4. a <= N /\ (p < a \/ (p = 0 /\ a = 0)) BY <1>2
    <2> HIDE DEF a, b, p, r, o, w
    <2>6. Shape(g, N) BY <1>1, <1>5, <1>6, <2>2, <2>4
    <2>7. cras_shm_get_frames(g) = (g.woff[g.ridx] - g.roff[g.ridx]) + g.woff[1 - g.ridx]
      BY <2>6, FramesOf
    <2>8. cras_shm_get_frames(g) = cras_shm_get_frames(h) + n
      BY <1>1, <1>4, <1>6, <2>1, <2>2, <2>7 DEF r, o
    <2> QED BY <2>3, <2>6, <2>8 DEF w
  <1> QED BY <1>3, <1>7, <1>8

\* The numbers the client gives its frames.
StoredNumbers(fr, h, n) ==
    IF fr.raced \/ fr.swapped THEN fr
    ELSE IF Swaps(h, n) THEN SwappedFrames(fr.tail)
    ELSE [fr EXCEPT !.first = [fr.first EXCEPT ![h.widx] = fr.next],
                    !.next = (fr.next + n) % FrameIds]

\* They follow the ones in the buffer.
LEMMA StoreNumbers ==
  ASSUME NEW h \in Header, NEW N \in Nat, Shape(h, N), h.woff[h.widx] = 0,
         FrameIds \in Nat \ {0}, FrameIds > 2 * N,
         NEW n \in 0..N, NEW g \in Header, g.ridx = h.ridx, g.roff = h.roff,
         g.woff[h.widx] = n, g.woff[1 - h.widx] = h.woff[1 - h.widx],
         NEW fr \in Numbers, Numbered(h, fr)
  PROVE  /\ StoredNumbers(fr, h, n) \in Numbers
         /\ Numbered(g, StoredNumbers(fr, h, n))
         /\ StoredNumbers(fr, h, n).tail = fr.tail
  <1> DEFINE r == h.ridx
             o == 1 - r
             w == h.widx
             a == h.woff[r]
             b == h.woff[o]
             p == h.roff[r]
             F == FrameIds
             ft == StoredNumbers(fr, h, n)
  <1>1. /\ r \in Halves /\ o \in Halves /\ o # r /\ 1 - o = r /\ w \in Halves
        /\ a \in Nat /\ b \in Nat /\ p \in Nat
    BY HeaderFields
  <1>2. /\ h.roff[o] = 0 /\ a <= N /\ b <= N
        /\ p < a \/ (p = 0 /\ a = 0)
    BY DEF Shape
  <1>3. w = r \/ w = o BY <1>1, OtherHalf
  <1>4. cras_shm_get_frames(h) = (a - p) + b /\ cras_shm_get_frames(h) \in Nat BY FramesOf
  <1>5. /\ cras_shm_get_frames(g) = cras_shm_get_frames(h) + n /\ Shape(g, N)
    BY StoreShape
  <1>6. cras_shm_get_frames(g) \in Nat /\ cras_shm_get_frames(g) <= 2 * N BY <1>5, FramesOf
  <1>7. /\ fr.next \in 0..F - 1 /\ fr.first \in [Halves -> 0..F - 1]
        /\ fr.tail \in Nat /\ fr.raced \in BOOLEAN /\ fr.swapped \in BOOLEAN
    BY NumbersFields
  <1>8. fr.tail <= cras_shm_get_frames(h) /\ (fr.raced => fr.tail = 0) BY DEF Numbered
  <1>9. CASE fr.raced \/ fr.swapped
    <2>1. ft = fr BY <1>9 DEF StoredNumbers
    <2> HIDE DEF ft
    <2>2. fr.tail <= cras_shm_get_frames(g) BY <1>4, <1>5, <1>7, <1>8
    <2>3. Numbered(g, ft) BY <1>8, <1>9, <2>1, <2>2 DEF Numbered
    <2> QED BY <2>1, <2>3 DEF ft
  <1>11. CASE ~fr.raced /\ ~fr.swapped /\ Swaps(h, n)
    <2>1. ft = SwappedFrames(fr.tail) BY <1>11 DEF StoredNumbers
    <2> HIDE DEF ft
    <2>2. ft \in Numbers /\ ft.tail = fr.tail /\ ~ft.raced /\ ft.swapped
      BY <1>7, <2>1, FreshNumbers
    <2>3. fr.tail <= cras_shm_get_frames(g) BY <1>4, <1>5, <1>7, <1>8
    <2>4. Numbered(g, ft) BY <2>2, <2>3 DEF Numbered
    <2> QED BY <2>2, <2>4 DEF ft
  <1>10. CASE ~fr.raced /\ ~fr.swapped /\ ~Swaps(h, n)
    <2> DEFINE fi == [fr.first EXCEPT ![w] = fr.next]
               nx == (fr.next + n) % F
    <2>1. fr.next = cras_shm_get_frames(h) BY <1>10 DEF Numbered
    <2>2. a > 0 => fr.first[r] = (-p) % F BY <1>10 DEF Numbered
    <2>3. /\ fi \in [Halves -> 0..F - 1] /\ fi[w] = fr.next
          /\ \A i \in Halves : i # w => fi[i] = fr.first[i]
      BY <1>1, <1>7
    <2>4. nx = cras_shm_get_frames(g) /\ nx \in 0..F - 1
      <3> DEFINE x == fr.next + n
      <3>1. x \in 0..F - 1 /\ x = cras_shm_get_frames(g) BY <1>4, <1>5, <1>6, <2>1
      <3> HIDE DEF x
      <3>2. x % F = x BY <3>1, ModSmall
      <3> QED BY <3>1, <3>2 DEF x
    <2>5. ft = [fr EXCEPT !.first = fi, !.next = nx] BY <1>10 DEF StoredNumbers
    <2> HIDE DEF fi, nx, ft
    <2>6. /\ ft \in Numbers /\ ft.first = fi /\ ft.next = nx /\ ft.tail = fr.tail
          /\ ft.raced = fr.raced /\ ft.swapped = fr.swapped
      BY <2>3, <2>4, <2>5 DEF Numbers
    <2>7. ft.tail <= cras_shm_get_frames(g) BY <1>4, <1>5, <1>7, <1>8, <2>6
    <2>8. Numbered(g, ft) <=>
            /\ g.woff[r] > 0 => fi[r] = (-p) % F
            /\ g.woff[o] > 0 => fi[o] = (g.woff[r] - p) % F
      BY <1>10, <2>4, <2>6, <2>7 DEF Numbered
    <2>9. CASE w = r
      <3>1. a = 0 /\ p = 0 BY <1>1, <1>2, <2>9
      <3>2. g.woff[r] = n /\ g.woff[o] = b BY <2>9
      <3>3. n > 0 => b = 0 BY <1>1, <1>10, <2>9 DEF Swaps
      <3>4. (-p) % F = 0
        <4>1. 0 \in 0..F - 1 /\ F \in Nat \ {0} OBVIOUS
        <4> HIDE DEF F, p
        <4>2. 0 % F = 0 BY <4>1, ModSmall
        <4> QED BY <3>1, <4>2
      <3>5. n > 0 => fi[r] = 0 BY <1>1, <1>4, <2>1, <2>3, <2>9, <3>1, <3>3
      <3>6. b > 0 => fi[o] = (a - p) % F BY <1>1, <1>10, <2>3, <2>9 DEF Numbered
      <3>7. b > 0 => n = 0 BY <1>1, <3>3
      <3> HIDE DEF F, r, o, p, a, b
      <3> QED BY <1>1, <2>6, <2>8, <3>1, <3>2, <3>3, <3>4, <3>5, <3>6, <3>7 DEF ft
    <2>10. CASE w = o
      <3>1. b = 0 /\ w # r BY <1>1, <2>10
      <3>2. g.woff[r] = a BY <1>1, <2>10
      <3>3. a > 0 => fi[r] = (-p) % F BY <1>1, <2>2, <2>3, <2>10, <3>1
      <3>4. fi[o] = a - p BY <1>1, <1>4, <2>1, <2>3, <2>10, <3>1
      <3>5. (a - p) % F = a - p
        <4> DEFINE x == a - p
        <4>1. x \in 0..F - 1 BY <1>1, <1>2
        <4> HIDE DEF x
        <4>2. x % F = x BY <4>1, ModSmall
        <4> QED BY <4>2 DEF x
      <3> HIDE DEF F, r, o, p, a
      <3> QED BY <2>6, <2>8, <3>2, <3>3, <3>4, <3>5 DEF ft
    <2> QED BY <1>3, <2>9, <2>10
  <1> QED BY <1>7, <1>9, <1>10, <1>11

\* What the client's stores do to the fields: both at once, or the first alone.
LEMMA StoreFields ==
  ASSUME NEW h \in Header, NEW n \in Nat, h.roff[h.widx] = 0
  PROVE  LET w == h.widx
             f == [h EXCEPT !.woff[w] = n]
             g == [h EXCEPT !.woff[w] = n, !.roff[w] = 0, !.widx = 1 - w]
         IN /\ f \in Header /\ f.ridx = h.ridx /\ f.widx = h.widx /\ f.roff = h.roff
            /\ f.pending = h.pending /\ f.woff[w] = n /\ f.woff[1 - w] = h.woff[1 - w]
            /\ g \in Header /\ g.ridx = h.ridx /\ g.widx = 1 - h.widx /\ g.roff = h.roff
            /\ g.pending = h.pending /\ g.woff[w] = n /\ g.woff[1 - w] = h.woff[1 - w]
  <1> DEFINE w == h.widx
             o == 1 - w
             wo == [h.woff EXCEPT ![w] = n]
             ro == [h.roff EXCEPT ![w] = 0]
             f == [h EXCEPT !.woff = wo]
             g == [h EXCEPT !.woff = wo, !.roff = ro, !.widx = o]
  <1>1. w \in Halves /\ h.woff \in [Halves -> Nat] /\ h.roff \in [Halves -> Nat] BY HeaderFields
  <1>2. o \in Halves /\ o # w BY <1>1, HalfFacts
  <1>3. wo \in [Halves -> Nat] /\ wo[w] = n /\ wo[o] = h.woff[o] BY <1>1, <1>2
  <1>4. ro = h.roff BY <1>1
  <1>5. /\ f = [h EXCEPT !.woff[w] = n]
        /\ g = [h EXCEPT !.woff[w] = n, !.roff[w] = 0, !.widx = 1 - w]
    OBVIOUS
  <1> HIDE DEF wo, ro, o
  <1>6. /\ f \in Header /\ f.ridx = h.ridx /\ f.widx = h.widx /\ f.roff = h.roff
        /\ f.pending = h.pending /\ f.woff = wo
    BY <1>3 DEF Header
  <1>7. /\ g \in Header /\ g.ridx = h.ridx /\ g.widx = o /\ g.roff = ro
        /\ g.pending = h.pending /\ g.woff = wo
    BY <1>1, <1>2, <1>3, <1>4 DEF Header
  <1> HIDE DEF f, g
  <1> QED BY <1>3, <1>4, <1>5, <1>6, <1>7 DEF o

\* The header after the client's first store, and after both.
Visible(h, n) == LET w == h.widx IN [h EXCEPT !.woff[w] = n]
HandedOver(h, n) == LET w == h.widx IN [h EXCEPT !.woff[w] = n, !.roff[w] = 0, !.widx = 1 - w]

\* A callback that returns n frames: g is the header after the store or stores.
LEMMA StoredStream ==
  ASSUME NEW s \in Streams, NEW h, NEW fr, NEW rq, NEW rp, NEW o, NEW k,
         StreamOK(s, h, "wait", fr, rq, rp, o, k), rq > 0, NEW n \in 0..Cb[s],
         \A d \in Devs : o[d] \in Nat
  PROVE  LET f == Visible(h, n)
             g == HandedOver(h, n)
             ft == StoredNumbers(fr, h, n)
         IN /\ StreamOK(s, f, "stored", ft, rq - 1, rp, o, k)
            /\ StreamOK(s, g, "wait", ft, rq - 1, rp + 1, o, k)
            /\ ft.tail = fr.tail
  <1> DEFINE N == Cb[s]
             w == h.widx
             f == [h EXCEPT !.woff[w] = n]
             g == [h EXCEPT !.woff[w] = n, !.roff[w] = 0, !.widx = 1 - w]
             ft == StoredNumbers(fr, h, n)
  <1>1. /\ h \in Header /\ fr \in Numbers /\ Numbered(h, fr) /\ Protocol(h, "wait", rq, rp)
        /\ k \in 0..BufFrames /\ k <= cras_shm_get_frames(h)
        /\ \A d \in Devs : o[d] <= cras_shm_get_frames(h)
    BY DEF StreamOK
  <1>2. rq = 1 /\ rp = 0 /\ h.pending /\ h.woff[w] = 0
    <2>1. /\ rq \in 0..1 /\ rp \in 0..1 /\ rq + rp + 0 = IF h.pending THEN 1 ELSE 0
          /\ rq = 1 => h.woff[w] = 0
      BY <1>1 DEF Protocol
    <2>2. h.pending \in BOOLEAN BY <1>1, HeaderFields
    <2> QED BY <2>1, <2>2
  <1>3. Shape(h, N) BY DEF StreamOK
  <1>4. N \in Nat /\ FrameIds \in Nat \ {0} /\ FrameIds > 2 * N /\ BufFrames \in Nat
    BY ConstFacts
  <1>5. w \in Halves /\ 1 - w \in Halves /\ 1 - w # w /\ 1 - (1 - w) = w
    BY <1>1, HeaderFields, HalfFacts
  <1>6. n \in Nat /\ n \in 0..N BY <1>4
  <1>7. h.roff[w] = 0
    <2>1. w = h.ridx \/ w = 1 - h.ridx BY <1>1, <1>5, HeaderFields, OtherHalf
    <2> QED BY <1>2, <1>3, <2>1, HeaderFields, <1>1 DEF Shape
  <1>8. /\ f \in Header /\ f.ridx = h.ridx /\ f.widx = h.widx /\ f.roff = h.roff
        /\ f.pending = h.pending /\ f.woff[w] = n /\ f.woff[1 - w] = h.woff[1 - w]
        /\ g \in Header /\ g.ridx = h.ridx /\ g.widx = 1 - h.widx /\ g.roff = h.roff
        /\ g.pending = h.pending /\ g.woff[w] = n /\ g.woff[1 - w] = h.woff[1 - w]
    BY <1>1, <1>6, <1>7, StoreFields
  <1> HIDE DEF f, g, N
  <1>10. /\ Shape(f, N) /\ cras_shm_get_frames(f) = cras_shm_get_frames(h) + n
    BY <1>1, <1>2, <1>3, <1>4, <1>6, <1>8, StoreShape
  <1>11. /\ Shape(g, N) /\ cras_shm_get_frames(g) = cras_shm_get_frames(h) + n
    BY <1>1, <1>2, <1>3, <1>4, <1>6, <1>8, StoreShape
  <1>12. ft \in Numbers /\ Numbered(f, ft) /\ ft.tail = fr.tail
    BY <1>1, <1>2, <1>3, <1>4, <1>6, <1>8, StoreNumbers
  <1>13. Numbered(g, ft)
    BY <1>1, <1>2, <1>3, <1>4, <1>6, <1>8, StoreNumbers
  <1> HIDE DEF ft
  <1>14. cras_shm_get_frames(h) \in Nat BY <1>1, <1>3, <1>4, FramesOf
  <1>15. /\ \A d \in Devs : o[d] <= cras_shm_get_frames(h) + n
         /\ k <= cras_shm_get_frames(h) + n
    BY <1>1, <1>4, <1>6, <1>14
  <1>18. Protocol(f, "stored", rq - 1, rp) BY <1>2, <1>8 DEF Protocol
  <1>19. Protocol(g, "wait", rq - 1, rp + 1) BY <1>2, <1>8 DEF Protocol
  <1>20. StreamOK(s, f, "stored", ft, rq - 1, rp, o, k)
    BY <1>1, <1>8, <1>10, <1>12, <1>15, <1>18 DEF StreamOK, N
  <1>21. StreamOK(s, g, "wait", ft, rq - 1, rp + 1, o, k)
    BY <1>1, <1>8, <1>11, <1>12, <1>13, <1>15, <1>19 DEF StreamOK, N
  <1> QED BY <1>12, <1>20, <1>21 DEF f, g, ft, w, Visible, HandedOver

\* The client's second store.
LEMMA CompletedStream ==
  ASSUME NEW s \in Streams, NEW h, NEW fr, NEW rq, NEW rp, NEW o, NEW k,
         StreamOK(s, h, "stored", fr, rq, rp, o, k), \A d \in Devs : o[d] \in Nat
  PROVE  LET w == h.widx
             g == [h EXCEPT !.roff[w] = 0, !.widx = 1 - w]
             ft == IF h.roff[w] = 0 THEN fr ELSE RacedFrames
         IN StreamOK(s, g, "wait", ft, rq, rp + 1, o, k) /\ ft.tail \in {0, fr.tail}
  <1> DEFINE N == Cb[s]
             w == h.widx
             v == 1 - w
             r == h.ridx
             q == 1 - r
             ro == [h.roff EXCEPT ![w] = 0]
             g == [h EXCEPT !.roff = ro, !.widx = v]
             ft == IF h.roff[w] = 0 THEN fr ELSE RacedFrames
  <1>1. /\ h \in Header /\ fr \in Numbers /\ Numbered(h, fr) /\ Protocol(h, "stored", rq, rp)
        /\ k \in 0..BufFrames /\ k <= cras_shm_get_frames(h)
        /\ \A d \in Devs : o[d] <= cras_shm_get_frames(h)
    BY DEF StreamOK
  <1>2. Shape(h, N) BY DEF StreamOK
  <1>3. N \in Nat /\ FrameIds \in Nat \ {0} /\ BufFrames \in Nat BY ConstFacts
  <1>4. /\ w \in Halves /\ v \in Halves /\ v # w /\ 1 - v = w /\ r \in Halves /\ q \in Halves
        /\ q # r /\ h.roff \in [Halves -> Nat] /\ h.woff \in [Halves -> Nat]
        /\ h.roff[r] \in Nat /\ h.woff[r] \in Nat /\ h.woff[q] \in Nat
    BY <1>1, HeaderFields, HalfFacts
  <1>5. ro \in [Halves -> Nat] /\ ro[w] = 0 /\ \A i \in Halves : i # w => ro[i] = h.roff[i]
    BY <1>4
  <1>6. g = [h EXCEPT !.roff[w] = 0, !.widx = 1 - w] OBVIOUS
  <1> HIDE DEF ro, v
  <1>7. /\ g \in Header /\ g.ridx = r /\ g.widx = v /\ g.roff = ro /\ g.woff = h.woff
        /\ g.pending = h.pending
    BY <1>1, <1>4, <1>5 DEF Header
  <1> HIDE DEF g
  <1>8. /\ h.roff[q] = 0 /\ h.woff[r] <= N /\ h.woff[q] <= N
        /\ h.roff[r] < h.woff[r] \/ (h.roff[r] = 0 /\ h.woff[r] = 0)
    BY <1>2 DEF Shape
  <1>9. ro[q] = 0 /\ ro[r] \in {0, h.roff[r]} BY <1>4, <1>5, <1>8
  <1>10. Shape(g, N)
    <2>1. 1 - g.ridx = q BY <1>7
    <2>2. ro[r] < h.woff[r] \/ (ro[r] = 0 /\ h.woff[r] = 0) BY <1>4, <1>8, <1>9
    <2> HIDE DEF N, r, q
    <2> QED BY <1>7, <1>8, <1>9, <2>1, <2>2 DEF Shape
  <1>11. /\ cras_shm_get_frames(h) = (h.woff[r] - h.roff[r]) + h.woff[q]
         /\ cras_shm_get_frames(g) = (h.woff[r] - ro[r]) + h.woff[q]
         /\ cras_shm_get_frames(h) \in Nat /\ cras_shm_get_frames(g) \in Nat
    <2>1. /\ cras_shm_get_frames(h) = (h.woff[h.ridx] - h.roff[h.ridx]) + h.woff[1 - h.ridx]
          /\ cras_shm_get_frames(h) \in Nat
      BY <1>1, <1>2, <1>3, FramesOf
    <2>2. /\ cras_shm_get_frames(g) = (g.woff[g.ridx] - g.roff[g.ridx]) + g.woff[1 - g.ridx]
          /\ cras_shm_get_frames(g) \in Nat
      BY <1>3, <1>7, <1>10, FramesOf
    <2> QED BY <1>7, <2>1, <2>2
  <1>12. cras_shm_get_frames(g) >= cras_shm_get_frames(h) BY <1>4, <1>9, <1>11
  <1>13. ft \in Numbers /\ Numbered(g, ft) /\ ft.tail \in {0, fr.tail}
    <2>1. CASE h.roff[w] = 0
      <3>1. ro = h.roff BY <1>4, <2>1 DEF ro
      <3>2. cras_shm_get_frames(g) = cras_shm_get_frames(h) BY <1>11, <3>1
      <3>3. ft = fr BY <2>1
      <3> HIDE DEF ft
      <3>4. Numbered(g, fr) BY <1>1, <1>7, <3>1, <3>2 DEF Numbered
      <3> QED BY <1>1, <3>3, <3>4
    <2>2. CASE h.roff[w] # 0
      <3>1. RacedFrames \in Numbers /\ RacedFrames.tail = 0 /\ RacedFrames.raced
        BY <1>3, FreshNumbers
      <3>2. ft = RacedFrames BY <2>2
      <3> HIDE DEF ft
      <3>3. Numbered(g, ft) BY <1>11, <3>1, <3>2 DEF Numbered
      <3> QED BY <3>1, <3>2, <3>3
    <2> QED BY <2>1, <2>2
  <1> HIDE DEF ft
  <1>15. Protocol(g, "wait", rq, rp + 1)
    <2>1. /\ rq \in 0..1 /\ rp \in 0..1 /\ rq + rp + 1 = IF h.pending THEN 1 ELSE 0
      BY <1>1 DEF Protocol
    <2>2. h.pending \in BOOLEAN BY <1>1, HeaderFields
    <2>3. rq = 0 /\ rp = 0 /\ h.pending BY <2>1, <2>2
    <2> QED BY <1>7, <2>3 DEF Protocol
  <1>16. /\ \A d \in Devs : o[d] <= cras_shm_get_frames(g)
         /\ k <= cras_shm_get_frames(g)
    BY <1>1, <1>3, <1>11, <1>12
  <1>17. StreamOK(s, g, "wait", ft, rq, rp + 1, o, k)
    BY <1>1, <1>7, <1>10, <1>13, <1>15, <1>16 DEF StreamOK, N
  <1> QED BY <1>6, <1>13, <1>17 DEF ft, w

-----------------------------------------------------------------------------
(* The devices.                                                            *)

DevStates == {"closed", "open", "run", "nostream"}

\* The fields of the devices' state.
LEMMA ListsFields ==
  /\ Lists.state = state /\ Lists.hw = hw /\ Lists.on = on /\ Lists.run = run
  /\ Lists.off = off /\ Lists.due = due /\ Lists.written = 0
  BY DEF Lists

\* The same, after a step.
LEMMA ListsPrime ==
  /\ Lists'.state = state' /\ Lists'.hw = hw' /\ Lists'.on = on' /\ Lists'.run = run'
  /\ Lists'.off = off' /\ Lists'.due = due' /\ Lists'.written = 0
  BY DEF Lists

\* The types of the fields.
LEMMA DevFields ==
  ASSUME NEW V, NEW L \in DevState(V)
  PROVE  /\ L.state \in [Devs -> DevStates] /\ L.hw \in [Devs -> 0..HwSize]
         /\ L.on \in [Devs -> SUBSET V] /\ L.run \in [Devs -> SUBSET V]
         /\ L.off \in [Streams -> [Devs -> 0..BufFrames]] /\ L.due \in [Streams -> BOOLEAN]
         /\ L.written \in Nat
  BY DEF DevState, DevStates

\* Frames are added to a device's buffer.
LEMMA HwFields ==
  ASSUME NEW V, NEW L \in DevState(V), NEW d \in Devs, NEW x \in 0..HwSize
  PROVE  LET M == [L EXCEPT !.hw[d] = x]
         IN /\ M \in DevState(V) /\ M.state = L.state /\ M.on = L.on /\ M.run = L.run
            /\ M.off = L.off /\ M.due = L.due /\ M.written = L.written
            /\ M.hw[d] = x /\ \A e \in Devs : e # d => M.hw[e] = L.hw[e]
  <1> DEFINE h == [L.hw EXCEPT ![d] = x]
             M == [L EXCEPT !.hw = h]
  <1>1. L.hw \in [Devs -> 0..HwSize] BY DevFields
  <1>2. h \in [Devs -> 0..HwSize] /\ h[d] = x /\ \A e \in Devs : e # d => h[e] = L.hw[e]
    BY <1>1
  <1>3. M = [L EXCEPT !.hw[d] = x] OBVIOUS
  <1> HIDE DEF h
  <1>4. /\ M \in DevState(V) /\ M.state = L.state /\ M.on = L.on /\ M.run = L.run
        /\ M.off = L.off /\ M.due = L.due /\ M.written = L.written /\ M.hw = h
    BY <1>2 DEF DevState
  <1> HIDE DEF M
  <1> QED BY <1>2, <1>3, <1>4

\* The state of a device changes.
LEMMA StateFields ==
  ASSUME NEW V, NEW L \in DevState(V), NEW d \in Devs, NEW x \in DevStates
  PROVE  LET M == [L EXCEPT !.state[d] = x]
         IN /\ M \in DevState(V) /\ M.hw = L.hw /\ M.on = L.on /\ M.run = L.run
            /\ M.off = L.off /\ M.due = L.due /\ M.written = L.written
  <1> DEFINE h == [L.state EXCEPT ![d] = x]
             M == [L EXCEPT !.state = h]
  <1>1. L.state \in [Devs -> DevStates] BY DevFields
  <1>2. h \in [Devs -> DevStates] BY <1>1
  <1>3. M = [L EXCEPT !.state[d] = x] OBVIOUS
  <1> HIDE DEF h
  <1>4. /\ M \in DevState(V) /\ M.hw = L.hw /\ M.on = L.on /\ M.run = L.run
        /\ M.off = L.off /\ M.due = L.due /\ M.written = L.written
    BY <1>2 DEF DevState, DevStates
  <1> HIDE DEF M
  <1> QED BY <1>3, <1>4

\* Twice the least callback level of a device fits its buffer.
LEMMA MinCbLevel ==
  ASSUME NEW V \in SUBSET Streams, NEW L \in DevState(V), NEW d \in Devs
  PROVE  min_cb_level(L, d) \in Nat /\ 2 * min_cb_level(L, d) <= HwSize
  <1> DEFINE S == {HwSize \div 2} \cup {Cb[s] : s \in L.run[d]}
  <1>1. HwSize \in Nat /\ \A s \in Streams : Cb[s] \in Nat BY ConstFacts
  <1>2. L.run[d] \subseteq Streams BY DevFields
  <1>3. HwSize \div 2 \in Nat /\ 2 * (HwSize \div 2) <= HwSize BY <1>1
  <1>4. S \in SUBSET Nat /\ S # {} BY <1>1, <1>2, <1>3
  <1>5. HwSize \div 2 \in S OBVIOUS
  <1>6. min_cb_level(L, d) = Least(S) BY DEF min_cb_level
  <1> HIDE DEF S
  <1>7. Least(S) \in Nat /\ Least(S) <= HwSize \div 2 BY <1>4, <1>5, LeastFacts
  <1> QED BY <1>1, <1>3, <1>6, <1>7

\* Zeros are played: only the fill of the device changes.
LEMMA NoStreamFields ==
  ASSUME NEW V \in SUBSET Streams, NEW L \in DevState(V), NEW d \in Devs
  PROVE  LET M == NoStreamPlayback(L, d)
         IN /\ M \in DevState(V) /\ M.on = L.on /\ M.run = L.run /\ M.off = L.off
            /\ \A e \in Devs : e # d => M.hw[e] = L.hw[e]
  <1> DEFINE m == min_cb_level(L, d)
             x == Larger(L.hw[d], 2 * m)
  <1>1. m \in Nat /\ 2 * m <= HwSize BY MinCbLevel
  <1>2. L.hw[d] \in 0..HwSize BY DevFields
  <1>3. x \in 0..HwSize
    <2> HIDE DEF m
    <2> QED BY <1>1, <1>2, ConstFacts DEF Larger
  <1>4. NoStreamPlayback(L, d) = [L EXCEPT !.hw[d] = x] BY DEF NoStreamPlayback
  <1> HIDE DEF x
  <1> QED BY <1>3, <1>4, HwFields

\* Zeros are filled in.
LEMMA FilledFields ==
  ASSUME NEW V \in SUBSET Streams, NEW L \in DevState(V), NEW d \in Devs, NEW n \in Nat
  PROVE  LET M == Filled(L, d, n)
         IN /\ M \in DevState(V) /\ M.on = L.on /\ M.run = L.run /\ M.off = L.off
            /\ \A e \in Devs : e # d => M.hw[e] = L.hw[e]
  <1> DEFINE x == Smaller(L.hw[d] + n, HwSize)
  <1>1. L.hw[d] \in 0..HwSize BY DevFields
  <1>2. x \in 0..HwSize BY <1>1, ConstFacts DEF Smaller
  <1>3. Filled(L, d, n) = [L EXCEPT !.hw[d] = x] BY DEF Filled
  <1> HIDE DEF x
  <1> QED BY <1>2, <1>3, HwFields

-----------------------------------------------------------------------------
(* Streams are taken off devices.                                          *)

\* M has no more streams than L, on no device more offset, and the same fill
\* where streams still play.
Shrinks(L, M) ==
    \A d \in Devs : /\ M.on[d] \subseteq L.on[d] /\ M.run[d] \subseteq L.run[d]
                    /\ M.run[d] # {} => M.hw[d] = L.hw[d]
                    /\ \A s \in Streams : M.off[s][d] \in {0, L.off[s][d]}

\* This can be repeated.
LEMMA ShrinksTrans ==
  ASSUME NEW L, NEW M, NEW N, Shrinks(L, M), Shrinks(M, N)
  PROVE  Shrinks(L, N)
  <1> SUFFICES ASSUME NEW d \in Devs
               PROVE  /\ N.on[d] \subseteq L.on[d] /\ N.run[d] \subseteq L.run[d]
                      /\ N.run[d] # {} => N.hw[d] = L.hw[d]
                      /\ \A s \in Streams : N.off[s][d] \in {0, L.off[s][d]}
    BY DEF Shrinks
  <1>1. /\ M.on[d] \subseteq L.on[d] /\ M.run[d] \subseteq L.run[d]
        /\ M.run[d] # {} => M.hw[d] = L.hw[d]
        /\ \A s \in Streams : M.off[s][d] \in {0, L.off[s][d]}
    BY DEF Shrinks
  <1>2. /\ N.on[d] \subseteq M.on[d] /\ N.run[d] \subseteq M.run[d]
        /\ N.run[d] # {} => N.hw[d] = M.hw[d]
        /\ \A s \in Streams : N.off[s][d] \in {0, M.off[s][d]}
    BY DEF Shrinks
  <1> QED BY <1>1, <1>2

\* The stream s has left the device d.
Off(M, s, d) == s \notin M.on[d] /\ M.off[s][d] = 0

\* cras_iodev_rm_stream keeps the devices in order and removes the stream.
LEMMA RmStreamOK ==
  ASSUME NEW V \in SUBSET Streams, NEW O, NEW L, DevsOK(L, V, O), NEW s \in Streams,
         NEW d \in Devs
  PROVE  LET M == cras_iodev_rm_stream(L, s, d)
         IN DevsOK(M, V, O) /\ Shrinks(L, M) /\ Off(M, s, d)
  <1> DEFINE o == [L.on EXCEPT ![d] = L.on[d] \ {s}]
             r == [L.run EXCEPT ![d] = L.run[d] \ {s}]
             fs == [L.off[s] EXCEPT ![d] = 0]
             f == [L.off EXCEPT ![s] = fs]
             A == [L EXCEPT !.on = o, !.run = r, !.off = f]
             u == [t \in Streams |-> IF t \in A.on[d] \ A.run[d] THEN \E v \in A.run[d] : L.due[v]
                                     ELSE L.due[t]]
             B == IF A.run[d] = {} THEN A ELSE [A EXCEPT !.due = u]
             C == [B EXCEPT !.state[d] = "nostream"]
             M == cras_iodev_rm_stream(L, s, d)
  <1>1. L \in DevState(V) /\ \A e \in Devs : DevOK(L, e, O) BY DEF DevsOK
  <1>2. /\ L.hw \in [Devs -> 0..HwSize] /\ L.on \in [Devs -> SUBSET V]
        /\ L.run \in [Devs -> SUBSET V] /\ L.off \in [Streams -> [Devs -> 0..BufFrames]]
        /\ L.due \in [Streams -> BOOLEAN]
    BY <1>1, DevFields
  <1>3. 0 \in 0..BufFrames BY ConstFacts
  <1>4. /\ o \in [Devs -> SUBSET V] /\ o[d] = L.on[d] \ {s}
        /\ \A e \in Devs : e # d => o[e] = L.on[e]
    BY <1>2
  <1>5. /\ r \in [Devs -> SUBSET V] /\ r[d] = L.run[d] \ {s}
        /\ \A e \in Devs : e # d => r[e] = L.run[e]
    BY <1>2
  <1>6. /\ L.off[s] \in [Devs -> 0..BufFrames] /\ fs \in [Devs -> 0..BufFrames] /\ fs[d] = 0
        /\ \A e \in Devs : e # d => fs[e] = L.off[s][e]
    BY <1>2, <1>3
  <1> HIDE DEF fs
  <1>7. /\ f \in [Streams -> [Devs -> 0..BufFrames]] /\ f[s] = fs
        /\ \A t \in Streams : t # s => f[t] = L.off[t]
    BY <1>2, <1>6
  <1>8. M = IF B.on[d] = {} /\ B.state[d] = "run" THEN NoStreamPlayback(C, d) ELSE B
    BY DEF cras_iodev_rm_stream, o, r, f, fs
  <1> HIDE DEF o, r, f
  <1>9. /\ A \in DevState(V) /\ A.on = o /\ A.run = r /\ A.off = f /\ A.hw = L.hw /\ A.due = L.due
    BY <1>1, <1>4, <1>5, <1>7 DEF DevState
  <1> HIDE DEF A
  <1>10. u \in [Streams -> BOOLEAN]
    <2>1. ASSUME NEW t \in Streams
          PROVE  (IF t \in A.on[d] \ A.run[d] THEN \E v \in A.run[d] : L.due[v]
                  ELSE L.due[t]) \in BOOLEAN
      BY <1>2
    <2> QED BY <2>1
  <1> HIDE DEF u
  <1>11. B \in DevState(V) /\ B.on = o /\ B.run = r /\ B.off = f /\ B.hw = L.hw
    <2>1. CASE A.run[d] = {} BY <1>9, <2>1
    <2>2. CASE A.run[d] # {}
      <3>1. B = [A EXCEPT !.due = u] BY <2>2
      <3> HIDE DEF B
      <3> QED BY <1>9, <1>10, <3>1 DEF DevState
    <2> QED BY <2>1, <2>2
  <1> HIDE DEF B
  <1>12. C \in DevState(V) /\ C.on = o /\ C.run = r /\ C.off = f /\ C.hw = L.hw
    <2> DEFINE x == "nostream"
    <2>1. x \in DevStates /\ C = [B EXCEPT !.state[d] = x] BY DEF DevStates
    <2> HIDE DEF x, C
    <2> QED BY <1>11, <2>1, StateFields
  <1> HIDE DEF C
  <1>13. /\ M \in DevState(V) /\ M.on = o /\ M.run = r /\ M.off = f
         /\ \A e \in Devs : e # d => M.hw[e] = L.hw[e]
         /\ o[d] # {} => M.hw[d] = L.hw[d]
    <2>1. CASE B.on[d] = {} /\ B.state[d] = "run"
      <3>1. M = NoStreamPlayback(C, d) BY <1>8, <2>1
      <3> HIDE DEF M
      <3>2. /\ M \in DevState(V) /\ M.on = C.on /\ M.run = C.run /\ M.off = C.off
            /\ \A e \in Devs : e # d => M.hw[e] = C.hw[e]
        BY <1>12, <3>1, NoStreamFields
      <3> QED BY <1>11, <1>12, <2>1, <3>2
    <2>2. CASE ~(B.on[d] = {} /\ B.state[d] = "run")
      <3>1. M = B BY <1>8, <2>2
      <3> HIDE DEF M
      <3> QED BY <1>11, <3>1
    <2> QED BY <2>1, <2>2
  <1> HIDE DEF M
  <1>14. ASSUME NEW e \in Devs
         PROVE  /\ DevOK(M, e, O)
                /\ M.on[e] \subseteq L.on[e] /\ M.run[e] \subseteq L.run[e]
                /\ M.run[e] # {} => M.hw[e] = L.hw[e]
                /\ \A t \in Streams : M.off[t][e] \in {0, L.off[t][e]}
    <2>1. /\ L.run[e] \subseteq L.on[e]
          /\ e \notin O => L.on[e] = {} /\ \A t \in Streams : L.off[t][e] = 0
      BY <1>1 DEF DevOK
    <2>2. \A t \in Streams : M.off[t][e] \in {0, L.off[t][e]} BY <1>6, <1>7, <1>13
    <2>3. M.on[e] \subseteq L.on[e] /\ M.run[e] \subseteq L.run[e] /\ M.run[e] \subseteq M.on[e]
      BY <1>4, <1>5, <1>13, <2>1
    <2>4. DevOK(M, e, O) BY <2>1, <2>2, <2>3 DEF DevOK
    <2>5. M.run[e] # {} => M.hw[e] = L.hw[e]
      BY <1>13, <2>3
    <2> QED BY <2>2, <2>3, <2>4, <2>5
  <1>15. Off(M, s, d) BY <1>4, <1>6, <1>7, <1>13 DEF Off
  <1>16. DevsOK(M, V, O) /\ Shrinks(L, M) BY <1>13, <1>14 DEF DevsOK, Shrinks
  <1> QED BY <1>15, <1>16 DEF M

\* What the recursive definition of the loop of dev_io_remove_stream defines.
IsRemovals(f, L, s) ==
    f = [k \in 0..Len(open) |-> IF k = 0 THEN L ELSE cras_iodev_rm_stream(f[k - 1], s, open[k])]

\* The loop can be run, and keeps the devices in order.
LEMMA RemovalsOK ==
  ASSUME open \in Seq(Devs), NEW V \in SUBSET Streams, NEW O, NEW L, DevsOK(L, V, O),
         NEW s \in Streams
  PROVE  \A k \in 0..Len(open) : LET M == Removals(L, s)[k]
                                 IN /\ DevsOK(M, V, O) /\ Shrinks(L, M)
                                    /\ \A i \in 1..k : Off(M, s, open[i])
  <1> DEFINE n == Len(open)
             X == {M \in DevState(V) : DevsOK(M, V, O) /\ Shrinks(L, M)}
             G == [p \in (1..n) \X X |-> cras_iodev_rm_stream(p[2], s, open[p[1]])]
             f == CHOOSE f : IsRemovals(f, L, s)
  <1>1. n \in Nat /\ \A k \in 1..n : open[k] \in Devs OBVIOUS
  <1>2. L \in X
    <2>1. L \in DevState(V) BY DEF DevsOK
    <2>2. Shrinks(L, L) BY DEF Shrinks
    <2> QED BY <2>1, <2>2
  <1>3. ASSUME NEW k \in 1..n, NEW M \in X
        PROVE  LET N == cras_iodev_rm_stream(M, s, open[k])
               IN N \in X /\ Shrinks(M, N) /\ Off(N, s, open[k])
    <2> DEFINE N == cras_iodev_rm_stream(M, s, open[k])
    <2>1. DevsOK(N, V, O) /\ Shrinks(M, N) /\ Off(N, s, open[k]) BY <1>1, RmStreamOK
    <2> HIDE DEF N
    <2>2. Shrinks(L, N) BY <2>1, ShrinksTrans
    <2>3. N \in X BY <2>1, <2>2 DEF DevsOK
    <2> HIDE DEF X
    <2> QED BY <2>1, <2>3 DEF N
  <1>4. ASSUME NEW k \in 1..n, NEW M \in X
        PROVE  G[<<k, M>>] = cras_iodev_rm_stream(M, s, open[k]) /\ G[<<k, M>>] \in X
    <2>1. cras_iodev_rm_stream(M, s, open[k]) \in X BY <1>3
    <2> HIDE DEF X
    <2>2. <<k, M>> \in (1..n) \X X OBVIOUS
    <2> QED BY <2>1, <2>2
  <1> HIDE DEF X, G
  <1>5. \E g : IsRemovals(g, L, s)
    <2>0. PICK g : LoopRun(g, n, X, L, G)
      <3>1. \A k \in 1..n : \A M \in X : G[<<k, M>>] \in X BY <1>4
      <3> HIDE DEF n
      <3> QED BY <1>1, <1>2, <3>1, LoopRuns
    <2>1. g \in [0..n -> X] /\ g[0] = L /\ \A k \in 1..n : g[k] = G[<<k, g[k - 1]>>]
      BY <2>0 DEF LoopRun
    <2>2. \A k \in 1..n : k - 1 \in 0..n BY <1>1
    <2>3. \A k \in 1..n : g[k - 1] \in X BY <2>1, <2>2
    <2>4. \A k \in 1..n : g[k] = cras_iodev_rm_stream(g[k - 1], s, open[k]) BY <1>4, <2>1, <2>3
    <2>5. \A k \in 0..n : k = 0 \/ k \in 1..n BY <1>1
    <2> DEFINE h == [k \in 0..n |-> IF k = 0 THEN L ELSE cras_iodev_rm_stream(g[k - 1], s, open[k])]
    <2>6. \A k \in 0..n : g[k] = h[k] BY <2>1, <2>4, <2>5
    <2>7. g = h
      <3>1. h = [k \in 0..n |-> h[k]] /\ g = [k \in 0..n |-> g[k]] BY <2>1
      <3> HIDE DEF h
      <3> QED BY <2>6, <3>1
    <2>8. IsRemovals(g, L, s) BY <2>7 DEF IsRemovals
    <2> QED BY <2>8
  <1>6. Removals(L, s) = f BY DEF Removals, IsRemovals
  <1>7. IsRemovals(f, L, s) BY <1>5
  <1> HIDE DEF f
  <1>8. \A k \in 0..n : f[k] = IF k = 0 THEN L ELSE cras_iodev_rm_stream(f[k - 1], s, open[k])
    BY <1>7 DEF IsRemovals
  <1> DEFINE S == {k \in 0..n : f[k] \in X /\ \A i \in 1..k : Off(f[k], s, open[i])}
  <1>9. 0 \in S
    <2>1. f[0] = L /\ 0 \in 0..n BY <1>1, <1>8
    <2>2. \A i \in 1..0 : FALSE OBVIOUS
    <2> QED BY <1>2, <2>1, <2>2
  <1>10. ASSUME NEW k \in 1..n, k - 1 \in S PROVE k \in S
    <2>1. k \in 0..n /\ k # 0 /\ f[k] = cras_iodev_rm_stream(f[k - 1], s, open[k]) BY <1>1, <1>8
    <2>2. f[k - 1] \in X /\ \A i \in 1..(k - 1) : Off(f[k - 1], s, open[i]) BY <1>10
    <2>3. f[k] \in X /\ Shrinks(f[k - 1], f[k]) /\ Off(f[k], s, open[k]) BY <1>3, <2>1, <2>2
    <2>4. ASSUME NEW i \in 1..k PROVE Off(f[k], s, open[i])
      <3>1. CASE i = k BY <2>3, <3>1
      <3>2. CASE i # k
        <4>1. i \in 1..(k - 1) /\ i \in 1..n BY <1>1, <3>2
        <4>2. open[i] \in Devs /\ Off(f[k - 1], s, open[i]) BY <1>1, <2>2, <4>1
        <4> QED BY <2>3, <4>2 DEF Off, Shrinks
      <3> QED BY <3>1, <3>2
    <2> QED BY <2>1, <2>3, <2>4
  <1>11. \A k \in 0..n : k \in S
    <2> HIDE DEF S, n
    <2> QED BY <1>1, <1>9, <1>10, UpTo
  <1> QED BY <1>6, <1>11 DEF X

\* dev_io_remove_stream takes the stream off all open devices.
LEMMA RemoveStreamOK ==
  ASSUME open \in Seq(Devs), NEW V \in SUBSET Streams, NEW O, NEW L, DevsOK(L, V, O),
         NEW s \in Streams
  PROVE  LET M == dev_io_remove_stream(L, s)
         IN DevsOK(M, V, O) /\ Shrinks(L, M) /\ \A d \in Range(open) : Off(M, s, d)
  <1> DEFINE M == Removals(L, s)[Len(open)]
  <1>1. Len(open) \in 0..Len(open) OBVIOUS
  <1>2. DevsOK(M, V, O) /\ Shrinks(L, M) /\ \A i \in 1..Len(open) : Off(M, s, open[i])
    BY <1>1, RemovalsOK
  <1> HIDE DEF M
  <1>3. \A d \in Range(open) : \E i \in 1..Len(open) : d = open[i] BY DEF Range
  <1>4. \A d \in Range(open) : Off(M, s, d) BY <1>2, <1>3
  <1> QED BY <1>2, <1>4 DEF dev_io_remove_stream, M

\* What the recursive definition of the loop of RemoveAll defines.
IsRemovedOf(f, L, S) ==
    f = [k \in 0..Len(Order) |->
           IF k = 0 THEN L
           ELSE IF Order[k] \in S THEN dev_io_remove_stream(f[k - 1], Order[k])
           ELSE f[k - 1]]

\* All streams of a set are taken off all open devices.
LEMMA RemoveAllOK ==
  ASSUME open \in Seq(Devs), NEW V \in SUBSET Streams, NEW O, NEW L, DevsOK(L, V, O),
         NEW S \in SUBSET Streams
  PROVE  LET M == RemoveAll(L, S)
         IN /\ DevsOK(M, V, O) /\ Shrinks(L, M)
            /\ \A s \in S : \A d \in Range(open) : Off(M, s, d)
  <1> DEFINE n == Len(Order)
             Step(k, M) == IF Order[k] \in S THEN dev_io_remove_stream(M, Order[k]) ELSE M
             X == {M \in DevState(V) : DevsOK(M, V, O) /\ Shrinks(L, M)}
             G == [p \in (1..n) \X X |-> Step(p[1], p[2])]
             f == CHOOSE f : IsRemovedOf(f, L, S)
             Gone1(M, s) == \A d \in Range(open) : Off(M, s, d)
  <1>1. n \in Nat /\ \A k \in 1..n : Order[k] \in Streams BY ConstFacts
  <1>2. L \in X
    <2>1. L \in DevState(V) BY DEF DevsOK
    <2>2. Shrinks(L, L) BY DEF Shrinks
    <2> QED BY <2>1, <2>2
  <1>3. ASSUME NEW k \in 1..n, NEW M \in X
        PROVE  LET N == Step(k, M)
               IN N \in X /\ Shrinks(M, N) /\ (Order[k] \in S => Gone1(N, Order[k]))
    <2>1. CASE Order[k] \notin S
      <3>1. Step(k, M) = M /\ Shrinks(M, M) BY <2>1 DEF Shrinks
      <3> QED BY <2>1, <3>1
    <2>2. CASE Order[k] \in S
      <3> DEFINE N == dev_io_remove_stream(M, Order[k])
      <3>1. DevsOK(M, V, O) /\ Order[k] \in Streams BY <1>1
      <3>2. DevsOK(N, V, O) /\ Shrinks(M, N) /\ Gone1(N, Order[k])
        BY <3>1, RemoveStreamOK
      <3>3. N = Step(k, M) BY <2>2
      <3> HIDE DEF N, Step, Gone1
      <3>4. Shrinks(L, N) BY <3>2, ShrinksTrans
      <3>5. N \in X BY <3>2, <3>4 DEF DevsOK
      <3> HIDE DEF X
      <3> QED BY <3>2, <3>3, <3>5
    <2> QED BY <2>1, <2>2
  <1> HIDE DEF Step, Gone1
  <1>4. ASSUME NEW k \in 1..n, NEW M \in X
        PROVE  G[<<k, M>>] = Step(k, M) /\ G[<<k, M>>] \in X
    <2>1. Step(k, M) \in X BY <1>3
    <2> HIDE DEF X
    <2>2. <<k, M>> \in (1..n) \X X OBVIOUS
    <2> QED BY <2>1, <2>2
  <1> HIDE DEF X, G
  <1>5. \E g : IsRemovedOf(g, L, S)
    <2>0. PICK g : LoopRun(g, n, X, L, G)
      <3>1. \A k \in 1..n : \A M \in X : G[<<k, M>>] \in X BY <1>4
      <3> HIDE DEF n
      <3> QED BY <1>1, <1>2, <3>1, LoopRuns
    <2>1. g \in [0..n -> X] /\ g[0] = L /\ \A k \in 1..n : g[k] = G[<<k, g[k - 1]>>]
      BY <2>0 DEF LoopRun
    <2>2. \A k \in 1..n : k - 1 \in 0..n BY <1>1
    <2>3. \A k \in 1..n : g[k - 1] \in X BY <2>1, <2>2
    <2>4. \A k \in 1..n : g[k] = Step(k, g[k - 1]) BY <1>4, <2>1, <2>3
    <2>5. \A k \in 0..n : k = 0 \/ k \in 1..n BY <1>1
    <2> DEFINE h == [k \in 0..n |-> IF k = 0 THEN L ELSE Step(k, g[k - 1])]
    <2>6. \A k \in 0..n : g[k] = h[k] BY <2>1, <2>4, <2>5
    <2>7. g = h
      <3>1. h = [k \in 0..n |-> h[k]] /\ g = [k \in 0..n |-> g[k]] BY <2>1
      <3> HIDE DEF h
      <3> QED BY <2>6, <3>1
    <2>8. IsRemovedOf(g, L, S) BY <2>7 DEF IsRemovedOf, Step
    <2> QED BY <2>8
  <1>6. RemovedOf(L, S) = f BY DEF RemovedOf, IsRemovedOf
  <1>7. IsRemovedOf(f, L, S) BY <1>5
  <1> HIDE DEF f
  <1>8. \A k \in 0..n : f[k] = IF k = 0 THEN L ELSE Step(k, f[k - 1])
    BY <1>7 DEF IsRemovedOf, Step
  <1> DEFINE T == {k \in 0..n : /\ f[k] \in X
                                /\ \A i \in 1..k : Order[i] \in S => Gone1(f[k], Order[i])}
  <1>9. 0 \in T
    <2>1. f[0] = L /\ 0 \in 0..n BY <1>1, <1>8
    <2>2. \A i \in 1..0 : FALSE OBVIOUS
    <2> QED BY <1>2, <2>1, <2>2
  <1>10. ASSUME NEW k \in 1..n, k - 1 \in T PROVE k \in T
    <2>1. k \in 0..n /\ k # 0 /\ f[k] = Step(k, f[k - 1]) BY <1>1, <1>8
    <2>2. /\ f[k - 1] \in X
          /\ \A i \in 1..(k - 1) : Order[i] \in S => Gone1(f[k - 1], Order[i])
      BY <1>10
    <2>3. f[k] \in X /\ Shrinks(f[k - 1], f[k]) /\ (Order[k] \in S => Gone1(f[k], Order[k]))
      BY <1>3, <2>1, <2>2
    <2>4. ASSUME NEW i \in 1..k, Order[i] \in S PROVE Gone1(f[k], Order[i])
      <3>1. CASE i = k BY <2>3, <2>4, <3>1
      <3>2. CASE i # k
        <4>1. i \in 1..(k - 1) /\ i \in 1..n BY <1>1, <3>2
        <4>2. Gone1(f[k - 1], Order[i]) /\ Order[i] \in Streams BY <1>1, <2>2, <2>4, <4>1
        <4>3. Range(open) \subseteq Devs BY DEF Range
        <4> QED BY <2>3, <4>2, <4>3 DEF Off, Shrinks, Gone1
      <3> QED BY <3>1, <3>2
    <2> QED BY <2>1, <2>3, <2>4
  <1>11. \A k \in 0..n : k \in T
    <2> HIDE DEF T, n
    <2> QED BY <1>1, <1>9, <1>10, UpTo
  <1>12. n \in T BY <1>1, <1>11
  <1>13. ASSUME NEW s \in S PROVE Gone1(f[n], s)
    <2>1. PICK i \in 1..n : Order[i] = s BY ConstFacts DEF Range
    <2> QED BY <1>12, <2>1
  <1>14. RemoveAll(L, S) = f[n] BY <1>6 DEF RemoveAll
  <1> QED BY <1>12, <1>13, <1>14 DEF X, Gone1

-----------------------------------------------------------------------------
(* A device is written.                                                    *)

\* Only streams, the ones that play and their offsets matter to DevsOK.
LEMMA SameStreams ==
  ASSUME NEW V, NEW O, NEW L, DevsOK(L, V, O), NEW M \in DevState(V),
         M.on = L.on, M.run = L.run, M.off = L.off
  PROVE  DevsOK(M, V, O)
  BY DEF DevsOK, DevOK

\* M has no more streams than L, and where an offset grew it is within q.
Moves(L, M, q) ==
    \A d \in Devs : /\ M.on[d] \subseteq L.on[d] /\ M.run[d] \subseteq L.run[d]
                    /\ \A s \in Streams : M.off[s][d] <= L.off[s][d] \/ M.off[s][d] <= q[s]

\* This can be repeated.
LEMMA MovesTrans ==
  ASSUME NEW V, NEW L, NEW M, NEW N, L \in DevState(V), M \in DevState(V), N \in DevState(V),
         NEW q \in [Streams -> 0..BufFrames], Moves(L, M, q), Moves(M, N, q)
  PROVE  Moves(L, N, q)
  <1> SUFFICES ASSUME NEW d \in Devs
               PROVE  /\ N.on[d] \subseteq L.on[d] /\ N.run[d] \subseteq L.run[d]
                      /\ \A s \in Streams : N.off[s][d] <= L.off[s][d] \/ N.off[s][d] <= q[s]
    BY DEF Moves
  <1>1. /\ N.on[d] \subseteq L.on[d] /\ N.run[d] \subseteq L.run[d] BY DEF Moves
  <1>2. ASSUME NEW s \in Streams PROVE N.off[s][d] <= L.off[s][d] \/ N.off[s][d] <= q[s]
    <2>1. L.off[s][d] \in Int /\ M.off[s][d] \in Int /\ N.off[s][d] \in Int /\ q[s] \in Int
      BY DevFields, ConstFacts
    <2>2. M.off[s][d] <= L.off[s][d] \/ M.off[s][d] <= q[s] BY DEF Moves
    <2>3. N.off[s][d] <= M.off[s][d] \/ N.off[s][d] <= q[s] BY DEF Moves
    <2> QED BY <2>1, <2>2, <2>3
  <1> QED BY <1>1, <1>2

\* cras_iodev_prepare_output_before_write_samples changes no stream.
LEMMA PreparedOK ==
  ASSUME NEW V \in SUBSET Streams, NEW O, NEW L, DevsOK(L, V, O), NEW d \in Devs, NEW q
  PROVE  LET M == Prepared(L, q, d)
         IN DevsOK(M, V, O) /\ M.on = L.on /\ M.run = L.run /\ M.off = L.off
  <1> DEFINE M == Prepared(L, q, d)
             x == "run"
             m == min_cb_level(L, d)
             A == Filled(L, d, m)
             B == NoStreamPlayback(L, d)
             C == [A EXCEPT !.state[d] = x]
             D == [L EXCEPT !.state[d] = x]
  <1>1. L \in DevState(V) BY DEF DevsOK
  <1>2. m \in Nat BY <1>1, MinCbLevel
  <1>3. x \in DevStates BY DEF DevStates
  <1>4. M \in {C, D, B, L}
    BY DEF Prepared
  <1> HIDE DEF x, m
  <1>5. A \in DevState(V) /\ A.on = L.on /\ A.run = L.run /\ A.off = L.off
    BY <1>1, <1>2, FilledFields
  <1>6. B \in DevState(V) /\ B.on = L.on /\ B.run = L.run /\ B.off = L.off
    BY <1>1, NoStreamFields
  <1> HIDE DEF A, B, M
  <1>7. C \in DevState(V) /\ C.on = L.on /\ C.run = L.run /\ C.off = L.off
    BY <1>3, <1>5, StateFields
  <1>8. D \in DevState(V) /\ D.on = L.on /\ D.run = L.run /\ D.off = L.off
    BY <1>1, <1>3, StateFields
  <1> HIDE DEF C, D
  <1>9. M \in DevState(V) /\ M.on = L.on /\ M.run = L.run /\ M.off = L.off
    BY <1>1, <1>4, <1>6, <1>7, <1>8
  <1>10. DevsOK(M, V, O) BY <1>9, SameStreams
  <1> QED BY <1>9, <1>10 DEF M

\* Neither does the check for an underrun.
LEMMA CheckedOK ==
  ASSUME NEW V \in SUBSET Streams, NEW O, NEW L, DevsOK(L, V, O), NEW d \in Devs
  PROVE  LET M == Checked(L, d)
         IN DevsOK(M, V, O) /\ M.on = L.on /\ M.run = L.run /\ M.off = L.off
  <1> DEFINE M == Checked(L, d)
             m == min_cb_level(L, d)
             A == Filled(L, d, m)
  <1>1. L \in DevState(V) BY DEF DevsOK
  <1>2. m \in Nat BY <1>1, MinCbLevel
  <1>3. M \in {A, L} BY DEF Checked
  <1> HIDE DEF m
  <1>4. A \in DevState(V) /\ A.on = L.on /\ A.run = L.run /\ A.off = L.off
    BY <1>1, <1>2, FilledFields
  <1> HIDE DEF A, M
  <1>5. M \in DevState(V) /\ M.on = L.on /\ M.run = L.run /\ M.off = L.off
    BY <1>1, <1>3, <1>4
  <1>6. DevsOK(M, V, O) BY <1>5, SameStreams
  <1> QED BY <1>5, <1>6 DEF M

\* The limit is between zero and the room.
LEMMA WriteLimit ==
  ASSUME NEW V \in SUBSET Streams, NEW L \in DevState(V), NEW d \in Devs,
         NEW q \in [Streams -> 0..BufFrames], NEW n \in Nat
  PROVE  get_write_limit(L, q, d, n) \in Nat /\ get_write_limit(L, q, d, n) <= n
  <1> DEFINE giving == {s \in L.run[d] : playable_frames(L, q, s, d) >= 0}
             playing == giving \ drain
             T == IF playing # {} THEN playing ELSE giving
             S == {n} \cup {playable_frames(L, q, s, d) : s \in T}
  <1>1. get_write_limit(L, q, d, n) = Least(S) BY DEF get_write_limit
  <1>2. L.run[d] \subseteq Streams BY DevFields
  <1>3. \A s \in L.run[d] : playable_frames(L, q, s, d) \in Int
    BY <1>2, DevFields, ConstFacts DEF playable_frames
  <1>4. T \subseteq giving OBVIOUS
  <1>5. \A s \in giving : playable_frames(L, q, s, d) \in Nat BY <1>3
  <1> HIDE DEF T, giving
  <1>6. S \in SUBSET Nat /\ n \in S BY <1>4, <1>5
  <1> HIDE DEF S
  <1>7. Least(S) \in S /\ Least(S) <= n BY <1>6, LeastFacts
  <1> QED BY <1>1, <1>6, <1>7

\* One round of write_output_samples.
LEMMA RoundOK ==
  ASSUME open \in Seq(Devs), NEW V \in SUBSET Streams, NEW L, DevsOK(L, V, Range(open)),
         NEW d \in Devs, NEW q \in [Streams -> 0..BufFrames], NEW n \in Nat,
         L.hw[d] + n <= HwSize
  PROVE  LET M == Round(L, q, d, n)
         IN /\ DevsOK(M, V, Range(open)) /\ Moves(L, M, q)
            /\ M.run[d] # {} => M.hw[d] = L.hw[d] + get_write_limit(L, q, d, n)
  <1> DEFINE O == Range(open)
             M == Round(L, q, d, n)
             S == Ended(L, q, d)
             R == RemoveAll(L, S)
             m == get_write_limit(L, q, d, n)
  <1>1. L \in DevState(V) /\ \A e \in Devs : DevOK(L, e, O) BY DEF DevsOK
  <1>2. m \in Nat /\ m <= n BY <1>1, WriteLimit
  <1>3. S \in SUBSET Streams BY <1>1, DevFields DEF Ended
  <1>4. /\ DevsOK(R, V, O) /\ Shrinks(L, R)
        /\ \A s \in S : \A e \in O : Off(R, s, e)
    <2> HIDE DEF S
    <2> QED BY <1>3, RemoveAllOK
  <1>5. M = IF R.run[d] = {} THEN R
            ELSE [Mixed(R, q, d, m) EXCEPT !.hw[d] = @ + m, !.written = @ + m]
    BY DEF Round
  <1> HIDE DEF m, R, M
  <1>6. R \in DevState(V) /\ \A e \in Devs : DevOK(R, e, O) BY <1>4 DEF DevsOK
  <1>7. Moves(L, R, q)
    <2> SUFFICES ASSUME NEW e \in Devs
                 PROVE  /\ R.on[e] \subseteq L.on[e] /\ R.run[e] \subseteq L.run[e]
                        /\ \A s \in Streams : R.off[s][e] <= L.off[s][e] \/ R.off[s][e] <= q[s]
      BY DEF Moves
    <2>1. /\ R.on[e] \subseteq L.on[e] /\ R.run[e] \subseteq L.run[e]
          /\ \A s \in Streams : R.off[s][e] \in {0, L.off[s][e]}
      BY <1>4 DEF Shrinks
    <2>2. \A s \in Streams : L.off[s][e] \in 0..BufFrames BY <1>1, DevFields
    <2>3. ASSUME NEW s \in Streams
          PROVE  R.off[s][e] <= L.off[s][e]
      <3> DEFINE x == L.off[s][e]
                 y == R.off[s][e]
      <3>1. x \in Nat /\ x >= 0 /\ y \in {0, x} BY <2>1, <2>2, ConstFacts
      <3> HIDE DEF x, y
      <3>2. y <= x BY <3>1
      <3> QED BY <3>2 DEF x, y
    <2> QED BY <2>1, <2>3
  <1>8. CASE R.run[d] = {} BY <1>4, <1>5, <1>7, <1>8 DEF M
  <1>9. CASE R.run[d] # {}
    <2> DEFINE give(s) == Smaller(m, playable_frames(R, q, s, d))
               f == [s \in Streams |-> IF s \in R.run[d] THEN [R.off[s] EXCEPT ![d] = @ + give(s)]
                                       ELSE R.off[s]]
               h == [R.hw EXCEPT ![d] = @ + m]
               w == R.written + m
    <2>1. M = [Mixed(R, q, d, m) EXCEPT !.hw[d] = @ + m, !.written = @ + m] BY <1>5, <1>9
    <2>2. Mixed(R, q, d, m) = [R EXCEPT !.off = f] BY DEF Mixed
    <2>3. /\ R.hw \in [Devs -> 0..HwSize] /\ R.off \in [Streams -> [Devs -> 0..BufFrames]]
          /\ R.written \in Nat /\ R.run[d] \subseteq Streams
      BY <1>6, DevFields
    <2>4. R.hw[d] = L.hw[d] BY <1>4, <1>9 DEF Shrinks
    <2>5. L.hw[d] \in 0..HwSize BY <1>1, DevFields
    <2>6. L.hw[d] + m \in 0..HwSize BY <1>2, <2>5, ConstFacts
    <2>7. h \in [Devs -> 0..HwSize] /\ h[d] = L.hw[d] + m BY <2>3, <2>4, <2>6
    <2>8. d \in O
      <3>1. R.run[d] \subseteq R.on[d] /\ (d \notin O => R.on[d] = {}) BY <1>6 DEF DevOK
      <3> QED BY <1>9, <3>1
    <2>9. ASSUME NEW s \in Streams, s \in R.run[d]
          PROVE  /\ R.off[s][d] + give(s) \in 0..BufFrames /\ R.off[s][d] + give(s) <= q[s]
      <3>1. s \notin S
        <4>1. R.run[d] \subseteq R.on[d] BY <1>6 DEF DevOK
        <4> HIDE DEF S
        <4> QED BY <1>4, <2>8, <2>9, <4>1 DEF Off
      <3>2. s \in L.run[d] BY <1>4, <2>9 DEF Shrinks
      <3>3. L.off[s][d] \in 0..BufFrames /\ q[s] \in 0..BufFrames /\ R.off[s][d] \in 0..BufFrames
        BY <1>1, <2>3, DevFields
      <3>4. L.off[s][d] <= q[s] BY <3>1, <3>2, <3>3, ConstFacts DEF Ended, playable_frames
      <3>5. R.off[s][d] \in {0, L.off[s][d]} BY <1>4 DEF Shrinks
      <3>6. R.off[s][d] <= q[s] BY <3>3, <3>4, <3>5, ConstFacts
      <3> DEFINE x == R.off[s][d]
                 y == q[s] - x
      <3>7. y \in Nat /\ x \in Nat BY <3>3, <3>6, ConstFacts
      <3>8. give(s) = Smaller(m, y) BY DEF playable_frames
      <3>9. give(s) \in Nat /\ give(s) <= y
        <4> HIDE DEF y, give
        <4> QED BY <1>2, <3>7, <3>8, SmallerFacts
      <3> HIDE DEF give
      <3> DEFINE z == give(s)
      <3>10. z \in Nat /\ z <= y BY <3>9
      <3>11. q[s] \in 0..BufFrames /\ BufFrames \in Nat BY <3>3, ConstFacts
      <3> HIDE DEF x, z
      <3>12. x + z \in 0..BufFrames /\ x + z <= q[s] BY <3>7, <3>10, <3>11
      <3> QED BY <3>12 DEF x, z
    <2> HIDE DEF give
    <2>10. ASSUME NEW s \in Streams
           PROVE  /\ f[s] \in [Devs -> 0..BufFrames]
                  /\ \A e \in Devs : \/ f[s][e] = R.off[s][e]
                                     \/ e = d /\ s \in R.run[d] /\ f[s][e] <= q[s]
      <3>1. R.off[s] \in [Devs -> 0..BufFrames] BY <2>3
      <3>2. CASE s \notin R.run[d]
        <4>1. f[s] = R.off[s] BY <3>2
        <4> HIDE DEF f
        <4> QED BY <3>1, <4>1
      <3>3. CASE s \in R.run[d]
        <4> DEFINE z == R.off[s][d] + give(s)
        <4>1. f[s] = [R.off[s] EXCEPT ![d] = z] BY <3>3
        <4>2. z \in 0..BufFrames /\ z <= q[s] BY <2>9, <3>3
        <4> HIDE DEF z, f
        <4> QED BY <3>1, <3>3, <4>1, <4>2
      <3> QED BY <3>2, <3>3
    <2>11. f \in [Streams -> [Devs -> 0..BufFrames]]
      <3>1. DOMAIN f = Streams /\ f = [s \in Streams |-> f[s]] OBVIOUS
      <3> HIDE DEF f
      <3> QED BY <2>10, <3>1
    <2>12. w \in Nat BY <1>2, <2>3
    <2>13. M = [R EXCEPT !.off = f, !.hw = h, !.written = w]
      <3> HIDE DEF f
      <3>1. Mixed(R, q, d, m).hw = R.hw /\ Mixed(R, q, d, m).written = R.written
        BY <1>6, <2>2 DEF DevState
      <3> QED BY <2>1, <2>2, <3>1
    <2> HIDE DEF f, h, w
    <2>14. /\ M \in DevState(V) /\ M.on = R.on /\ M.run = R.run /\ M.off = f /\ M.hw = h
      BY <1>6, <2>7, <2>11, <2>12, <2>13 DEF DevState
    <2>15. ASSUME NEW e \in Devs
           PROVE  DevOK(M, e, O)
      <3>1. /\ R.run[e] \subseteq R.on[e]
            /\ e \notin O => R.on[e] = {} /\ \A s \in Streams : R.off[s][e] = 0
        BY <1>6 DEF DevOK
      <3>2. e \notin O => e # d BY <2>8
      <3>3. e \notin O => \A s \in Streams : f[s][e] = 0 BY <2>10, <3>1, <3>2
      <3> QED BY <2>14, <3>1, <3>3 DEF DevOK
    <2>16. Moves(R, M, q)
      <3> SUFFICES ASSUME NEW e \in Devs
                   PROVE  /\ M.on[e] \subseteq R.on[e] /\ M.run[e] \subseteq R.run[e]
                          /\ \A s \in Streams : M.off[s][e] <= R.off[s][e] \/ M.off[s][e] <= q[s]
        BY DEF Moves
      <3>1. \A s \in Streams : R.off[s][e] \in 0..BufFrames BY <2>3
      <3>2. \A s \in Streams : f[s][e] <= R.off[s][e] \/ f[s][e] <= q[s]
        BY <2>10, <3>1, ConstFacts
      <3> QED BY <2>14, <3>2
    <2>17. Moves(L, M, q) BY <1>1, <1>6, <1>7, <2>14, <2>16, MovesTrans
    <2>18. DevsOK(M, V, O) BY <2>14, <2>15 DEF DevsOK
    <2>19. M.hw[d] = L.hw[d] + m BY <2>7, <2>14
    <2> QED BY <2>17, <2>18, <2>19 DEF M, m
  <1> QED BY <1>8, <1>9

\* write_output_samples, in one round or two.
LEMMA WritesOK ==
  ASSUME open \in Seq(Devs), NEW V \in SUBSET Streams, NEW L, DevsOK(L, V, Range(open)),
         NEW d \in Devs, NEW q \in [Streams -> 0..BufFrames], NEW M \in Writes(L, q, d)
  PROVE  DevsOK(M, V, Range(open)) /\ Moves(L, M, q)
  <1> DEFINE room == HwSize - L.hw[d]
             One(n) == Round(L, q, d, n)
             full(n) == get_write_limit(L, q, d, n) = n /\ One(n).run[d] # {}
  <1>1. L \in DevState(V) BY DEF DevsOK
  <1>2. L.hw[d] \in 0..HwSize /\ HwSize \in Nat BY <1>1, DevFields, ConstFacts
  <1>3. M = L \/ \E n \in 1..room : M = IF full(n) /\ n < room THEN Round(One(n), q, d, room - n)
                                        ELSE One(n)
    BY DEF Writes
  <1>4. CASE M = L
    <2>1. Moves(L, L, q)
      <3>1. \A e \in Devs : \A s \in Streams : L.off[s][e] \in Int BY <1>1, DevFields, ConstFacts
      <3> QED BY <3>1 DEF Moves
    <2> QED BY <1>4, <2>1
  <1>5. ASSUME NEW n \in 1..room,
               M = IF full(n) /\ n < room THEN Round(One(n), q, d, room - n) ELSE One(n)
        PROVE  DevsOK(M, V, Range(open)) /\ Moves(L, M, q)
    <2> DEFINE A == One(n)
    <2>1. n \in Nat /\ L.hw[d] + n <= HwSize BY <1>2
    <2>2. /\ DevsOK(A, V, Range(open)) /\ Moves(L, A, q)
          /\ A.run[d] # {} => A.hw[d] = L.hw[d] + get_write_limit(L, q, d, n)
      BY <2>1, RoundOK
    <2>3. CASE ~(full(n) /\ n < room) BY <1>5, <2>2, <2>3
    <2>4. CASE full(n) /\ n < room
      <3>1. A.hw[d] = L.hw[d] + n /\ M = Round(A, q, d, room - n) BY <1>5, <2>2, <2>4
      <3> HIDE DEF A, One, full
      <3>2. room - n \in Nat /\ A.hw[d] + (room - n) <= HwSize BY <1>2, <2>1, <2>4, <3>1
      <3>3. DevsOK(M, V, Range(open)) /\ Moves(A, M, q) BY <2>2, <3>1, <3>2, RoundOK
      <3>4. A \in DevState(V) /\ M \in DevState(V) BY <2>2, <3>3 DEF DevsOK
      <3>5. Moves(L, M, q) BY <1>1, <2>2, <3>3, <3>4, MovesTrans
      <3> QED BY <3>3, <3>5
    <2> QED BY <2>3, <2>4
  <1> QED BY <1>3, <1>4, <1>5

-----------------------------------------------------------------------------
(* Streams are attached to devices.                                        *)

\* More streams and more devices may be there.
LEMMA MoreAllowed ==
  ASSUME NEW V, NEW O, NEW L, DevsOK(L, V, O), NEW W, V \subseteq W, NEW P, O \subseteq P
  PROVE  DevsOK(L, W, P)
  <1>1. L \in DevState(V) /\ \A d \in Devs : DevOK(L, d, O) BY DEF DevsOK
  <1>2. \A d \in Devs : DevOK(L, d, P) BY <1>1 DEF DevOK
  <1>3. L \in DevState(W)
    <2>1. L.on \in [Devs -> SUBSET V] /\ L.run \in [Devs -> SUBSET V] BY <1>1, DevFields
    <2>2. L.on \in [Devs -> SUBSET W] /\ L.run \in [Devs -> SUBSET W] BY <2>1
    <2> QED BY <1>1, <2>2 DEF DevState
  <1> QED BY <1>2, <1>3 DEF DevsOK

\* dev_io_append_stream keeps the devices in order.
LEMMA AppendOK ==
  ASSUME NEW V \in SUBSET Streams, NEW O, NEW L, DevsOK(L, V, O),
         NEW J \in SUBSET V, NEW D \in SUBSET Devs, D \subseteq O
  PROVE  LET M == dev_io_append_stream(L, J, D)
         IN /\ DevsOK(M, V, O)
            /\ \A s \in Streams : \A d \in Devs : M.off[s][d] \in {0, L.off[s][d]}
  <1> DEFINE M == dev_io_append_stream(L, J, D)
             o == [d \in Devs |-> IF d \in D THEN L.on[d] \cup J ELSE L.on[d]]
             f == [s \in Streams |-> [d \in Devs |-> IF s \in J /\ d \in D THEN 0
                                                     ELSE L.off[s][d]]]
             u == [s \in Streams |-> IF s \in J /\ D # {} THEN Att(L, s) # {} \/ Cardinality(D) > 1
                                     ELSE L.due[s]]
  <1>1. M = [L EXCEPT !.on = o, !.off = f, !.due = u] BY DEF dev_io_append_stream
  <1>2. L \in DevState(V) /\ \A d \in Devs : DevOK(L, d, O) BY DEF DevsOK
  <1>3. /\ L.on \in [Devs -> SUBSET V] /\ L.off \in [Streams -> [Devs -> 0..BufFrames]]
        /\ L.due \in [Streams -> BOOLEAN]
    BY <1>2, DevFields
  <1>4. o \in [Devs -> SUBSET V] BY <1>3
  <1>5. f \in [Streams -> [Devs -> 0..BufFrames]] BY <1>3, ConstFacts
  <1>6. u \in [Streams -> BOOLEAN]
    <2>1. ASSUME NEW s \in Streams
          PROVE  (IF s \in J /\ D # {} THEN Att(L, s) # {} \/ Cardinality(D) > 1
                  ELSE L.due[s]) \in BOOLEAN
      BY <1>3
    <2> QED BY <2>1
  <1>7. \A s \in Streams : \A d \in Devs :
          f[s][d] \in {0, L.off[s][d]} /\ (d \notin D => f[s][d] = L.off[s][d])
    OBVIOUS
  <1>8. \A d \in Devs : L.on[d] \subseteq o[d] /\ (d \notin D => o[d] = L.on[d]) OBVIOUS
  <1> HIDE DEF o, f, u, M
  <1>9. M \in DevState(V) /\ M.on = o /\ M.run = L.run /\ M.off = f
    BY <1>1, <1>2, <1>4, <1>5, <1>6 DEF DevState
  <1>10. ASSUME NEW d \in Devs PROVE DevOK(M, d, O)
    <2>1. DevOK(L, d, O) BY <1>2
    <2>2. M.run[d] \subseteq M.on[d] BY <1>8, <1>9, <2>1 DEF DevOK
    <2>3. ASSUME d \notin O PROVE M.on[d] = {} /\ \A s \in Streams : M.off[s][d] = 0
      BY <1>7, <1>8, <1>9, <2>1, <2>3 DEF DevOK
    <2> QED BY <2>2, <2>3 DEF DevOK
  <1>11. DevsOK(M, V, O) BY <1>9, <1>10 DEF DevsOK
  <1>12. \A s \in Streams : \A d \in Devs : M.off[s][d] \in {0, L.off[s][d]} BY <1>7, <1>9
  <1> QED BY <1>11, <1>12 DEF M

\* A device is opened; it has no streams yet.
LEMMA OpenedOK ==
  ASSUME NEW V \in SUBSET Streams, NEW O, DevsOK(Lists, V, O), NEW d \in Devs,
         NEW t \in Streams
  PROVE  DevsOK(Opened(d, t), V, O) /\ Opened(d, t).off = off
  <1> DEFINE M == Opened(d, t)
             st == IF d \in CanStart THEN "open" ELSE "nostream"
             n == IF st = "open" THEN 0 ELSE Smaller(HwSize \div 2, Cb[t])
             ss == [state EXCEPT ![d] = st]
             h == [hw EXCEPT ![d] = n]
  <1>1. M = [Lists EXCEPT !.state = ss, !.hw = h] BY ListsFields DEF Opened
  <1>2. st \in DevStates BY DEF DevStates
  <1>3. n \in 0..HwSize
    <2> DEFINE half == HwSize \div 2
    <2>1. HwSize \in Nat /\ Cb[t] \in Nat BY ConstFacts
    <2>2. half \in 0..HwSize BY <2>1
    <2> HIDE DEF half
    <2>3. Smaller(half, Cb[t]) \in 0..HwSize BY <2>1, <2>2, SmallerFacts
    <2> QED BY <2>1, <2>3 DEF half
  <1>4. Lists \in DevState(V) BY DEF DevsOK
  <1>5. state \in [Devs -> DevStates] /\ hw \in [Devs -> 0..HwSize]
    BY <1>4, ListsFields, DevFields
  <1> HIDE DEF st, n
  <1>6. ss \in [Devs -> DevStates] /\ h \in [Devs -> 0..HwSize] BY <1>2, <1>3, <1>5
  <1> HIDE DEF ss, h, M
  <1>7. M \in DevState(V) /\ M.on = Lists.on /\ M.run = Lists.run /\ M.off = Lists.off
    BY <1>1, <1>4, <1>6 DEF DevState, DevStates
  <1>8. DevsOK(M, V, O) BY <1>7, SameStreams
  <1> QED BY <1>7, <1>8, ListsFields DEF M

-----------------------------------------------------------------------------
(* The parts of the invariant after a step.                                *)

\* The devices after a step.
LEMMA BecomesOK ==
  ASSUME NEW V, NEW O, NEW L, DevsOK(L, V, O),
         state' = L.state, hw' = L.hw, on' = L.on, run' = L.run, off' = L.off, due' = L.due
  PROVE  DevsOK(Lists', V, O)
  <1>1. L \in DevState(V) /\ \A d \in Devs : DevOK(L, d, O) BY DEF DevsOK
  <1>2. /\ state' \in [Devs -> DevStates] /\ hw' \in [Devs -> 0..HwSize]
        /\ on' \in [Devs -> SUBSET V] /\ run' \in [Devs -> SUBSET V]
        /\ off' \in [Streams -> [Devs -> 0..BufFrames]] /\ due' \in [Streams -> BOOLEAN]
    BY <1>1, DevFields
  <1>3. Lists' \in DevState(V) BY <1>2 DEF Lists, DevState, DevStates
  <1>4. \A d \in Devs : DevOK(Lists', d, O) BY <1>1, ListsPrime DEF DevOK
  <1> QED BY <1>3, <1>4 DEF DevsOK

\* The invariant of the devices.
LEMMA DeviceFacts ==
  ASSUME IInv
  PROVE  /\ open \in Seq(Devs) /\ IsInjective(open) /\ Range(open) \in SUBSET Devs
         /\ live \cup drain \in SUBSET Streams
         /\ DevsOK(Lists, live \cup drain, Range(open))
         /\ state \in [Devs -> DevStates] /\ hw \in [Devs -> 0..HwSize]
         /\ on \in [Devs -> SUBSET (live \cup drain)] /\ run \in [Devs -> SUBSET (live \cup drain)]
         /\ off \in [Streams -> [Devs -> 0..BufFrames]] /\ due \in [Streams -> BOOLEAN]
         /\ \A d \in Devs : run[d] \subseteq on[d]
         /\ \A d \in Devs : d \notin Range(open) =>
              on[d] = {} /\ \A s \in Streams : off[s][d] = 0
  <1>1. /\ open \in Seq(Devs) /\ IsInjective(open) /\ live \cup drain \in SUBSET Streams
        /\ DevsOK(Lists, live \cup drain, Range(open))
    BY DEF IInv
  <1>2. Range(open) \in SUBSET Devs BY <1>1 DEF Range
  <1>3. Lists \in DevState(live \cup drain) /\ \A d \in Devs : DevOK(Lists, d, Range(open))
    BY <1>1 DEF DevsOK
  <1>4. /\ state \in [Devs -> DevStates] /\ hw \in [Devs -> 0..HwSize]
        /\ on \in [Devs -> SUBSET (live \cup drain)] /\ run \in [Devs -> SUBSET (live \cup drain)]
        /\ off \in [Streams -> [Devs -> 0..BufFrames]] /\ due \in [Streams -> BOOLEAN]
    BY <1>3, ListsFields, DevFields
  <1>5. \A d \in Devs : /\ run[d] \subseteq on[d]
                        /\ d \notin Range(open) => on[d] = {} /\ \A s \in Streams : off[s][d] = 0
    BY <1>3, ListsFields DEF DevOK
  <1> QED BY <1>1, <1>2, <1>4, <1>5

\* The invariant of one stream.
LEMMA StreamFacts ==
  ASSUME IInv, NEW s \in Streams
  PROVE  /\ StreamOK(s, shm[s], client[s], frames[s], req[s], rep[s], off[s], queued[s])
         /\ \A d \in Devs : off[s][d] \in Nat /\ off[s][d] <= cras_shm_get_frames(shm[s])
         /\ cras_shm_get_frames(shm[s]) \in Nat
  <1>1. StreamOK(s, shm[s], client[s], frames[s], req[s], rep[s], off[s], queued[s])
    BY DEF IInv
  <1>2. \A d \in Devs : off[s][d] \in Nat BY DeviceFacts, ConstFacts
  <1>3. cras_shm_get_frames(shm[s]) \in Nat BY <1>1, StreamFrames
  <1> QED BY <1>1, <1>2, <1>3 DEF StreamOK

\* A stream whose offsets do not grow.
LEMMA OffsetsShrink ==
  ASSUME IInv, NEW s \in Streams, NEW o, \A d \in Devs : o[d] \in {0, off[s][d]}
  PROVE  StreamOK(s, shm[s], client[s], frames[s], req[s], rep[s], o, queued[s])
  <1>1. StreamOK(s, shm[s], client[s], frames[s], req[s], rep[s], off[s], queued[s])
    BY StreamFacts
  <1>2. queued[s] \in 0..BufFrames /\ queued[s] <= cras_shm_get_frames(shm[s])
    BY <1>1 DEF StreamOK
  <1>3. \A d \in Devs : o[d] <= cras_shm_get_frames(shm[s]) BY StreamFacts
  <1> QED BY <1>1, <1>2, <1>3, OffsetsOK

\* Between two runs of the audio thread.
LEMMA IdleStep ==
  ASSUME IInv, pass' = Idle, hist' = hist
  PROVE  PassOK' /\ HistOK'
  <1>1. pass'.phase = "idle" /\ pass'.todo = <<>> BY DEF Idle
  <1>2. PassOK' BY <1>1 DEF PassOK, Idle
  <1>3. TailsQueued' BY <1>1 DEF TailsQueued
  <1>4. HistOK BY DEF IInv
  <1> QED BY <1>2, <1>3, <1>4 DEF HistOK

\* A step in which only devices, offsets and the lists change.
LEMMA ListStep ==
  ASSUME IInv, pass = Idle, pass' = pass, hist' = hist,
         open' \in Seq(Devs), IsInjective(open'), live' \subseteq Streams, drain' = drain,
         UNCHANGED <<shm, queued, frames, clientVars>>,
         DevsOK(Lists', live' \cup drain', Range(open')),
         \A s \in Streams : \A d \in Devs : off'[s][d] \in {0, off[s][d]},
         budget' \in Budget
  PROVE  IInv'
  <1>1. PassOK' /\ HistOK' BY IdleStep
  <1>2. /\ shm' = shm /\ queued' = queued /\ frames' = frames /\ client' = client
        /\ req' = req /\ rep' = rep
    BY DEF clientVars
  <1>3. StreamFuns' BY <1>2 DEF IInv, StreamFuns
  <1>4. ASSUME NEW s \in Streams
        PROVE  StreamOK(s, shm'[s], client'[s], frames'[s], req'[s], rep'[s], off'[s], queued'[s])
    <2> DEFINE o == off'[s]
    <2>1. \A d \in Devs : o[d] \in {0, off[s][d]} OBVIOUS
    <2> HIDE DEF o
    <2>2. StreamOK(s, shm[s], client[s], frames[s], req[s], rep[s], o, queued[s])
      BY <2>1, OffsetsShrink
    <2> QED BY <1>2, <2>2 DEF o
  <1>5. drain' \subseteq Streams BY DEF IInv
  <1> QED BY <1>1, <1>3, <1>4, <1>5 DEF IInv

\* The budgets stay natural numbers.
LEMMA BudgetFacts ==
  ASSUME budget \in Budget
  PROVE  /\ \A s \in Streams : budget.adds[s] > 0 => [budget EXCEPT !.adds[s] = @ - 1] \in Budget
         /\ budget.opens > 0 => [budget EXCEPT !.opens = @ - 1] \in Budget
         /\ budget.leaves > 0 => [budget EXCEPT !.leaves = @ - 1] \in Budget
         /\ budget.deaths > 0 => [budget EXCEPT !.deaths = @ - 1] \in Budget
  <1>1. ASSUME NEW s \in Streams, budget.adds[s] > 0
        PROVE  [budget EXCEPT !.adds[s] = @ - 1] \in Budget
    <2> DEFINE a == [budget.adds EXCEPT ![s] = @ - 1]
    <2>1. budget.adds \in [Streams -> Nat] BY DEF Budget
    <2>2. budget.adds[s] - 1 \in Nat BY <1>1, <2>1
    <2>3. a \in [Streams -> Nat] BY <2>1, <2>2
    <2>4. [budget EXCEPT !.adds[s] = @ - 1] = [budget EXCEPT !.adds = a] OBVIOUS
    <2> HIDE DEF a
    <2> QED BY <2>3, <2>4 DEF Budget
  <1>2. budget.opens \in Nat /\ budget.leaves \in Nat /\ budget.deaths \in Nat BY DEF Budget
  <1>3. ASSUME budget.opens > 0 PROVE [budget EXCEPT !.opens = @ - 1] \in Budget
    <2>1. budget.opens - 1 \in Nat BY <1>2, <1>3
    <2> QED BY <2>1 DEF Budget
  <1>4. ASSUME budget.leaves > 0 PROVE [budget EXCEPT !.leaves = @ - 1] \in Budget
    <2>1. budget.leaves - 1 \in Nat BY <1>2, <1>4
    <2> QED BY <2>1 DEF Budget
  <1>5. ASSUME budget.deaths > 0 PROVE [budget EXCEPT !.deaths = @ - 1] \in Budget
    <2>1. budget.deaths - 1 \in Nat BY <1>2, <1>5
    <2> QED BY <2>1 DEF Budget
  <1> QED BY <1>1, <1>3, <1>4, <1>5

-----------------------------------------------------------------------------
(* Every step keeps the invariant: streams and devices come and go.        *)

\* A stream is taken off all devices, and its next_cb_ts is forgotten.
LEMMA TakenOff ==
  ASSUME open \in Seq(Devs), NEW V \in SUBSET Streams, NEW L, DevsOK(L, V, Range(open)),
         NEW s \in Streams
  PROVE  LET N == [dev_io_remove_stream(L, s) EXCEPT !.due[s] = FALSE]
         IN /\ DevsOK(N, V \ {s}, Range(open))
            /\ \A d \in Devs : N.off[s][d] = 0
            /\ \A t \in Streams : \A d \in Devs : N.off[t][d] \in {0, L.off[t][d]}
  <1> DEFINE W == V \ {s}
             O == Range(open)
             M == dev_io_remove_stream(L, s)
             no == FALSE
             u == [M.due EXCEPT ![s] = no]
             N == [M EXCEPT !.due = u]
  <1>1. [dev_io_remove_stream(L, s) EXCEPT !.due[s] = FALSE] = N OBVIOUS
  <1>2. DevsOK(M, V, O) /\ Shrinks(L, M) /\ \A d \in O : Off(M, s, d) BY RemoveStreamOK
  <1>4. no \in BOOLEAN OBVIOUS
  <1> HIDE DEF M, no, O
  <1>5. M \in DevState(V) /\ \A d \in Devs : DevOK(M, d, O) BY <1>2 DEF DevsOK
  <1>6. ASSUME NEW d \in Devs
        PROVE  s \notin M.on[d] /\ s \notin M.run[d] /\ M.off[s][d] = 0
    <2>1. DevOK(M, d, O) BY <1>5
    <2>2. CASE d \in O BY <1>2, <2>1, <2>2 DEF Off, DevOK
    <2>3. CASE d \notin O BY <2>1, <2>3 DEF DevOK
    <2> QED BY <2>2, <2>3
  <1>7. M.on \in [Devs -> SUBSET W] /\ M.run \in [Devs -> SUBSET W]
    <2>1. M.on \in [Devs -> SUBSET V] /\ M.run \in [Devs -> SUBSET V] BY <1>5, DevFields
    <2> QED BY <1>6, <2>1
  <1>8. u \in [Streams -> BOOLEAN]
    <2>1. M.due \in [Streams -> BOOLEAN] BY <1>5, DevFields
    <2> QED BY <1>4, <2>1
  <1> HIDE DEF u, N, W
  <1>9. N \in DevState(W) /\ N.on = M.on /\ N.run = M.run /\ N.off = M.off
    BY <1>5, <1>7, <1>8 DEF DevState, N
  <1>10. \A d \in Devs : DevOK(N, d, O) BY <1>5, <1>9 DEF DevOK
  <1>11. DevsOK(N, W, O) BY <1>9, <1>10 DEF DevsOK
  <1>12. \A d \in Devs : N.off[s][d] = 0 BY <1>6, <1>9
  <1>13. \A t \in Streams : \A d \in Devs : N.off[t][d] \in {0, L.off[t][d]}
    BY <1>2, <1>9 DEF Shrinks
  <1> QED BY <1>1, <1>11, <1>12, <1>13 DEF W, O

\* AddStream: the new stream has the state of a fresh one; when it cannot be
\* attached everywhere, nothing of it is left.
LEMMA AddStreamStep ==
  ASSUME IInv, NEW s \in Streams, AddStream(s)
  PROVE  IInv'
  <1> DEFINE D == Route[s] \cap Range(open)
             J == {s}
             V == (live \cup {s}) \cup drain
             L == Lists
  <1>1. /\ pass = Idle /\ pass' = pass /\ hist' = hist /\ budget.adds[s] > 0
        /\ s \notin live \cup drain
        /\ budget' = [budget EXCEPT !.adds[s] = @ - 1] /\ open' = open /\ drain' = drain
        /\ UNCHANGED <<shm, queued, frames, clientVars>>
    BY DEF AddStream
  <1>2. /\ open \in Seq(Devs) /\ IsInjective(open) /\ Range(open) \in SUBSET Devs
        /\ live \cup drain \in SUBSET Streams /\ DevsOK(Lists, live \cup drain, Range(open))
    BY DeviceFacts
  <1>3. V \in SUBSET Streams /\ live \cup drain \subseteq V /\ J \in SUBSET V BY <1>1, <1>2
  <1>4. DevsOK(L, V, Range(open))
    <2> HIDE DEF V
    <2> QED BY <1>2, <1>3, MoreAllowed
  <1>5. ASSUME NEW E, E \subseteq D
        PROVE  LET M == dev_io_append_stream(L, J, E)
               IN /\ DevsOK(M, V, Range(open))
                  /\ \A t \in Streams : \A d \in Devs : M.off[t][d] \in {0, L.off[t][d]}
    <2> DEFINE O == Range(open)
               G == E
    <2>1. G \in SUBSET Devs /\ G \subseteq O BY <1>2, <1>5
    <2>2. DevsOK(L, V, O) BY <1>4
    <2> DEFINE M == dev_io_append_stream(L, J, G)
    <2> HIDE DEF D, J, V, L, O, G
    <2>3. /\ DevsOK(M, V, O)
          /\ \A t \in Streams : \A d \in Devs : M.off[t][d] \in {0, L.off[t][d]}
      BY <1>3, <2>1, <2>2, AppendOK
    <2> QED BY <2>3 DEF O, G
  <1>6. ASSUME NEW M, NEW W, DevsOK(M, W, Range(open)), W = live' \cup drain', Becomes(M),
               live' \subseteq Streams,
               \A t \in Streams : \A d \in Devs : M.off[t][d] \in {0, off[t][d]}
        PROVE  IInv'
    <2>1. /\ state' = M.state /\ hw' = M.hw /\ on' = M.on /\ run' = M.run /\ off' = M.off
          /\ due' = M.due
      BY <1>6 DEF Becomes
    <2>2. DevsOK(Lists', W, Range(open)) BY <1>6, <2>1, BecomesOK
    <2>3. \A t \in Streams : \A d \in Devs : off'[t][d] \in {0, off[t][d]} BY <1>6, <2>1
    <2>4. budget' \in Budget BY <1>1, BudgetFacts DEF IInv
    <2>5. DevsOK(Lists', live' \cup drain', Range(open')) BY <1>1, <1>6, <2>2
    <2>6. open' \in Seq(Devs) /\ IsInjective(open') BY <1>1, <1>2
    <2> QED BY <1>1, <1>6, <2>3, <2>4, <2>5, <2>6, ListStep
  <1>7. CASE live' = live \cup {s} /\ Becomes(dev_io_append_stream(L, J, D))
    <2> DEFINE M == dev_io_append_stream(L, J, D)
    <2>1. /\ DevsOK(M, V, Range(open))
          /\ \A t \in Streams : \A d \in Devs : M.off[t][d] \in {0, L.off[t][d]}
      BY <1>5
    <2>2. \A t \in Streams : \A d \in Devs : M.off[t][d] \in {0, off[t][d]} BY <2>1, ListsFields
    <2>3. V = live' \cup drain' /\ live' \subseteq Streams BY <1>1, <1>2, <1>7
    <2>4. Becomes(M) BY <1>7
    <2> HIDE DEF M, V
    <2> QED BY <1>6, <2>1, <2>2, <2>3, <2>4
  <1>8. ASSUME NEW E \in SUBSET D, live' = live,
               Becomes([dev_io_remove_stream(dev_io_append_stream(L, J, E), s)
                          EXCEPT !.due[s] = FALSE])
        PROVE  IInv'
    <2> DEFINE M == dev_io_append_stream(L, J, E)
               N == [dev_io_remove_stream(M, s) EXCEPT !.due[s] = FALSE]
               W == V \ {s}
    <2>1. /\ DevsOK(M, V, Range(open))
          /\ \A t \in Streams : \A d \in Devs : M.off[t][d] \in {0, L.off[t][d]}
      BY <1>5
    <2>2. Becomes(N) BY <1>8
    <2>3. W = live' \cup drain' /\ live' \subseteq Streams BY <1>1, <1>2, <1>8
    <2> HIDE DEF M, V
    <2>4. /\ DevsOK(N, W, Range(open))
          /\ \A t \in Streams : \A d \in Devs : N.off[t][d] \in {0, M.off[t][d]}
      BY <1>2, <1>3, <2>1, TakenOff
    <2> HIDE DEF N, W
    <2>5. \A t \in Streams : \A d \in Devs : N.off[t][d] \in {0, off[t][d]}
      BY <2>1, <2>4, ListsFields
    <2> QED BY <1>6, <2>2, <2>3, <2>4, <2>5
  <1> QED BY <1>7, <1>8 DEF AddStream

\* The streams that init_and_attach_streams has attached after k of the list.
LEMMA AttachedOK ==
  ASSUME IInv, NEW d \in Devs, NEW t \in Streams, NEW k
  PROVE  LET M == Attached(d, t, k)
         IN /\ DevsOK(M, live \cup drain, Range(open) \cup {d})
            /\ \A s \in Streams : \A e \in Devs : M.off[s][e] \in {0, off[s][e]}
  <1> DEFINE V == live \cup drain
             O == Range(open) \cup {d}
             J == {s \in Streams : \E i \in 1..k : Order[i] = s /\ Joins(s, d)}
             D == {d}
             N == Opened(d, t)
             M == dev_io_append_stream(N, J, D)
  <1>1. Attached(d, t, k) = M BY DEF Attached
  <1>2. V \in SUBSET Streams /\ DevsOK(Lists, V, Range(open)) BY DeviceFacts
  <1>3. DevsOK(N, V, Range(open)) /\ N.off = off
    <2> HIDE DEF V
    <2> QED BY <1>2, OpenedOK
  <1>4. J \in SUBSET V BY DEF Joins
  <1>5. D \in SUBSET Devs /\ D \subseteq O /\ Range(open) \subseteq O /\ V \subseteq V OBVIOUS
  <1> HIDE DEF V, O, J, D, N
  <1>6. DevsOK(N, V, O) BY <1>3, <1>5, MoreAllowed
  <1>7. /\ DevsOK(M, V, O)
        /\ \A s \in Streams : \A e \in Devs : M.off[s][e] \in {0, N.off[s][e]}
    BY <1>2, <1>4, <1>5, <1>6, AppendOK
  <1> HIDE DEF M
  <1> QED BY <1>1, <1>3, <1>7 DEF V, O

\* init_and_attach_streams, also when a stream cannot be attached.
LEMMA OpenDevStep ==
  ASSUME IInv, NEW d \in Devs, OpenDev(d)
  PROVE  IInv'
  <1> DEFINE V == live \cup drain
             O == Range(open) \cup {d}
             n == Append(open, d)
  <1>1. /\ pass = Idle /\ pass' = pass /\ hist' = hist /\ d \notin Range(open)
        /\ budget.opens > 0 /\ budget' = [budget EXCEPT !.opens = @ - 1]
        /\ open' = n /\ drain' = drain /\ live' = live
        /\ UNCHANGED <<shm, queued, frames, clientVars>>
    BY DEF OpenDev
  <1>2. open \in Seq(Devs) /\ IsInjective(open) /\ V \in SUBSET Streams BY DeviceFacts
  <1>3. n \in Seq(Devs) /\ IsInjective(n) /\ Range(n) = O BY <1>1, <1>2, AppendRange
  <1>4. ASSUME NEW M, DevsOK(M, V, O), Becomes(M),
               \A t \in Streams : \A e \in Devs : M.off[t][e] \in {0, off[t][e]}
        PROVE  IInv'
    <2>1. /\ state' = M.state /\ hw' = M.hw /\ on' = M.on /\ run' = M.run /\ off' = M.off
          /\ due' = M.due
      BY <1>4 DEF Becomes
    <2>2. DevsOK(Lists', V, O)
      <3> HIDE DEF V, O
      <3> QED BY <1>4, <2>1, BecomesOK
    <2>3. \A t \in Streams : \A e \in Devs : off'[t][e] \in {0, off[t][e]} BY <1>4, <2>1
    <2>4. budget' \in Budget BY <1>1, BudgetFacts DEF IInv
    <2>5. DevsOK(Lists', live' \cup drain', Range(open')) BY <1>1, <1>3, <2>2
    <2>6. live' \subseteq Streams /\ open' \in Seq(Devs) /\ IsInjective(open') BY <1>1, <1>2, <1>3
    <2> QED BY <1>1, <2>3, <2>4, <2>5, <2>6, ListStep
  <1>7. PICK t \in Streams :
          \/ Becomes(Attached(d, t, Len(Order)))
          \/ \E k \in DOMAIN Order : Becomes(dev_io_remove_stream(Attached(d, t, k - 1), Order[k]))
    BY DEF OpenDev
  <1>5. CASE Becomes(Attached(d, t, Len(Order)))
    <2> DEFINE M == Attached(d, t, Len(Order))
    <2>1. /\ DevsOK(M, V, O)
          /\ \A u \in Streams : \A e \in Devs : M.off[u][e] \in {0, off[u][e]}
      BY AttachedOK
    <2>2. Becomes(M) BY <1>5
    <2> HIDE DEF M, V, O
    <2> QED BY <1>4, <2>1, <2>2
  <1>6. ASSUME NEW k \in DOMAIN Order,
               Becomes(dev_io_remove_stream(Attached(d, t, k - 1), Order[k]))
        PROVE  IInv'
    <2> DEFINE s == Order[k]
               A == Attached(d, t, k - 1)
               M == dev_io_remove_stream(A, s)
    <2>1. s \in Streams BY ConstFacts
    <2>2. /\ DevsOK(A, V, O)
          /\ \A u \in Streams : \A e \in Devs : A.off[u][e] \in {0, off[u][e]}
      BY AttachedOK
    <2>3. Becomes(M) BY <1>6
    <2> HIDE DEF A, s, V, O
    <2>4. DevsOK(M, V, O) /\ Shrinks(A, M) BY <1>2, <2>1, <2>2, RemoveStreamOK
    <2> HIDE DEF M
    <2>5. \A u \in Streams : \A e \in Devs : M.off[u][e] \in {0, off[u][e]}
      BY <2>2, <2>4 DEF Shrinks
    <2> QED BY <1>4, <2>3, <2>4, <2>5
  <1> QED BY <1>5, <1>6, <1>7

\* dev_io_rm_open_dev
LEMMA CloseDevStep ==
  ASSUME IInv, NEW d \in Devs, dev_io_rm_open_dev(d)
  PROVE  IInv'
  <1> DEFINE V == live \cup drain
             O == Range(open) \ {d}
             n == Without(open, d)
             cl == "closed"
             e == {}
  <1>1. /\ pass = Idle /\ pass' = pass /\ hist' = hist /\ d \in Range(open)
        /\ budget.leaves > 0 /\ budget' = [budget EXCEPT !.leaves = @ - 1]
        /\ open' = n /\ drain' = drain /\ live' = live
        /\ UNCHANGED <<shm, queued, frames, clientVars>>
        /\ state' = [state EXCEPT ![d] = cl] /\ hw' = [hw EXCEPT ![d] = 0]
        /\ on' = [on EXCEPT ![d] = e] /\ run' = [run EXCEPT ![d] = e]
        /\ off' = [s \in Streams |-> [off[s] EXCEPT ![d] = 0]]
    BY DEF dev_io_rm_open_dev
  <1>2. PICK A \in SUBSET (on[d] \ run[d]) :
          due' = [s \in Streams |-> IF s \in A THEN \E u \in run[d] : due[u] ELSE due[s]]
    BY DEF dev_io_rm_open_dev
  <1>3. /\ open \in Seq(Devs) /\ IsInjective(open) /\ V \in SUBSET Streams
        /\ state \in [Devs -> DevStates] /\ hw \in [Devs -> 0..HwSize]
        /\ on \in [Devs -> SUBSET V] /\ run \in [Devs -> SUBSET V]
        /\ off \in [Streams -> [Devs -> 0..BufFrames]] /\ due \in [Streams -> BOOLEAN]
        /\ \A f \in Devs : run[f] \subseteq on[f]
        /\ \A f \in Devs : f \notin Range(open) => on[f] = {} /\ \A s \in Streams : off[s][f] = 0
    BY DeviceFacts
  <1>4. n \in Seq(Devs) /\ IsInjective(n) /\ Range(n) = O BY <1>1, <1>3, RemoveMember DEF Without
  <1>5. cl \in DevStates /\ e \in SUBSET V /\ e = {} BY DEF DevStates
  <1>6. 0 \in 0..HwSize /\ 0 \in 0..BufFrames BY ConstFacts
  <1> HIDE DEF V, cl, e, n
  <1>7. state' \in [Devs -> DevStates] /\ hw' \in [Devs -> 0..HwSize] BY <1>1, <1>3, <1>5, <1>6
  <1>8. /\ on' \in [Devs -> SUBSET V] /\ run' \in [Devs -> SUBSET V]
        /\ on'[d] = {} /\ run'[d] = {}
        /\ \A f \in Devs : f # d => on'[f] = on[f] /\ run'[f] = run[f]
    BY <1>1, <1>3, <1>5
  <1>9. /\ off' \in [Streams -> [Devs -> 0..BufFrames]]
        /\ \A s \in Streams : \A f \in Devs : off'[s][f] = IF f = d THEN 0 ELSE off[s][f]
    BY <1>1, <1>3, <1>6
  <1>10. due' \in [Streams -> BOOLEAN]
    <2>1. ASSUME NEW s \in Streams
          PROVE  (IF s \in A THEN \E u \in run[d] : due[u] ELSE due[s]) \in BOOLEAN
      BY <1>3
    <2> QED BY <1>2, <2>1
  <1>11. Lists' \in DevState(V) BY <1>7, <1>8, <1>9, <1>10 DEF Lists, DevState, DevStates
  <1>12. ASSUME NEW f \in Devs PROVE DevOK(Lists', f, O)
    <2>1. CASE f = d BY <1>8, <1>9, <2>1, ListsPrime DEF DevOK
    <2>2. CASE f # d
      <3>1. on'[f] = on[f] /\ run'[f] = run[f] /\ \A s \in Streams : off'[s][f] = off[s][f]
        BY <1>8, <1>9, <2>2
      <3>2. f \notin O => f \notin Range(open) BY <2>2
      <3> HIDE DEF O
      <3> QED BY <1>3, <3>1, <3>2, ListsPrime DEF DevOK
    <2> QED BY <2>1, <2>2
  <1>13. DevsOK(Lists', V, O) BY <1>11, <1>12 DEF DevsOK
  <1>14. \A s \in Streams : \A f \in Devs : off'[s][f] \in {0, off[s][f]} BY <1>9
  <1>15. budget' \in Budget BY <1>1, BudgetFacts DEF IInv
  <1>16. DevsOK(Lists', live' \cup drain', Range(open')) BY <1>1, <1>4, <1>13 DEF V
  <1>17. live' \subseteq Streams /\ open' \in Seq(Devs) /\ IsInjective(open')
    BY <1>1, <1>3, <1>4 DEF V
  <1> QED BY <1>1, <1>14, <1>15, <1>16, <1>17, ListStep

\* A device plays a frame.
LEMMA PlayStep ==
  ASSUME IInv, NEW d \in Devs, Play(d)
  PROVE  IInv'
  <1>1. /\ pass = Idle /\ hw[d] > 0 /\ hw' = [hw EXCEPT ![d] = @ - 1]
        /\ open' = open /\ live' = live /\ budget' = budget
        /\ state' = state /\ on' = on /\ run' = run /\ off' = off /\ due' = due
        /\ drain' = drain /\ pass' = pass /\ hist' = hist
        /\ UNCHANGED <<shm, queued, frames, clientVars>>
    BY DEF Play, listVars
  <1>2. /\ open \in Seq(Devs) /\ IsInjective(open) /\ live \subseteq Streams
        /\ budget \in Budget /\ off \in [Streams -> [Devs -> 0..BufFrames]]
        /\ hw \in [Devs -> 0..HwSize] /\ DevsOK(Lists, live \cup drain, Range(open))
    BY DeviceFacts DEF IInv
  <1>3. hw' \in [Devs -> 0..HwSize]
    <2>1. hw[d] \in 0..HwSize /\ HwSize \in Nat BY <1>2, ConstFacts
    <2>2. hw[d] - 1 \in 0..HwSize BY <1>1, <2>1
    <2> QED BY <1>1, <1>2, <2>2
  <1> DEFINE M == [Lists EXCEPT !.hw = hw']
  <1>4. Lists \in DevState(live \cup drain) BY <1>2 DEF DevsOK
  <1>5. /\ M \in DevState(live \cup drain) /\ M.on = Lists.on /\ M.run = Lists.run
        /\ M.off = Lists.off /\ M.hw = hw' /\ M.state = Lists.state /\ M.due = Lists.due
    BY <1>3, <1>4 DEF DevState
  <1> HIDE DEF M
  <1>6. DevsOK(M, live \cup drain, Range(open)) BY <1>2, <1>5, SameStreams
  <1>7. DevsOK(Lists', live \cup drain, Range(open)) BY <1>1, <1>5, <1>6, ListsFields, BecomesOK
  <1>8. DevsOK(Lists', live' \cup drain', Range(open')) BY <1>1, <1>7
  <1>9. \A s \in Streams : \A e \in Devs : off'[s][e] \in {0, off[s][e]} BY <1>1
  <1> QED BY <1>1, <1>2, <1>8, <1>9, ListStep

\* A stream's next callback time comes.
LEMMA TimePassesStep ==
  ASSUME IInv, NEW s \in Streams, TimePasses(s)
  PROVE  IInv'
  <1> DEFINE yes == TRUE
  <1>1. /\ pass = Idle /\ due' = [due EXCEPT ![s] = yes]
        /\ open' = open /\ live' = live /\ budget' = budget
        /\ state' = state /\ on' = on /\ run' = run /\ off' = off /\ hw' = hw
        /\ drain' = drain /\ pass' = pass /\ hist' = hist
        /\ UNCHANGED <<shm, queued, frames, clientVars>>
    BY DEF TimePasses, listVars
  <1>2. /\ open \in Seq(Devs) /\ IsInjective(open) /\ live \subseteq Streams
        /\ budget \in Budget /\ off \in [Streams -> [Devs -> 0..BufFrames]]
        /\ due \in [Streams -> BOOLEAN] /\ DevsOK(Lists, live \cup drain, Range(open))
    BY DeviceFacts DEF IInv
  <1>3. yes \in BOOLEAN OBVIOUS
  <1> HIDE DEF yes
  <1>4. due' \in [Streams -> BOOLEAN] BY <1>1, <1>2, <1>3
  <1> DEFINE M == [Lists EXCEPT !.due = due']
  <1>5. Lists \in DevState(live \cup drain) BY <1>2 DEF DevsOK
  <1>6. /\ M \in DevState(live \cup drain) /\ M.on = Lists.on /\ M.run = Lists.run
        /\ M.off = Lists.off /\ M.due = due' /\ M.state = Lists.state /\ M.hw = Lists.hw
    BY <1>4, <1>5 DEF DevState
  <1> HIDE DEF M
  <1>7. DevsOK(M, live \cup drain, Range(open)) BY <1>2, <1>6, SameStreams
  <1>8. DevsOK(Lists', live \cup drain, Range(open)) BY <1>1, <1>6, <1>7, ListsFields, BecomesOK
  <1>9. DevsOK(Lists', live' \cup drain', Range(open')) BY <1>1, <1>8
  <1>10. \A t \in Streams : \A e \in Devs : off'[t][e] \in {0, off[t][e]} BY <1>1
  <1> QED BY <1>1, <1>2, <1>9, <1>10, ListStep

\* A step between two runs that also changes streams.
LEMMA StreamStep ==
  ASSUME IInv, pass' = Idle, hist' = hist,
         open' \in Seq(Devs), IsInjective(open'), live' \subseteq Streams, drain' \subseteq Streams,
         DevsOK(Lists', live' \cup drain', Range(open')), StreamFuns',
         \A s \in Streams :
            StreamOK(s, shm'[s], client'[s], frames'[s], req'[s], rep'[s], off'[s], queued'[s]),
         budget' \in Budget
  PROVE  IInv'
  <1>1. PassOK' /\ HistOK' BY IdleStep
  <1> QED BY <1>1 DEF IInv

\* A stream is taken off all devices and destroyed.
LEMMA DestroyedDevs ==
  ASSUME IInv, NEW s \in Streams, Destroyed(s)
  PROVE  /\ DevsOK(Lists', (live \cup drain) \ {s}, Range(open))
         /\ \A d \in Devs : off'[s][d] = 0
         /\ \A t \in Streams : \A d \in Devs : off'[t][d] \in {0, off[t][d]}
  <1> DEFINE V == live \cup drain
             L == Lists
             N == [dev_io_remove_stream(L, s) EXCEPT !.due[s] = FALSE]
  <1>1. V \in SUBSET Streams /\ DevsOK(L, V, Range(open)) /\ open \in Seq(Devs) BY DeviceFacts
  <1>2. Becomes(N) BY DEF Destroyed
  <1> HIDE DEF V, L
  <1>3. /\ DevsOK(N, V \ {s}, Range(open))
        /\ \A d \in Devs : N.off[s][d] = 0
        /\ \A t \in Streams : \A d \in Devs : N.off[t][d] \in {0, L.off[t][d]}
    BY <1>1, TakenOff
  <1> HIDE DEF N
  <1>4. /\ state' = N.state /\ hw' = N.hw /\ on' = N.on /\ run' = N.run /\ off' = N.off
        /\ due' = N.due
    BY <1>2 DEF Becomes
  <1>5. DevsOK(Lists', V \ {s}, Range(open)) BY <1>3, <1>4, BecomesOK
  <1> QED BY <1>3, <1>4, <1>5, ListsFields DEF V, L

\* A stream is destroyed: the next one of its place is fresh.
LEMMA DestroyedStep ==
  ASSUME IInv, NEW s \in Streams, Destroyed(s), pass = Idle, pass' = pass, hist' = hist,
         open' = open, live' = live \ {s}, budget' \in Budget
  PROVE  IInv'
  <1> DEFINE wait == "wait"
  <1>1. /\ drain' = drain \ {s} /\ queued' = [queued EXCEPT ![s] = 0]
        /\ shm' = [shm EXCEPT ![s] = FreshShm] /\ client' = [client EXCEPT ![s] = wait]
        /\ req' = [req EXCEPT ![s] = 0] /\ rep' = [rep EXCEPT ![s] = 0]
        /\ frames' = [frames EXCEPT ![s] = FreshFrames]
    BY DEF Destroyed
  <1>2. /\ open \in Seq(Devs) /\ IsInjective(open) /\ live \subseteq Streams
        /\ drain \subseteq Streams
        /\ StreamFuns
    BY DEF IInv
  <1>3. /\ DevsOK(Lists', (live \cup drain) \ {s}, Range(open))
        /\ \A d \in Devs : off'[s][d] = 0
        /\ \A t \in Streams : \A d \in Devs : off'[t][d] \in {0, off[t][d]}
    BY DestroyedDevs
  <1>4. live' \cup drain' = (live \cup drain) \ {s} BY <1>1
  <1>5. DevsOK(Lists', live' \cup drain', Range(open')) BY <1>3, <1>4
  <1> DEFINE F == FreshFrames
             H == FreshShm
  <1>6. H \in Header /\ F \in Numbers BY FreshHeader, FreshNumbers, ConstFacts
  <1>7. wait \in {"wait", "stored", "dead"} /\ 0 \in 0..1 /\ 0 \in 0..BufFrames BY ConstFacts
  <1> DEFINE C == {"wait", "stored", "dead"}
  <1>8. /\ shm \in [Streams -> Header] /\ frames \in [Streams -> Numbers]
        /\ client \in [Streams -> C] /\ req \in [Streams -> 0..1] /\ rep \in [Streams -> 0..1]
        /\ queued \in [Streams -> 0..BufFrames]
    BY <1>2 DEF StreamFuns
  <1> HIDE DEF wait, F, H, C
  <1>9. /\ shm' \in [Streams -> Header] /\ shm'[s] = H
        /\ \A t \in Streams : t # s => shm'[t] = shm[t]
    BY <1>1, <1>6, <1>8 DEF H
  <1>10. /\ frames' \in [Streams -> Numbers] /\ frames'[s] = F
         /\ \A t \in Streams : t # s => frames'[t] = frames[t]
    BY <1>1, <1>6, <1>8 DEF F
  <1>11. /\ client' \in [Streams -> C] /\ client'[s] = wait
         /\ \A t \in Streams : t # s => client'[t] = client[t]
    BY <1>1, <1>7, <1>8 DEF C
  <1>12. /\ req' \in [Streams -> 0..1] /\ req'[s] = 0 /\ rep' \in [Streams -> 0..1] /\ rep'[s] = 0
         /\ \A t \in Streams : t # s => req'[t] = req[t] /\ rep'[t] = rep[t]
    BY <1>1, <1>7, <1>8
  <1>13. /\ queued' \in [Streams -> 0..BufFrames] /\ queued'[s] = 0
         /\ \A t \in Streams : t # s => queued'[t] = queued[t]
    BY <1>1, <1>7, <1>8
  <1>14. StreamFuns' BY <1>9, <1>10, <1>11, <1>12, <1>13 DEF StreamFuns, C
  <1>15. ASSUME NEW t \in Streams
         PROVE  StreamOK(t, shm'[t], client'[t], frames'[t], req'[t], rep'[t], off'[t], queued'[t])
    <2>1. CASE t = s
      <3> DEFINE o == off'[s]
      <3>1. \A d \in Devs : o[d] = 0 BY <1>3
      <3> HIDE DEF o
      <3>2. StreamOK(s, FreshShm, "wait", FreshFrames, 0, 0, o, 0) BY <3>1, FreshStream
      <3> QED BY <1>9, <1>10, <1>11, <1>12, <1>13, <2>1, <3>2 DEF o, H, F, wait
    <2>2. CASE t # s
      <3> DEFINE o == off'[t]
      <3>1. \A d \in Devs : o[d] \in {0, off[t][d]} BY <1>3
      <3> HIDE DEF o
      <3>2. StreamOK(t, shm[t], client[t], frames[t], req[t], rep[t], o, queued[t])
        BY <3>1, OffsetsShrink
      <3> QED BY <1>9, <1>10, <1>11, <1>12, <1>13, <2>2, <3>2 DEF o
    <2> QED BY <2>1, <2>2
  <1>16. /\ open' \in Seq(Devs) /\ IsInjective(open') /\ live' \subseteq Streams
         /\ drain' \subseteq Streams /\ pass' = Idle
    BY <1>1, <1>2
  <1> QED BY <1>5, <1>14, <1>15, <1>16, StreamStep

\* What a stream that begins to drain has to play.
LEMMA RemainingFacts ==
  ASSUME IInv, NEW s \in Streams
  PROVE  /\ Remaining(s) \in Nat /\ Remaining(s) <= cras_shm_get_frames(shm[s])
         /\ frames[s].raced => Remaining(s) = 0
  BY StreamFacts DEF Remaining

\* drain_timer: a drained stream is destroyed.
LEMMA DrainTimerStep ==
  ASSUME IInv, NEW s \in Streams, drain_timer(s)
  PROVE  IInv'
  <1>1. /\ pass = Idle /\ s \notin live /\ Destroyed(s) /\ pass' = pass /\ hist' = hist
        /\ open' = open /\ live' = live /\ budget' = budget
    BY DEF drain_timer, listVars
  <1>2. live' = live \ {s} BY <1>1
  <1>3. budget' \in Budget BY <1>1 DEF IInv
  <1> QED BY <1>1, <1>2, <1>3, DestroyedStep

\* stream_list_rm: the stream is destroyed, or drains.
LEMMA RemoveStep ==
  ASSUME IInv, NEW s \in Streams, stream_list_rm(s)
  PROVE  IInv'
  <1>1. /\ pass = Idle /\ s \in live /\ budget.leaves > 0 /\ open' = open
        /\ budget' = [budget EXCEPT !.leaves = @ - 1] /\ live' = live \ {s}
        /\ pass' = pass /\ hist' = hist
    BY DEF stream_list_rm
  <1>2. budget' \in Budget BY <1>1, BudgetFacts DEF IInv
  <1>3. CASE Destroyed(s) BY <1>1, <1>2, <1>3, DestroyedStep
  <1>4. CASE /\ drain' = drain \cup {s}
             /\ frames' = [frames EXCEPT ![s].tail = Remaining(s)]
             /\ UNCHANGED <<devVars, queued, shm, clientVars>>
    <2> DEFINE r == Remaining(s)
               ft == [frames[s] EXCEPT !.tail = r]
    <2>1. /\ state' = state /\ hw' = hw /\ on' = on /\ run' = run /\ off' = off /\ due' = due
          /\ queued' = queued /\ shm' = shm /\ client' = client /\ req' = req /\ rep' = rep
      BY <1>4 DEF devVars, clientVars
    <2>2. Lists' = Lists BY <2>1 DEF Lists
    <2>3. /\ open \in Seq(Devs) /\ IsInjective(open) /\ live \subseteq Streams
          /\ drain \subseteq Streams /\ StreamFuns
          /\ DevsOK(Lists, live \cup drain, Range(open))
      BY DEF IInv
    <2>4. live' \cup drain' = live \cup drain BY <1>1, <1>4
    <2>5. DevsOK(Lists', live' \cup drain', Range(open')) BY <1>1, <2>2, <2>3, <2>4
    <2>6. frames' = [frames EXCEPT ![s] = ft] BY <1>4
    <2>7. StreamOK(s, shm[s], client[s], frames[s], req[s], rep[s], off[s], queued[s])
      BY StreamFacts
    <2>8. r \in Nat /\ r <= cras_shm_get_frames(shm[s]) /\ (frames[s].raced => r = 0)
      BY RemainingFacts
    <2> HIDE DEF r
    <2>9. StreamOK(s, shm[s], client[s], ft, req[s], rep[s], off[s], queued[s])
      BY <2>7, <2>8, TailStream
    <2> HIDE DEF ft
    <2>10. ft \in Numbers BY <2>9 DEF StreamOK
    <2>11. frames \in [Streams -> Numbers] BY <2>3 DEF StreamFuns
    <2>12. /\ frames' \in [Streams -> Numbers] /\ frames'[s] = ft
           /\ \A t \in Streams : t # s => frames'[t] = frames[t]
      BY <2>6, <2>10, <2>11
    <2>13. StreamFuns' BY <2>1, <2>3, <2>12 DEF StreamFuns
    <2>14. ASSUME NEW t \in Streams
           PROVE  StreamOK(t, shm'[t], client'[t], frames'[t], req'[t], rep'[t], off'[t], queued'[t])
      <3>1. CASE t = s BY <2>1, <2>9, <2>12, <3>1
      <3>2. CASE t # s BY <2>1, <2>12, <3>2, StreamFacts
      <3> QED BY <3>1, <3>2
    <2>15. /\ open' \in Seq(Devs) /\ IsInjective(open') /\ live' \subseteq Streams
           /\ drain' \subseteq Streams /\ pass' = Idle
      BY <1>1, <1>4, <2>3
    <2> QED BY <1>1, <1>2, <2>5, <2>13, <2>14, <2>15, StreamStep
  <1> QED BY <1>3, <1>4 DEF stream_list_rm

-----------------------------------------------------------------------------
(* The client's steps, which come at any point of the server's run.        *)

\* A step of the client of one stream, which promises no more to be played.
LEMMA ClientStep ==
  ASSUME IInv, NEW s \in Streams, UNCHANGED <<open, live, drain, devVars, queued, pass, hist>>,
         NEW h \in Header, shm' = [shm EXCEPT ![s] = h],
         NEW c \in {"wait", "stored", "dead"}, client' = [client EXCEPT ![s] = c],
         NEW fr \in Numbers, frames' = [frames EXCEPT ![s] = fr],
         NEW rq \in 0..1, req' = [req EXCEPT ![s] = rq],
         NEW rp \in 0..1, rep' = [rep EXCEPT ![s] = rp],
         StreamOK(s, h, c, fr, rq, rp, off[s], queued[s]), fr.tail \in {0, frames[s].tail},
         budget' \in Budget
  PROVE  IInv'
  <1> DEFINE C == {"wait", "stored", "dead"}
  <1>1. /\ state' = state /\ hw' = hw /\ on' = on /\ run' = run /\ off' = off /\ due' = due
        /\ queued' = queued /\ pass' = pass /\ hist' = hist /\ open' = open /\ live' = live
        /\ drain' = drain
    BY DEF devVars
  <1>2. /\ open \in Seq(Devs) /\ IsInjective(open) /\ live \subseteq Streams
        /\ drain \subseteq Streams /\ StreamFuns /\ PassOK /\ HistOK
        /\ DevsOK(Lists, live \cup drain, Range(open))
    BY DEF IInv
  <1>3. Lists' = Lists BY <1>1 DEF Lists
  <1>4. /\ shm \in [Streams -> Header] /\ frames \in [Streams -> Numbers]
        /\ client \in [Streams -> C] /\ req \in [Streams -> 0..1] /\ rep \in [Streams -> 0..1]
        /\ queued \in [Streams -> 0..BufFrames]
    BY <1>2 DEF StreamFuns
  <1>5. c \in C OBVIOUS
  <1> HIDE DEF C
  <1>6. /\ shm' \in [Streams -> Header] /\ shm'[s] = h
        /\ \A t \in Streams : t # s => shm'[t] = shm[t]
    BY <1>4
  <1>7. /\ frames' \in [Streams -> Numbers] /\ frames'[s] = fr
        /\ \A t \in Streams : t # s => frames'[t] = frames[t]
    BY <1>4
  <1>8. /\ client' \in [Streams -> C] /\ client'[s] = c
        /\ \A t \in Streams : t # s => client'[t] = client[t]
    BY <1>4, <1>5
  <1>9. /\ req' \in [Streams -> 0..1] /\ req'[s] = rq /\ rep' \in [Streams -> 0..1] /\ rep'[s] = rp
        /\ \A t \in Streams : t # s => req'[t] = req[t] /\ rep'[t] = rep[t]
    BY <1>4
  <1>10. StreamFuns' BY <1>1, <1>4, <1>6, <1>7, <1>8, <1>9 DEF StreamFuns, C
  <1>11. ASSUME NEW t \in Streams
         PROVE  StreamOK(t, shm'[t], client'[t], frames'[t], req'[t], rep'[t], off'[t], queued'[t])
    <2>1. CASE t = s BY <1>1, <1>6, <1>7, <1>8, <1>9, <2>1
    <2>2. CASE t # s BY <1>1, <1>6, <1>7, <1>8, <1>9, <2>2, StreamFacts
    <2> QED BY <2>1, <2>2
  <1>12. \A t \in Streams : queued[t] \in Nat BY <1>4, ConstFacts
  <1>13. \A t \in Streams : Smaller(frames[t].tail, BufFrames) <= queued[t] =>
                             Smaller(frames'[t].tail, BufFrames) <= queued[t]
    <2> SUFFICES ASSUME NEW t \in Streams, Smaller(frames[t].tail, BufFrames) <= queued[t]
                 PROVE  Smaller(frames'[t].tail, BufFrames) <= queued[t]
      OBVIOUS
    <2>1. CASE t = s
      <3>1. queued[t] >= 0 /\ BufFrames \in Nat BY <1>12, ConstFacts
      <3>2. frames'[t].tail = 0 \/ frames'[t].tail = frames[t].tail BY <1>7, <2>1
      <3>3. Smaller(0, BufFrames) = 0 BY <3>1 DEF Smaller
      <3> QED BY <3>1, <3>2, <3>3
    <2>2. CASE t # s BY <1>7, <2>2
    <2> QED BY <2>1, <2>2
  <1>14. TailsQueued => TailsQueued' BY <1>1, <1>13, ConstFacts DEF TailsQueued
  <1>15. HistOK' BY <1>1, <1>2, <1>14 DEF HistOK
  <1>16. PassOK' BY <1>1, <1>2 DEF PassOK
  <1>17. DevsOK(Lists', live' \cup drain', Range(open')) BY <1>1, <1>2, <1>3
  <1>18. /\ open' \in Seq(Devs) /\ IsInjective(open') /\ live' \subseteq Streams
         /\ drain' \subseteq Streams
    BY <1>1, <1>2
  <1> QED BY <1>10, <1>11, <1>15, <1>16, <1>17, <1>18 DEF IInv

\* The types of what concerns a stream.
LEMMA StreamTypes ==
  ASSUME NEW s, NEW h, NEW c, NEW fr, NEW rq, NEW rp, NEW o, NEW k,
         StreamOK(s, h, c, fr, rq, rp, o, k)
  PROVE  /\ h \in Header /\ c \in {"wait", "stored", "dead"} /\ fr \in Numbers
         /\ rq \in 0..1 /\ rp \in 0..1
  BY DEF StreamOK, Protocol

\* A function that is not changed is changed to itself.
LEMMA SameAt ==
  ASSUME NEW S, NEW T, NEW f \in [S -> T], NEW x \in S
  PROVE  f = [f EXCEPT ![x] = f[x]]
  OBVIOUS

\* The client stores its frames (the callback).
LEMMA StoredStep ==
  ASSUME IInv, NEW s \in Streams, NEW n \in 0..Cb[s], Stored(s, n),
         client[s] = "wait", req[s] > 0,
         UNCHANGED <<listVars, devVars, queued, drain, pass, hist>>
  PROVE  IInv'
  <1> DEFINE h == shm[s]
             w == h.widx
             f == Visible(h, n)
             g == HandedOver(h, n)
             ft == StoredNumbers(frames[s], h, n)
             rq == req[s] - 1
             rp == rep[s] + 1
             st == "stored"
             wt == "wait"
  <1>3. UNCHANGED <<open, live, drain, devVars, queued, pass, hist>> /\ budget' = budget
    BY DEF listVars
  <1>4. budget \in Budget /\ StreamFuns BY DEF IInv
  <1>6. /\ StreamOK(s, h, "wait", frames[s], req[s], rep[s], off[s], queued[s])
        /\ \A d \in Devs : off[s][d] \in Nat
    BY StreamFacts
  <1>7. /\ StreamOK(s, f, "stored", ft, rq, rep[s], off[s], queued[s])
        /\ StreamOK(s, g, "wait", ft, rq, rp, off[s], queued[s])
        /\ ft.tail = frames[s].tail
    <2> DEFINE fr == frames[s]
               r == req[s]
               p == rep[s]
               o == off[s]
               k == queued[s]
    <2>1. /\ StreamOK(s, h, "wait", fr, r, p, o, k) /\ \A d \in Devs : o[d] \in Nat
          /\ r > 0 /\ n \in 0..Cb[s]
      BY <1>6
    <2> HIDE DEF h, fr, r, p, o, k
    <2>2. /\ StreamOK(s, f, "stored", StoredNumbers(fr, h, n), r - 1, p, o, k)
          /\ StreamOK(s, g, "wait", StoredNumbers(fr, h, n), r - 1, p + 1, o, k)
          /\ StoredNumbers(fr, h, n).tail = fr.tail
      BY <2>1, StoredStream
    <2> QED BY <2>2 DEF fr, r, p, o, k
  <1>8. frames \in [Streams -> Numbers] /\ client \in [Streams -> {"wait", "stored", "dead"}]
        /\ rep \in [Streams -> 0..1]
    BY <1>4 DEF StreamFuns
  <1>9. frames' = [frames EXCEPT ![s] = ft]
    <2>1. frames' = IF frames[s].raced \/ frames[s].swapped THEN frames
                    ELSE IF Swaps(h, n) THEN [frames EXCEPT ![s] = SwappedFrames(frames[s].tail)]
                    ELSE [frames EXCEPT ![s].first[w] = frames[s].next,
                                        ![s].next = (@ + n) % FrameIds]
      BY DEF Stored
    <2>2. CASE frames[s].raced \/ frames[s].swapped
      <3>1. ft = frames[s] BY <2>2 DEF StoredNumbers
      <3>2. frames' = frames BY <2>1, <2>2
      <3> QED BY <1>8, <3>1, <3>2
    <2>3. CASE ~(frames[s].raced \/ frames[s].swapped) /\ Swaps(h, n)
      <3>1. ft = SwappedFrames(frames[s].tail) BY <2>3 DEF StoredNumbers
      <3>2. frames' = [frames EXCEPT ![s] = SwappedFrames(frames[s].tail)] BY <2>1, <2>3
      <3> HIDE DEF ft
      <3> QED BY <3>1, <3>2
    <2>4. CASE ~(frames[s].raced \/ frames[s].swapped) /\ ~Swaps(h, n)
      <3>1. frames' = [frames EXCEPT ![s].first[w] = frames[s].next,
                                     ![s].next = (@ + n) % FrameIds]
        BY <2>1, <2>4
      <3>2. ft = [frames[s] EXCEPT !.first = [frames[s].first EXCEPT ![w] = frames[s].next],
                                   !.next = (frames[s].next + n) % FrameIds]
        BY <2>4 DEF StoredNumbers
      <3> HIDE DEF ft, w
      <3> QED BY <1>8, <3>1, <3>2
    <2> QED BY <2>2, <2>3, <2>4
  <1>10. req' = [req EXCEPT ![s] = rq] BY DEF Stored
  <1>11. CASE s \in budget.slow
    <2>1. /\ shm' = [shm EXCEPT ![s] = f] /\ client' = [client EXCEPT ![s] = st] /\ rep' = rep
      BY <1>11 DEF Stored, Visible
    <2> DEFINE p == rep[s]
    <2>2. rep' = [rep EXCEPT ![s] = p] BY <1>8, <2>1, SameAt
    <2>3. /\ StreamOK(s, f, st, ft, rq, p, off[s], queued[s])
          /\ ft.tail \in {0, frames[s].tail} /\ budget' \in Budget
          /\ shm' = [shm EXCEPT ![s] = f] /\ client' = [client EXCEPT ![s] = st]
      BY <1>3, <1>4, <1>7, <2>1
    <2> HIDE DEF f, ft, rq, st, p
    <2>4. /\ f \in Header /\ st \in {"wait", "stored", "dead"} /\ ft \in Numbers /\ rq \in 0..1
          /\ p \in 0..1
      BY <2>3, StreamTypes
    <2> QED BY <1>3, <1>9, <1>10, <2>2, <2>3, <2>4, ClientStep
  <1>12. CASE s \notin budget.slow
    <2>1. /\ shm' = [shm EXCEPT ![s] = g] /\ client' = client /\ rep' = [rep EXCEPT ![s] = rp]
      BY <1>12 DEF Stored, HandedOver
    <2>2. client' = [client EXCEPT ![s] = wt] BY <1>8, <2>1, SameAt
    <2>3. /\ StreamOK(s, g, wt, ft, rq, rp, off[s], queued[s])
          /\ ft.tail \in {0, frames[s].tail} /\ budget' \in Budget
      BY <1>3, <1>4, <1>7
    <2> HIDE DEF g, ft, rq, rp, wt
    <2>4. /\ g \in Header /\ wt \in {"wait", "stored", "dead"} /\ ft \in Numbers /\ rq \in 0..1
          /\ rp \in 0..1
      BY <2>3, StreamTypes
    <2> QED BY <1>3, <1>9, <1>10, <2>1, <2>2, <2>3, <2>4, ClientStep
  <1> QED BY <1>11, <1>12

\* The callback: its frames are stored, or it is answered without any.
LEMMA CallbackStep ==
  ASSUME IInv, NEW s \in Streams, Callback(s)
  PROVE  IInv'
  <1>1. PICK a \in budget.answers : \/ Smaller(a, Cb[s]) >= 0 /\ Stored(s, Smaller(a, Cb[s]))
                                    \/ Ends(s)
    BY DEF Callback
  <1> DEFINE n == Smaller(a, Cb[s])
             wt == client[s]
             rq == req[s] - 1
             rp == rep[s] + 1
             h == shm[s]
             fr == frames[s]
  <1>2. /\ client[s] = "wait" /\ req[s] > 0
        /\ UNCHANGED <<listVars, devVars, queued, drain, pass, hist>>
    BY DEF Callback
  <1>3. budget \in Budget /\ StreamFuns BY DEF IInv
  <1>4. CASE n >= 0 /\ Stored(s, n)
    <2>1. a \in Int BY <1>1, <1>3 DEF Budget
    <2>2. Cb[s] \in Nat BY ConstFacts
    <2>3. n \in 0..Cb[s] BY <1>4, <2>1, <2>2 DEF Smaller
    <2> HIDE DEF n
    <2> QED BY <1>2, <1>4, <2>3, StoredStep
  <1>5. CASE Ends(s)
    <2>1. UNCHANGED <<open, live, drain, devVars, queued, pass, hist>> /\ budget' = budget
      BY <1>2 DEF listVars
    <2>2. /\ req' = [req EXCEPT ![s] = rq] /\ rep' = [rep EXCEPT ![s] = rp]
          /\ client' = client /\ shm' = shm /\ frames' = frames
      BY <1>5 DEF Ends
    <2>3. /\ shm \in [Streams -> Header] /\ frames \in [Streams -> Numbers]
          /\ client \in [Streams -> {"wait", "stored", "dead"}]
      BY <1>3 DEF StreamFuns
    <2>4. /\ shm' = [shm EXCEPT ![s] = h] /\ frames' = [frames EXCEPT ![s] = fr]
          /\ client' = [client EXCEPT ![s] = wt]
      BY <2>2, <2>3, SameAt
    <2>5. StreamOK(s, h, wt, fr, req[s], rep[s], off[s], queued[s]) BY StreamFacts
    <2>6. Protocol(h, wt, rq, rp)
      <3>1. /\ req[s] \in 0..1 /\ rep[s] \in 0..1
            /\ req[s] + rep[s] + 0 = IF h.pending THEN 1 ELSE 0
        BY <1>2, <2>5 DEF StreamOK, Protocol
      <3>2. h.pending \in BOOLEAN BY <2>5, StreamTypes, HeaderFields
      <3>3. req[s] = 1 /\ rep[s] = 0 /\ h.pending BY <1>2, <3>1, <3>2
      <3> QED BY <1>2, <3>3 DEF Protocol
    <2>7. fr.tail \in {0, frames[s].tail} OBVIOUS
    <2> HIDE DEF h, wt, fr, rq, rp
    <2>8. StreamOK(s, h, wt, fr, rq, rp, off[s], queued[s]) BY <2>5, <2>6 DEF StreamOK
    <2>9. /\ h \in Header /\ wt \in {"wait", "stored", "dead"} /\ fr \in Numbers /\ rq \in 0..1
          /\ rp \in 0..1
      BY <2>8, StreamTypes
    <2>10. budget' \in Budget BY <1>3, <2>1
    <2>11. req' = [req EXCEPT ![s] = rq] /\ rep' = [rep EXCEPT ![s] = rp] BY <2>2
    <2> QED BY <2>1, <2>4, <2>7, <2>8, <2>9, <2>10, <2>11, ClientStep
  <1> QED BY <1>1, <1>4, <1>5

\* The client's second store, and its reply.
LEMMA CompleteStep ==
  ASSUME IInv, NEW s \in Streams, Complete(s)
  PROVE  IInv'
  <1> DEFINE h == shm[s]
             w == h.widx
             g == [h EXCEPT !.roff[w] = 0, !.widx = 1 - w]
             ft == IF h.roff[w] = 0 THEN frames[s] ELSE RacedFrames
             rp == rep[s] + 1
             wt == "wait"
  <1>1. /\ client[s] = "stored" /\ shm' = [shm EXCEPT ![s].roff[w] = 0, ![s].widx = 1 - w]
        /\ frames' = (IF h.roff[w] = 0 THEN frames ELSE [frames EXCEPT ![s] = RacedFrames])
        /\ rep' = [rep EXCEPT ![s] = rp] /\ client' = [client EXCEPT ![s] = wt] /\ req' = req
        /\ UNCHANGED <<listVars, devVars, queued, drain, pass, hist>>
    BY DEF Complete
  <1>2. UNCHANGED <<open, live, drain, devVars, queued, pass, hist>> /\ budget' = budget
    BY <1>1 DEF listVars
  <1>3. budget \in Budget /\ StreamFuns BY DEF IInv
  <1>4. /\ StreamOK(s, h, "stored", frames[s], req[s], rep[s], off[s], queued[s])
        /\ \A d \in Devs : off[s][d] \in Nat
    BY <1>1, StreamFacts
  <1>5. /\ StreamOK(s, g, "wait", ft, req[s], rp, off[s], queued[s])
        /\ ft.tail \in {0, frames[s].tail}
    <2> HIDE DEF h
    <2> QED BY <1>4, CompletedStream
  <1>6. frames \in [Streams -> Numbers] /\ req \in [Streams -> 0..1] BY <1>3 DEF StreamFuns
  <1>7. shm' = [shm EXCEPT ![s] = g] BY <1>1
  <1>8. frames' = [frames EXCEPT ![s] = ft]
    <2>1. CASE h.roff[w] = 0 BY <1>1, <1>6, <2>1
    <2>2. CASE h.roff[w] # 0 BY <1>1, <2>2
    <2> QED BY <2>1, <2>2
  <1>9. req' = [req EXCEPT ![s] = req[s]] BY <1>1, <1>6, SameAt
  <1>10. StreamOK(s, g, wt, ft, req[s], rp, off[s], queued[s]) BY <1>5
  <1> HIDE DEF g, ft, rp, wt, h
  <1>11. /\ g \in Header /\ wt \in {"wait", "stored", "dead"} /\ ft \in Numbers
         /\ req[s] \in 0..1 /\ rp \in 0..1
    BY <1>10, StreamTypes
  <1> QED BY <1>1, <1>2, <1>3, <1>5, <1>7, <1>8, <1>9, <1>10, <1>11, ClientStep

\* The client dies.
LEMMA ClientDiesStep ==
  ASSUME IInv, NEW s \in Streams, ClientDies(s)
  PROVE  IInv'
  <1> DEFINE dd == "dead"
             z == 0
  <1>1. /\ budget.deaths > 0 /\ budget' = [budget EXCEPT !.deaths = @ - 1]
        /\ client' = [client EXCEPT ![s] = dd] /\ req' = [req EXCEPT ![s] = z]
        /\ UNCHANGED <<open, live, devVars, queued, shm, drain, rep, frames, pass, hist>>
    BY DEF ClientDies
  <1>2. /\ UNCHANGED <<open, live, drain, devVars, queued, pass, hist>>
        /\ client' = [client EXCEPT ![s] = dd] /\ req' = [req EXCEPT ![s] = z]
    BY <1>1
  <1>3. budget' \in Budget BY <1>1, BudgetFacts DEF IInv
  <1>4. StreamOK(s, shm[s], client[s], frames[s], req[s], rep[s], off[s], queued[s])
    BY StreamFacts
  <1>5. StreamOK(s, shm[s], dd, frames[s], z, rep[s], off[s], queued[s]) BY <1>4, DeadStream
  <1>6. /\ shm \in [Streams -> Header] /\ frames \in [Streams -> Numbers]
        /\ rep \in [Streams -> 0..1]
    BY DEF IInv, StreamFuns
  <1>7. /\ shm' = [shm EXCEPT ![s] = shm[s]] /\ frames' = [frames EXCEPT ![s] = frames[s]]
        /\ rep' = [rep EXCEPT ![s] = rep[s]]
    BY <1>1, <1>6, SameAt
  <1> HIDE DEF dd, z
  <1>8. /\ shm[s] \in Header /\ dd \in {"wait", "stored", "dead"} /\ frames[s] \in Numbers
        /\ z \in 0..1 /\ rep[s] \in 0..1
    BY <1>5, StreamTypes
  <1>9. frames[s].tail \in {0, frames[s].tail} OBVIOUS
  <1> QED BY <1>2, <1>3, <1>5, <1>7, <1>8, <1>9, ClientStep

-----------------------------------------------------------------------------
(* The run of the server's audio thread.                                   *)

\* The fetch of one stream that is attached to a device.
LEMMA FetchedOne ==
  ASSUME IInv, NEW s \in Streams, NEW b \in BOOLEAN,
         b => ~Pending(s) /\ client[s] # "dead" /\ cras_shm_is_buffer_available(shm[s]),
         NEW rq, rq = IF b THEN req[s] + 1 ELSE req[s],
         NEW pb \in BOOLEAN, pb <=> (Pending(s) \/ b)
  PROVE  LET g == [shm[s] EXCEPT !.pending = pb]
         IN /\ StreamOK(s, g, client[s], frames[s], rq, 0, off[s], queued[s])
            /\ StreamOK(s, g, client[s], [frames[s] EXCEPT !.tail = Remaining(s)], rq, 0,
                        off[s], queued[s])
  <1> DEFINE h == shm[s]
             g == [h EXCEPT !.pending = pb]
             p == Pending(s)
             r == Remaining(s)
  <1>1. StreamOK(s, h, client[s], frames[s], req[s], rep[s], off[s], queued[s]) BY StreamFacts
  <1>2. h \in Header BY <1>1, StreamTypes
  <1>3. p \in BOOLEAN /\ (p <=> (h.pending /\ rep[s] = 0 /\ client[s] # "dead"))
    <2>1. h.pending \in BOOLEAN BY <1>2, HeaderFields
    <2> QED BY <2>1 DEF Pending
  <1>4. b => ~p /\ client[s] # "dead" /\ h.woff[h.widx] = 0 BY DEF cras_shm_is_buffer_available
  <1>5. r \in Nat /\ r <= cras_shm_get_frames(h) /\ (frames[s].raced => r = 0) BY RemainingFacts
  <1>6. pb <=> (p \/ b) OBVIOUS
  <1> HIDE DEF h, p, r
  <1>7. StreamOK(s, g, client[s], frames[s], rq, 0, off[s], queued[s])
    BY <1>1, <1>3, <1>4, <1>6, FetchedStream
  <1>8. g.woff = h.woff /\ g.roff = h.roff BY <1>2, PendingFields
  <1> HIDE DEF g
  <1>9. cras_shm_get_frames(g) = cras_shm_get_frames(h)
    BY <1>8 DEF cras_shm_get_frames, InHalf
  <1>10. StreamOK(s, g, client[s], [frames[s] EXCEPT !.tail = r], rq, 0, off[s], queued[s])
    BY <1>5, <1>7, <1>9, TailStream
  <1> QED BY <1>7, <1>10 DEF g, h, r

\* What the fetch changes, of the streams it fetches for; of those the devices
\* of some cannot tell their time.
Fetches(fetched, untimed) ==
    LET ask == {s \in fetched : Asks(s)}
        try == {s \in ask : cras_shm_is_buffer_available(shm[s])}
        fail == {s \in try : client[s] = "dead"}
        request == try \ fail
    IN /\ untimed \subseteq try
       /\ due' = [s \in Streams |-> due[s] /\ s \notin ask \ fail]
       /\ drain' = drain \cup fail \cup untimed
       /\ frames' = [s \in Streams |-> IF s \in fail \cup untimed
                                       THEN [frames[s] EXCEPT !.tail = Remaining(s)]
                                       ELSE frames[s]]
       /\ req' = [s \in Streams |-> IF s \in request THEN req[s] + 1 ELSE req[s]]
       /\ rep' = [s \in Streams |-> IF s \in fetched THEN 0 ELSE rep[s]]
       /\ shm' = [s \in Streams |->
                     IF s \notin fetched THEN shm[s]
                     ELSE [shm[s] EXCEPT !.pending = Pending(s) \/ s \in request]]

\* dev_io_playback_fetch
LEMMA FetchStep ==
  ASSUME IInv, dev_io_playback_fetch
  PROVE  IInv'
  <1>0. PICK N \in SUBSET budget.late :
          \E untimed \in SUBSET Streams : Fetches({s \in Streams : Att(Lists, s) \ N # {}}, untimed)
    <2>1. dev_io_playback_fetch => \E N \in SUBSET budget.late :
            \E untimed \in SUBSET Streams :
               Fetches({s \in Streams : Att(Lists, s) \ N # {}}, untimed)
      BY DEF dev_io_playback_fetch, Fetches
    <2> QED BY <2>1
  <1> DEFINE fetched == {s \in Streams : Att(Lists, s) \ N # {}}
  <1>15. PICK untimed \in SUBSET Streams : Fetches(fetched, untimed) BY <1>0
  <1> DEFINE ask == {s \in fetched : Asks(s)}
             try == {s \in ask : cras_shm_is_buffer_available(shm[s])}
             fail == {s \in try : client[s] = "dead"}
             request == try \ fail
             pend(s) == Pending(s) \/ s \in request
             V == live \cup drain
             W == live' \cup drain'
  <1>1. /\ pass = Idle /\ open # <<>> /\ run' = [d \in Devs |-> Started(d)]
        /\ due' = [s \in Streams |-> due[s] /\ s \notin ask \ fail]
        /\ drain' = drain \cup fail \cup untimed
        /\ frames' = [s \in Streams |-> IF s \in fail \cup untimed
                                        THEN [frames[s] EXCEPT !.tail = Remaining(s)]
                                        ELSE frames[s]]
        /\ req' = [s \in Streams |-> IF s \in request THEN req[s] + 1 ELSE req[s]]
        /\ rep' = [s \in Streams |-> IF s \in fetched THEN 0 ELSE rep[s]]
        /\ shm' = [s \in Streams |-> IF s \notin fetched THEN shm[s]
                                     ELSE [shm[s] EXCEPT !.pending = pend(s)]]
        /\ pass' = [phase |-> "write", todo |-> open]
        /\ open' = open /\ live' = live /\ budget' = budget /\ state' = state /\ hw' = hw
        /\ on' = on /\ off' = off /\ queued' = queued /\ client' = client /\ hist' = hist
        /\ untimed \subseteq try
    BY <1>15 DEF dev_io_playback_fetch, Fetches, listVars
  <1>2. /\ open \in Seq(Devs) /\ IsInjective(open) /\ live \subseteq Streams
        /\ drain \subseteq Streams
        /\ StreamFuns /\ HistOK /\ budget \in Budget
    BY DEF IInv
  <1>3. /\ state \in [Devs -> DevStates] /\ hw \in [Devs -> 0..HwSize]
        /\ on \in [Devs -> SUBSET V] /\ run \in [Devs -> SUBSET V]
        /\ off \in [Streams -> [Devs -> 0..BufFrames]] /\ due \in [Streams -> BOOLEAN]
        /\ \A d \in Devs : run[d] \subseteq on[d]
        /\ \A d \in Devs : d \notin Range(open) => on[d] = {} /\ \A s \in Streams : off[s][d] = 0
    BY DeviceFacts
  <1>4. fail \subseteq Streams /\ drain' \subseteq Streams /\ V \subseteq W BY <1>1, <1>2
  <1>5. \A s \in Streams :
          /\ s \in try => /\ s \in fetched /\ ~Pending(s)
                          /\ cras_shm_is_buffer_available(shm[s])
          /\ s \in request <=> s \in try /\ client[s] # "dead"
          /\ s \in fail \cup untimed => s \in try
    BY <1>1 DEF Asks
  <1>6. DevsOK(Lists', W, Range(open))
    <2>1. \A d \in Devs : run'[d] \subseteq on'[d] BY <1>1, <1>3 DEF Started
    <2>2. on' \in [Devs -> SUBSET W] BY <1>1, <1>3, <1>4
    <2>3. run' \in [Devs -> SUBSET W]
      <3>1. run' = [d \in Devs |-> run'[d]] BY <1>1
      <3>2. \A d \in Devs : run'[d] \in SUBSET W BY <2>1, <2>2
      <3> QED BY <3>1, <3>2
    <2>4. due' \in [Streams -> BOOLEAN] BY <1>1
    <2>5. Lists' \in DevState(W)
      <3> HIDE DEF W
      <3> QED BY <1>1, <1>3, <2>2, <2>3, <2>4 DEF Lists, DevState, DevStates
    <2>6. \A d \in Devs : DevOK(Lists', d, Range(open)) BY <1>1, <1>3, <2>1, ListsPrime DEF DevOK
    <2> QED BY <2>5, <2>6 DEF DevsOK
  <1>7. ASSUME NEW s \in Streams
        PROVE  StreamOK(s, shm'[s], client'[s], frames'[s], req'[s], rep'[s], off'[s], queued'[s])
    <2>1. CASE s \notin fetched
      <3>1. s \notin request /\ s \notin fail \cup untimed BY <1>5, <2>1
      <3>2. shm'[s] = shm[s] /\ frames'[s] = frames[s] /\ req'[s] = req[s] /\ rep'[s] = rep[s]
        <4> HIDE DEF request, fail, fetched
        <4> QED BY <1>1, <2>1, <3>1
      <3> QED BY <1>1, <3>2, StreamFacts
    <2>2. CASE s \in fetched
      <3> DEFINE b == s \in request
                 pb == pend(s)
                 rq == IF b THEN req[s] + 1 ELSE req[s]
                 g == [shm[s] EXCEPT !.pending = pb]
                 ft == [frames[s] EXCEPT !.tail = Remaining(s)]
      <3>1. shm'[s] = g /\ req'[s] = rq /\ rep'[s] = 0 /\ frames'[s] \in {ft, frames[s]}
        <4> HIDE DEF request, fail, fetched
        <4> QED BY <1>1, <2>2
      <3>2. b => ~Pending(s) /\ client[s] # "dead" /\ cras_shm_is_buffer_available(shm[s])
        <4> HIDE DEF request, fail, try
        <4> QED BY <1>5
      <3>3. b \in BOOLEAN /\ pb \in BOOLEAN /\ (pb <=> (Pending(s) \/ b))
        <4> HIDE DEF request
        <4> QED BY DEF Pending
      <3> HIDE DEF b, pb, request
      <3>4. /\ StreamOK(s, g, client[s], frames[s], rq, 0, off[s], queued[s])
            /\ StreamOK(s, g, client[s], ft, rq, 0, off[s], queued[s])
        BY <3>2, <3>3, FetchedOne
      <3> HIDE DEF g, ft, rq
      <3> QED BY <1>1, <3>1, <3>4
    <2> QED BY <2>1, <2>2
  <1>8. StreamFuns'
    <2> DEFINE C == {"wait", "stored", "dead"}
    <2>1. \A s \in Streams : /\ shm'[s] \in Header /\ frames'[s] \in Numbers
                             /\ req'[s] \in 0..1 /\ rep'[s] \in 0..1
      BY <1>7, StreamTypes
    <2>2. /\ shm' = [s \in Streams |-> shm'[s]] /\ frames' = [s \in Streams |-> frames'[s]]
          /\ req' = [s \in Streams |-> req'[s]] /\ rep' = [s \in Streams |-> rep'[s]]
      <3> HIDE DEF request, fail, pend, fetched
      <3> QED BY <1>1
    <2>3. /\ shm' \in [Streams -> Header] /\ frames' \in [Streams -> Numbers]
          /\ req' \in [Streams -> 0..1] /\ rep' \in [Streams -> 0..1]
      BY <2>1, <2>2
    <2> QED BY <1>1, <1>2, <2>3 DEF StreamFuns
  <1>9. pass'.phase = "write" /\ pass'.todo = open' BY <1>1
  <1>10. PassOK' BY <1>1, <1>2, <1>9 DEF PassOK
  <1>11. TailsQueued' BY <1>9 DEF TailsQueued
  <1>12. HistOK' BY <1>1, <1>2, <1>11 DEF HistOK
  <1>13. /\ open' \in Seq(Devs) /\ IsInjective(open') /\ live' \subseteq Streams
         /\ drain' \subseteq Streams /\ budget' \in Budget
    BY <1>1, <1>2, <1>4
  <1>14. DevsOK(Lists', live' \cup drain', Range(open')) BY <1>1, <1>6
  <1> QED BY <1>7, <1>8, <1>10, <1>12, <1>13, <1>14 DEF IInv

\* The new read pointer is within what the buffer holds.
LEMMA NewPointFacts ==
  ASSUME IInv, NEW s \in Streams
  PROVE  /\ NewPoint(s) \in Nat /\ NewPoint(s) <= cras_shm_get_frames(shm[s])
         /\ \A d \in Devs : s \in on[d] => NewPoint(s) <= off[s][d]
  <1> DEFINE A == Att(Lists, s)
             S == {off[s][d] : d \in A}
  <1>1. \A d \in Devs : off[s][d] \in Nat /\ off[s][d] <= cras_shm_get_frames(shm[s])
    BY StreamFacts
  <1>2. cras_shm_get_frames(shm[s]) \in Nat BY StreamFacts
  <1>3. A \subseteq Devs /\ \A d \in Devs : s \in on[d] => d \in A BY ListsFields DEF Att
  <1>4. CASE A = {} BY <1>2, <1>3, <1>4 DEF NewPoint
  <1>5. CASE A # {}
    <2>1. NewPoint(s) = Least(S) BY <1>5 DEF NewPoint
    <2>2. S \in SUBSET Nat /\ S # {} BY <1>1, <1>3, <1>5
    <2>3. Least(S) \in S /\ \A x \in S : Least(S) <= x
      <3> HIDE DEF S
      <3> QED BY <2>2, LeastFacts
    <2>4. PICK d \in A : Least(S) = off[s][d] BY <2>3
    <2>5. \A e \in Devs : s \in on[e] => off[s][e] \in S BY <1>3
    <2> HIDE DEF S
    <2> QED BY <1>1, <1>3, <2>1, <2>3, <2>4, <2>5
  <1> QED BY <1>4, <1>5

\* update_output_read_pointers
LEMMA PointersStep ==
  ASSUME IInv, update_output_read_pointers
  PROVE  IInv'
  <1>1. /\ off' = [s \in Streams |-> [d \in Devs |-> IF s \in on[d] THEN off[s][d] - NewPoint(s)
                                                     ELSE 0]]
        /\ shm' = [s \in Streams |-> cras_shm_buffer_read(shm[s], NewPoint(s))]
        /\ frames' = [s \in Streams |-> Renumbered(s, NewPoint(s), shm'[s])]
        /\ queued' = [s \in Streams |-> 0] /\ pass' = Idle
        /\ open' = open /\ live' = live /\ budget' = budget /\ state' = state /\ hw' = hw
        /\ on' = on /\ run' = run /\ due' = due /\ drain' = drain /\ client' = client
        /\ req' = req /\ rep' = rep /\ hist' = hist
    BY DEF update_output_read_pointers, listVars, clientVars
  <1>2. /\ open \in Seq(Devs) /\ IsInjective(open) /\ live \subseteq Streams
        /\ drain \subseteq Streams
        /\ StreamFuns /\ budget \in Budget
    BY DEF IInv
  <1>3. /\ state \in [Devs -> DevStates] /\ hw \in [Devs -> 0..HwSize]
        /\ on \in [Devs -> SUBSET (live \cup drain)] /\ run \in [Devs -> SUBSET (live \cup drain)]
        /\ off \in [Streams -> [Devs -> 0..BufFrames]] /\ due \in [Streams -> BOOLEAN]
        /\ \A d \in Devs : run[d] \subseteq on[d]
        /\ \A d \in Devs : d \notin Range(open) => on[d] = {}
    BY DeviceFacts
  <1>4. ASSUME NEW s \in Streams, NEW d \in Devs
        PROVE  /\ off'[s][d] \in 0..BufFrames
               /\ off'[s][d] <= cras_shm_get_frames(shm[s]) - NewPoint(s)
               /\ s \notin on[d] => off'[s][d] = 0
    <2> DEFINE x == off[s][d]
               n == NewPoint(s)
               f == cras_shm_get_frames(shm[s])
               y == off'[s][d]
    <2>1. y = IF s \in on[d] THEN x - n ELSE 0 BY <1>1
    <2>2. x \in 0..BufFrames /\ x <= f /\ f \in Nat BY <1>3, StreamFacts
    <2>3. n \in Nat /\ n <= f /\ (s \in on[d] => n <= x) BY NewPointFacts
    <2>4. BufFrames \in Nat BY ConstFacts
    <2> HIDE DEF x, n, f, y
    <2>5. y \in 0..BufFrames /\ y <= f - n /\ (s \notin on[d] => y = 0) BY <2>1, <2>2, <2>3, <2>4
    <2> QED BY <2>5 DEF y, n, f
  <1>5. off' \in [Streams -> [Devs -> 0..BufFrames]]
    <2>1. off' = [s \in Streams |-> [d \in Devs |-> off'[s][d]]] BY <1>1
    <2> QED BY <1>4, <2>1
  <1>6. DevsOK(Lists', live \cup drain, Range(open))
    <2> DEFINE V == live \cup drain
    <2>1. on' \in [Devs -> SUBSET V] /\ run' \in [Devs -> SUBSET V] BY <1>1, <1>3
    <2>2. Lists' \in DevState(V)
      <3> HIDE DEF V
      <3> QED BY <1>1, <1>3, <1>5, <2>1 DEF Lists, DevState, DevStates
    <2>3. ASSUME NEW d \in Devs PROVE DevOK(Lists', d, Range(open))
      <3>1. d \notin Range(open) => on'[d] = {} /\ \A s \in Streams : off'[s][d] = 0
        BY <1>1, <1>3, <1>4
      <3> QED BY <1>1, <1>3, <3>1, ListsPrime DEF DevOK
    <2> QED BY <2>2, <2>3 DEF DevsOK
  <1>7. ASSUME NEW s \in Streams
        PROVE  StreamOK(s, shm'[s], client'[s], frames'[s], req'[s], rep'[s], off'[s], queued'[s])
    <2> DEFINE h == shm[s]
               m == NewPoint(s)
               g == cras_shm_buffer_read(h, m)
               o == off'[s]
               ft == Renum(frames[s], m, g)
    <2>1. shm'[s] = g /\ queued'[s] = 0 BY <1>1
    <2>2. frames'[s] = ft
      <3>1. frames'[s] = Renumbered(s, m, shm'[s]) BY <1>1
      <3> QED BY <2>1, <3>1 DEF Renumbered, Renum
    <2>3. StreamOK(s, h, client[s], frames[s], req[s], rep[s], off[s], queued[s]) BY StreamFacts
    <2>4. m \in Nat /\ m <= cras_shm_get_frames(h) BY NewPointFacts
    <2>5. \A d \in Devs : o[d] <= cras_shm_get_frames(h) - m BY <1>4
    <2> HIDE DEF h, m, o
    <2>6. StreamOK(s, g, client[s], ft, req[s], rep[s], o, 0) BY <2>3, <2>4, <2>5, ReadStream
    <2> QED BY <1>1, <2>1, <2>2, <2>6 DEF o
  <1>8. StreamFuns'
    <2>1. \A s \in Streams : shm'[s] \in Header /\ frames'[s] \in Numbers BY <1>7, StreamTypes
    <2>2. shm' = [s \in Streams |-> shm'[s]] /\ frames' = [s \in Streams |-> frames'[s]] BY <1>1
    <2>3. shm' \in [Streams -> Header] /\ frames' \in [Streams -> Numbers] BY <2>1, <2>2
    <2>4. queued' \in [Streams -> 0..BufFrames] BY <1>1, ConstFacts
    <2> QED BY <1>1, <1>2, <2>3, <2>4 DEF StreamFuns
  <1>9. /\ open' \in Seq(Devs) /\ IsInjective(open') /\ live' \subseteq Streams
        /\ drain' \subseteq Streams /\ budget' \in Budget
        /\ DevsOK(Lists', live' \cup drain', Range(open'))
    BY <1>1, <1>2, <1>6
  <1> QED BY <1>1, <1>7, <1>8, <1>9, StreamStep

\* The queued frames are what the buffer held now or earlier, no more.
LEMMA QueuedFacts ==
  ASSUME IInv, NEW d \in Devs
  PROVE  /\ QueuedFrames(d) \in [Streams -> 0..BufFrames]
         /\ \A s \in Streams : /\ QueuedFrames(d)[s] <= cras_shm_get_frames(shm[s])
                               /\ QueuedFrames(d)[s] \in {queued[s], update_queued_frames(s)}
  <1>1. ASSUME NEW s \in Streams
        PROVE  /\ QueuedFrames(d)[s] \in {queued[s], update_queued_frames(s)}
               /\ queued[s] \in 0..BufFrames /\ queued[s] <= cras_shm_get_frames(shm[s])
               /\ update_queued_frames(s) \in 0..BufFrames
               /\ update_queued_frames(s) <= cras_shm_get_frames(shm[s])
    <2> DEFINE f == cras_shm_get_frames(shm[s])
    <2>1. QueuedFrames(d)[s] \in {queued[s], update_queued_frames(s)} BY DEF QueuedFrames
    <2>2. StreamOK(s, shm[s], client[s], frames[s], req[s], rep[s], off[s], queued[s]) /\ f \in Nat
      BY StreamFacts
    <2>3. queued[s] \in 0..BufFrames /\ queued[s] <= f BY <2>2 DEF StreamOK
    <2>4. BufFrames \in Nat BY ConstFacts
    <2>5. update_queued_frames(s) = Smaller(f, BufFrames) BY DEF update_queued_frames
    <2> HIDE DEF f
    <2>6. Smaller(f, BufFrames) \in 0..BufFrames /\ Smaller(f, BufFrames) <= f
      BY <2>2, <2>4, SmallerFacts
    <2> QED BY <2>1, <2>3, <2>5, <2>6 DEF f
  <1>2. QueuedFrames(d) = [s \in Streams |-> QueuedFrames(d)[s]] BY DEF QueuedFrames
  <1>3. \A s \in Streams : QueuedFrames(d)[s] \in 0..BufFrames BY <1>1
  <1>4. \A s \in Streams : QueuedFrames(d)[s] <= cras_shm_get_frames(shm[s]) BY <1>1
  <1> QED BY <1>1, <1>2, <1>3, <1>4

\* The frames that are counted are no fewer than what a stream has to play to the
\* end, or buffer_frames.
LEMMA UpdatedQueued ==
  ASSUME IInv, NEW s \in Streams
  PROVE  Smaller(frames[s].tail, BufFrames) <= update_queued_frames(s)
  <1> DEFINE f == cras_shm_get_frames(shm[s])
             tl == frames[s].tail
  <1>1. StreamOK(s, shm[s], client[s], frames[s], req[s], rep[s], off[s], queued[s])
    BY StreamFacts
  <1>2. f \in Nat /\ tl \in Nat /\ BufFrames \in Nat
    BY <1>1, StreamFrames, NumbersFields, ConstFacts
  <1>3. tl <= f BY <1>1 DEF StreamOK, Numbered
  <1>4. update_queued_frames(s) = Smaller(f, BufFrames) BY DEF update_queued_frames
  <1> HIDE DEF f, tl
  <1>5. Smaller(tl, BufFrames) <= Smaller(f, BufFrames) BY <1>2, <1>3 DEF Smaller
  <1> QED BY <1>4, <1>5 DEF tl

\* A device plays no frame but those that come next.
LEMMA PlaysRight ==
  ASSUME IInv, NEW d \in Devs, NEW L,
         \A s \in Streams : /\ L.off[s][d] \in Nat
                            /\ L.off[s][d] <= cras_shm_get_frames(shm[s])
  PROVE  ~PlaysWrongFrame(L, d)
  <1> SUFFICES ASSUME NEW s \in run[d], ~frames[s].raced, ~frames[s].swapped,
                      NEW x \in off[s][d]..L.off[s][d] - 1
               PROVE  FrameAt(s, x) = x
    BY DEF PlaysWrongFrame
  <1> DEFINE h == shm[s]
             fr == frames[s]
             n == Cb[s]
             y == h.roff[h.ridx] + x
  <1>1. s \in Streams BY DeviceFacts
  <1>2. StreamOK(s, h, client[s], fr, req[s], rep[s], off[s], queued[s]) /\ off[s][d] \in Nat
    BY <1>1, StreamFacts
  <1>3. x \in Nat /\ x < cras_shm_get_frames(h)
    <2>1. cras_shm_get_frames(h) \in Nat BY <1>1, StreamFacts
    <2> QED BY <1>1, <1>2, <2>1
  <1>4. Shape(h, n) BY <1>2 DEF StreamOK
  <1>5. /\ h \in Header /\ fr \in Numbers /\ n \in Nat
        /\ FrameIds \in Nat \ {0} /\ FrameIds > 2 * n /\ Numbered(h, fr) /\ ~fr.raced
        /\ ~fr.swapped
    <2>1. Numbered(h, fr) BY <1>2 DEF StreamOK
    <2> QED BY <1>1, <1>2, <2>1, StreamFrames
  <1>6. FrameAt(s, x) = IF y < h.woff[h.ridx] THEN (fr.first[h.ridx] + y) % FrameIds
                        ELSE (fr.first[1 - h.ridx] + y - h.woff[h.ridx]) % FrameIds
    BY DEF FrameAt
  <1> HIDE DEF h, fr, n
  <1>7. x = IF y < h.woff[h.ridx] THEN (fr.first[h.ridx] + y) % FrameIds
            ELSE (fr.first[1 - h.ridx] + y - h.woff[h.ridx]) % FrameIds
    BY <1>3, <1>4, <1>5, NumberAt
  <1> QED BY <1>6, <1>7

\* What a stream that plays on the device has to play to the end is counted.
LEMMA TailCounted ==
  ASSUME IInv, pass.phase = "write", NEW d \in Devs, d = Head(pass.todo),
         NEW s \in Streams, NEW e \in Devs, s \in on[e],
         Len(open) > 1 \/ pass.todo # open \/ s \in run[d]
  PROVE  Smaller(frames[s].tail, BufFrames) <= QueuedFrames(d)[s]
  <1>1. Smaller(frames[s].tail, BufFrames) <= update_queued_frames(s) BY UpdatedQueued
  <1>2. QueuedFrames(d)[s] \in {queued[s], update_queued_frames(s)} BY QueuedFacts
  <1>3. Att(Lists, s) # {} BY ListsFields DEF Att
  <1>4. CASE pass.todo # open
    <2>1. TailsQueued BY DEF IInv, HistOK
    <2>2. Smaller(frames[s].tail, BufFrames) <= queued[s] BY <1>4, <2>1 DEF TailsQueued
    <2> QED BY <1>1, <1>2, <2>2
  <1>5. CASE pass.todo = open /\ Len(open) > 1
    <2>1. QueuedFrames(d)[s] = update_queued_frames(s) BY <1>3, <1>5 DEF QueuedFrames
    <2> QED BY <1>1, <2>1
  <1>6. CASE pass.todo = open /\ ~(Len(open) > 1)
    <2>1. open \in Seq(Devs) /\ open # <<>> BY <1>6 DEF IInv, PassOK
    <2>2. Range(open) = {d}
      <3>1. Len(open) <= 1 BY <1>6, <2>1
      <3> QED BY <1>6, <2>1, <3>1, HeadTailRange
    <2>3. s \in run[d] BY <1>6
    <2>4. /\ run[d] \subseteq on[d]
          /\ \A f \in Devs : f \notin Range(open) => on[f] = {}
      BY DeviceFacts
    <2>5. Att(Lists, s) = {d} BY <2>2, <2>3, <2>4, ListsFields DEF Att
    <2>6. Cardinality(Att(Lists, s)) = 1 BY <2>5, FS_Singleton
    <2>7. QueuedFrames(d)[s] = update_queued_frames(s) BY <2>3, <2>6 DEF QueuedFrames
    <2> QED BY <1>1, <2>7
  <1> QED BY <1>4, <1>5, <1>6

\* The write to one device: dev_io_playback_write for it.
LEMMA WriteStep ==
  ASSUME IInv, NEW d \in Devs, Write(d)
  PROVE  IInv'
  <1> DEFINE q == QueuedFrames(d)
             V == live \cup drain
             O == Range(open)
             L0 == Lists
             P == Prepared(L0, q, d)
  <1>1. /\ pass.phase = "write" /\ d = Head(pass.todo) /\ queued' = q
        /\ pass' = IF Len(pass.todo) > 1 THEN [pass EXCEPT !.todo = Tail(@)]
                   ELSE [phase |-> "pointers", todo |-> <<>>]
        /\ open' = open /\ live' = live /\ budget' = budget /\ shm' = shm /\ drain' = drain
        /\ client' = client /\ req' = req /\ rep' = rep /\ frames' = frames
    BY DEF Write, listVars, clientVars
  <1>2. PICK L \in Writes(P, q, d) :
          /\ Becomes(Checked(L, d))
          /\ hist' = [hist EXCEPT !.broken = @ \/ PlaysWrongFrame(L, d),
                                  !.cut = @ \/ CutsOff(L, q, d)]
    BY DEF Write
  <1>3. /\ open \in Seq(Devs) /\ IsInjective(open) /\ live \subseteq Streams
        /\ drain \subseteq Streams
        /\ StreamFuns /\ PassOK /\ HistOK /\ budget \in Budget
    BY DEF IInv
  <1>4. /\ q \in [Streams -> 0..BufFrames]
        /\ \A s \in Streams : q[s] <= cras_shm_get_frames(shm[s])
    BY QueuedFacts
  <1>5. V \in SUBSET Streams /\ DevsOK(L0, V, O) BY DeviceFacts
  <1>6. \A s \in Streams : /\ cras_shm_get_frames(shm[s]) \in Nat
                           /\ \A e \in Devs : /\ off[s][e] \in Nat
                                              /\ off[s][e] <= cras_shm_get_frames(shm[s])
    BY StreamFacts
  <1>7. L0.on = on /\ L0.run = run /\ L0.off = off BY ListsFields
  <1> DEFINE C == Checked(L, d)
  <1>8. DevsOK(P, V, O) /\ P.on = L0.on /\ P.run = L0.run /\ P.off = L0.off
    <2> HIDE DEF q, V, O, L0
    <2> QED BY <1>5, PreparedOK
  <1>9. DevsOK(L, V, O) /\ Moves(P, L, q)
    <2>1. DevsOK(L, V, Range(open)) /\ Moves(P, L, q)
      <3>1. DevsOK(P, V, Range(open)) BY <1>8
      <3> HIDE DEF q, V, O, L0, P
      <3> QED BY <1>2, <1>3, <1>4, <1>5, <3>1, WritesOK
    <2> QED BY <2>1
  <1>10. DevsOK(C, V, O) /\ C.on = L.on /\ C.run = L.run /\ C.off = L.off
    <2> HIDE DEF V, O
    <2> QED BY <1>5, <1>9, CheckedOK
  <1>11. /\ state' = C.state /\ hw' = C.hw /\ on' = C.on /\ run' = C.run /\ off' = C.off
         /\ due' = C.due
    BY <1>2 DEF Becomes
  <1> HIDE DEF q, V, O, L0, P, C
  <1>12. DevsOK(Lists', V, O) BY <1>10, <1>11, BecomesOK
  <1>13. L \in DevState(V) BY <1>9 DEF DevsOK
  <1>14. ASSUME NEW s \in Streams, NEW e \in Devs
         PROVE  L.off[s][e] \in Nat /\ L.off[s][e] <= cras_shm_get_frames(shm[s])
    <2>1. L.off[s][e] \in Nat BY <1>13, DevFields, ConstFacts
    <2>2. L.off[s][e] <= off[s][e] \/ L.off[s][e] <= q[s] BY <1>7, <1>8, <1>9 DEF Moves
    <2>3. q[s] \in Nat /\ q[s] <= cras_shm_get_frames(shm[s]) BY <1>4, ConstFacts
    <2> QED BY <1>6, <2>1, <2>2, <2>3
  <1>15. \A e \in Devs : on'[e] \subseteq on[e] BY <1>7, <1>8, <1>9, <1>10, <1>11 DEF Moves
  <1>16. ASSUME NEW s \in Streams
         PROVE  StreamOK(s, shm'[s], client'[s], frames'[s], req'[s], rep'[s], off'[s], queued'[s])
    <2> DEFINE o == off'[s]
               k == q[s]
    <2>1. \A e \in Devs : o[e] <= cras_shm_get_frames(shm[s]) BY <1>10, <1>11, <1>14
    <2>2. k \in 0..BufFrames /\ k <= cras_shm_get_frames(shm[s]) BY <1>4
    <2>3. StreamOK(s, shm[s], client[s], frames[s], req[s], rep[s], off[s], queued[s])
      BY StreamFacts
    <2> HIDE DEF o, k
    <2>4. StreamOK(s, shm[s], client[s], frames[s], req[s], rep[s], o, k)
      BY <2>1, <2>2, <2>3, OffsetsOK
    <2> QED BY <1>1, <2>4 DEF o, k
  <1>17. StreamFuns' BY <1>1, <1>3, <1>4 DEF StreamFuns
  <1>18. ~PlaysWrongFrame(L, d) BY <1>14, PlaysRight
  <1>19. pass.todo \in Seq(Devs) /\ pass.todo # <<>> BY <1>1, <1>3 DEF PassOK
  <1>20. \/ Len(pass.todo) > 1 /\ pass' = [pass EXCEPT !.todo = Tail(pass.todo)]
         \/ pass' = [phase |-> "pointers", todo |-> <<>>]
    BY <1>1
  <1>21. PassOK'
    <2>1. CASE Len(pass.todo) > 1 /\ pass' = [pass EXCEPT !.todo = Tail(pass.todo)]
      <3> DEFINE t == Tail(pass.todo)
      <3>1. t \in Seq(Devs) /\ t # <<>>
        <4> DEFINE p == pass.todo
        <4>1. p \in Seq(Devs) /\ p # <<>> /\ Len(p) > 1 BY <1>19, <2>1
        <4> HIDE DEF p
        <4>2. Tail(p) \in Seq(Devs) /\ Len(Tail(p)) = Len(p) - 1 /\ Len(p) \in Nat BY <4>1
        <4>3. Len(Tail(p)) > 0 BY <4>1, <4>2
        <4>4. \A z \in Seq(Devs) : Len(z) > 0 => z # <<>> OBVIOUS
        <4> QED BY <4>2, <4>3, <4>4 DEF p
      <3> HIDE DEF t
      <3>2. pass' = [pass EXCEPT !.todo = t] BY <2>1 DEF t
      <3> QED BY <1>3, <3>1, <3>2 DEF PassOK
    <2>2. CASE pass' = [phase |-> "pointers", todo |-> <<>>] BY <2>2 DEF PassOK
    <2> QED BY <1>20, <2>1, <2>2
  <1>22. ~CutsOff(L, q, d)
    <2> SUFFICES ASSUME NEW s \in run[d], q[s] < Smaller(frames[s].tail, BufFrames) PROVE FALSE
      BY DEF CutsOff
    <2>1. s \in Streams /\ s \in on[d] BY DeviceFacts
    <2>2. Smaller(frames[s].tail, BufFrames) <= q[s] BY <1>1, <2>1, TailCounted DEF q
    <2>3. q[s] \in Nat BY <1>4, <2>1, ConstFacts
    <2>4. frames[s].tail \in Nat /\ BufFrames \in Nat
      BY <1>3, <2>1, NumbersFields, ConstFacts DEF StreamFuns
    <2>5. Smaller(frames[s].tail, BufFrames) \in Nat BY <2>4, SmallerFacts
    <2> QED BY <2>2, <2>3, <2>5
  <1>23. TailsQueued'
    <2>1. CASE Len(pass.todo) > 1
      <3>1. Len(open) > 1 \/ pass.todo # open BY <2>1
      <3>2. ASSUME NEW s \in Streams, NEW e \in Devs, s \in on'[e]
            PROVE  Smaller(frames'[s].tail, BufFrames) <= queued'[s]
        <4>1. s \in on[e] BY <1>15, <3>2
        <4>2. Smaller(frames[s].tail, BufFrames) <= QueuedFrames(d)[s]
          BY <1>1, <3>1, <4>1, TailCounted
        <4> QED BY <1>1, <4>2 DEF q
      <3> QED BY <3>2, ConstFacts DEF TailsQueued
    <2>2. CASE ~(Len(pass.todo) > 1)
      <3>1. pass'.phase = "pointers" BY <1>20, <2>2
      <3> QED BY <3>1 DEF TailsQueued
    <2> QED BY <2>1, <2>2
  <1>24. HistOK'
    <2> DEFINE b == hist.broken \/ PlaysWrongFrame(L, d)
               c == hist.cut \/ CutsOff(L, q, d)
    <2>1. hist' = [hist EXCEPT !.broken = b, !.cut = c] BY <1>2
    <2>2. hist \in [broken : BOOLEAN, cut : BOOLEAN] /\ ~hist.broken /\ ~hist.cut
      BY <1>3 DEF HistOK
    <2>3. b \in BOOLEAN /\ ~b BY <1>18, <2>2
    <2>4. c \in BOOLEAN /\ ~c BY <1>22, <2>2
    <2> HIDE DEF b, c
    <2>5. hist' \in [broken : BOOLEAN, cut : BOOLEAN] /\ hist'.broken = b /\ hist'.cut = c
      BY <2>1, <2>2, <2>3, <2>4
    <2>6. ~hist'.broken /\ ~hist'.cut BY <2>3, <2>4, <2>5
    <2> QED BY <1>23, <2>5, <2>6 DEF HistOK
  <1>25. DevsOK(Lists', live' \cup drain', Range(open')) BY <1>1, <1>12 DEF V, O
  <1>26. /\ open' \in Seq(Devs) /\ IsInjective(open') /\ live' \subseteq Streams
         /\ drain' \subseteq Streams /\ budget' \in Budget
    BY <1>1, <1>3
  <1> QED BY <1>16, <1>17, <1>21, <1>24, <1>25, <1>26 DEF IInv

-----------------------------------------------------------------------------
(* The invariant holds.                                                    *)

\* Initially no device is open and no stream is there.
LEMMA InitOK == Init => IInv
  <1> SUFFICES ASSUME Init PROVE IInv OBVIOUS
  <1> DEFINE cl == "closed"
             wt == "wait"
             no == FALSE
             e == {}
             C == {"wait", "stored", "dead"}
  <1>1. /\ open = <<>> /\ state = [d \in Devs |-> cl] /\ hw = [d \in Devs |-> 0]
        /\ on = [d \in Devs |-> e] /\ run = [d \in Devs |-> e]
        /\ off = [s \in Streams |-> [d \in Devs |-> 0]] /\ queued = [s \in Streams |-> 0]
        /\ shm = [s \in Streams |-> FreshShm] /\ due = [s \in Streams |-> no]
        /\ live = {} /\ drain = {} /\ client = [s \in Streams |-> wt]
        /\ req = [s \in Streams |-> 0] /\ rep = [s \in Streams |-> 0]
        /\ frames = [s \in Streams |-> FreshFrames] /\ pass = Idle /\ budget \in Budgets
        /\ hist = [broken |-> FALSE, cut |-> FALSE]
    BY DEF Init
  <1>2. /\ cl \in DevStates /\ no \in BOOLEAN /\ wt \in C /\ e = {} /\ e \in SUBSET (live \cup drain)
        /\ 0 \in 0..HwSize /\ 0 \in 0..BufFrames /\ 0 \in 0..1
    BY ConstFacts DEF DevStates
  <1>3. open \in Seq(Devs) /\ IsInjective(open) /\ Range(open) = {}
    BY <1>1 DEF IsInjective, Range
  <1>4. budget \in Budget BY <1>1, ConstFacts
  <1>5. PassOK BY <1>1 DEF PassOK, Idle
  <1>6. HistOK
    <2>1. TailsQueued BY <1>1 DEF TailsQueued, Idle
    <2> QED BY <1>1, <2>1 DEF HistOK
  <1>7. \A s \in Streams : FreshFrames \in Numbers BY FreshNumbers, ConstFacts
  <1> HIDE DEF cl, wt, no, e, C
  <1>8. DevsOK(Lists, live \cup drain, Range(open))
    <2> DEFINE V == live \cup drain
    <2>1. /\ state \in [Devs -> DevStates] /\ hw \in [Devs -> 0..HwSize]
          /\ on \in [Devs -> SUBSET V] /\ run \in [Devs -> SUBSET V]
          /\ off \in [Streams -> [Devs -> 0..BufFrames]] /\ due \in [Streams -> BOOLEAN]
      <3> HIDE DEF V
      <3>1. e \in SUBSET V BY <1>2 DEF V
      <3> QED BY <1>1, <1>2, <3>1
    <2> HIDE DEF V
    <2>2. Lists \in DevState(V) BY <2>1 DEF Lists, DevState, DevStates
    <2>3. ASSUME NEW d \in Devs PROVE DevOK(Lists, d, Range(open))
      <3>1. run[d] = {} /\ on[d] = {} /\ \A s \in Streams : off[s][d] = 0 BY <1>1, <1>2
      <3> QED BY <3>1, ListsFields DEF DevOK
    <2> QED BY <2>2, <2>3 DEF DevsOK, V
  <1>9. StreamFuns
    <2>1. client \in [Streams -> C] /\ req \in [Streams -> 0..1] /\ rep \in [Streams -> 0..1]
          /\ queued \in [Streams -> 0..BufFrames]
      BY <1>1, <1>2
    <2>2. shm \in [Streams -> Header] /\ frames \in [Streams -> Numbers]
      BY <1>1, <1>7, FreshHeader
    <2> QED BY <2>1, <2>2 DEF StreamFuns, C
  <1>10. ASSUME NEW s \in Streams
         PROVE  StreamOK(s, shm[s], client[s], frames[s], req[s], rep[s], off[s], queued[s])
    <2> DEFINE o == off[s]
    <2>1. \A d \in Devs : o[d] = 0 BY <1>1
    <2>2. /\ shm[s] = FreshShm /\ client[s] = wt /\ frames[s] = FreshFrames /\ req[s] = 0
          /\ rep[s] = 0 /\ queued[s] = 0
      BY <1>1
    <2> HIDE DEF o
    <2>3. StreamOK(s, FreshShm, "wait", FreshFrames, 0, 0, o, 0) BY <2>1, FreshStream
    <2> QED BY <2>2, <2>3 DEF o, wt
  <1>11. live \subseteq Streams /\ drain \subseteq Streams BY <1>1
  <1> QED BY <1>3, <1>4, <1>5, <1>6, <1>8, <1>9, <1>10, <1>11 DEF IInv

\* Every step keeps it.
LEMMA NextOK == IInv /\ [Next]_vars => IInv'
  <1> SUFFICES ASSUME IInv, [Next]_vars PROVE IInv' OBVIOUS
  <1>1. CASE dev_io_playback_fetch BY <1>1, FetchStep
  <1>2. ASSUME NEW d \in Devs, Write(d) PROVE IInv' BY <1>2, WriteStep
  <1>3. CASE update_output_read_pointers BY <1>3, PointersStep
  <1>4. ASSUME NEW s \in Streams, AddStream(s) PROVE IInv' BY <1>4, AddStreamStep
  <1>5. ASSUME NEW s \in Streams, stream_list_rm(s) PROVE IInv' BY <1>5, RemoveStep
  <1>6. ASSUME NEW s \in Streams, drain_timer(s) PROVE IInv' BY <1>6, DrainTimerStep
  <1>7. ASSUME NEW s \in Streams, TimePasses(s) PROVE IInv' BY <1>7, TimePassesStep
  <1>8. ASSUME NEW s \in Streams, Callback(s) PROVE IInv' BY <1>8, CallbackStep
  <1>9. ASSUME NEW s \in Streams, Complete(s) PROVE IInv' BY <1>9, CompleteStep
  <1>10. ASSUME NEW s \in Streams, ClientDies(s) PROVE IInv' BY <1>10, ClientDiesStep
  <1>11. ASSUME NEW d \in Devs, OpenDev(d) PROVE IInv' BY <1>11, OpenDevStep
  <1>12. ASSUME NEW d \in Devs, dev_io_rm_open_dev(d) PROVE IInv' BY <1>12, CloseDevStep
  <1>13. ASSUME NEW d \in Devs, Play(d) PROVE IInv' BY <1>13, PlayStep
  <1>14. CASE UNCHANGED vars
    BY <1>14 DEF vars, IInv, Lists, StreamFuns, PassOK, HistOK, TailsQueued
  <1> QED
    BY <1>1, <1>2, <1>3, <1>4, <1>5, <1>6, <1>7, <1>8, <1>9, <1>10, <1>11, <1>12, <1>13, <1>14
    DEF Next, AudioThread, ClientThread

\* The inductive invariant holds in every reachable state of the playback path.
THEOREM PlaybackInvariant == Spec => []IInv
  BY InitOK, NextOK, PTL DEF Spec

\* The state of the playback path is well typed: a device's buffer is never
\* filled beyond its size, a stream that plays is on the list or draining, and
\* no second request or reply is on an audio socket.
THEOREM PlaybackTypeCorrect == Spec => []TypeOK
  <1>1. IInv => TypeOK
    <2> SUFFICES ASSUME IInv PROVE TypeOK OBVIOUS
    <2>1. /\ state \in [Devs -> {"closed", "open", "run", "nostream"}]
          /\ hw \in [Devs -> 0..HwSize] /\ on \in [Devs -> SUBSET (live \cup drain)]
          /\ off \in [Streams -> [Devs -> 0..BufFrames]] /\ due \in [Streams -> BOOLEAN]
          /\ \A d \in Devs : run[d] \subseteq on[d]
      BY DeviceFacts DEF DevStates
    <2>2. /\ open \in Seq(Devs) /\ live \subseteq Streams /\ drain \subseteq Streams
          /\ StreamFuns /\ PassOK /\ HistOK /\ budget \in Budget
      BY DEF IInv
    <2> QED BY <2>1, <2>2 DEF TypeOK, StreamFuns, PassOK, HistOK, Header, Numbers, Budget
  <1> QED BY <1>1, PlaybackInvariant, PTL

\* No device is ever ahead of what the buffer of a stream holds, so that the
\* unsigned difference of cras_rstream_playable_frames does not wrap around.
THEOREM OffsetsDoNotWrap == Spec => []NoWrap
  <1>1. IInv => NoWrap BY StreamFacts DEF NoWrap
  <1> QED BY <1>1, PlaybackInvariant, PTL

-----------------------------------------------------------------------------
(* The turns of client and server.                                         *)

\* The half that the next request will fill is e: the half being read is empty only
\* when both are, and the other one is filled only when it comes next.
Turn(h, e) ==
    /\ e = h.ridx => (h.woff[h.ridx] = 0 <=> h.woff[1 - h.ridx] = 0)
    /\ e # h.ridx => h.woff[h.ridx] > 0 /\ h.woff[1 - h.ridx] = 0

\* Between its two stores the client's half is visible, and widx still names it.
Turned(h, c) ==
    \E e \in Halves : /\ Turn(h, e)
                      /\ c = "wait" => e = h.widx
                      /\ c = "stored" => e = 1 - h.widx

\* Where all callbacks return frames, client and server take turns.
TurnInv ==
    0 \notin budget.answers =>
       \A s \in Streams : Turned(shm[s], client[s]) /\ ~frames[s].swapped

\* What callbacks return is never changed.
LEMMA SameAnswers ==
  ASSUME IInv, [Next]_vars
  PROVE  budget'.answers = budget.answers
  <1>1. budget \in Budget BY DEF IInv
  <1>2. \/ budget' = budget
        \/ budget' = [budget EXCEPT !.opens = @ - 1]
        \/ budget' = [budget EXCEPT !.leaves = @ - 1]
        \/ budget' = [budget EXCEPT !.deaths = @ - 1]
        \/ \E s \in Streams : budget' = [budget EXCEPT !.adds[s] = @ - 1]
    <2>1. CASE UNCHANGED vars BY <2>1 DEF vars
    <2>2. CASE AudioThread
      BY <2>2 DEF AudioThread, dev_io_playback_fetch, Write, update_output_read_pointers, listVars
    <2>3. ASSUME NEW s \in Streams, \/ AddStream(s) \/ stream_list_rm(s) \/ drain_timer(s)
                                    \/ TimePasses(s) \/ ClientThread(s) \/ ClientDies(s)
          PROVE  \/ budget' = budget
                 \/ budget' = [budget EXCEPT !.leaves = @ - 1]
                 \/ budget' = [budget EXCEPT !.deaths = @ - 1]
                 \/ budget' = [budget EXCEPT !.adds[s] = @ - 1]
      BY <2>3 DEF AddStream, stream_list_rm, drain_timer, TimePasses, ClientThread, ClientDies,
                  Callback, Complete, listVars
    <2>4. ASSUME NEW d \in Devs, OpenDev(d) \/ dev_io_rm_open_dev(d) \/ Play(d)
          PROVE  \/ budget' = budget
                 \/ budget' = [budget EXCEPT !.opens = @ - 1]
                 \/ budget' = [budget EXCEPT !.leaves = @ - 1]
      BY <2>4 DEF OpenDev, dev_io_rm_open_dev, Play, listVars
    <2> QED BY <2>1, <2>2, <2>3, <2>4 DEF Next
  <1> QED BY <1>1, <1>2 DEF Budget

\* A header that differs only in its pending flag has the same turn.
LEMMA PendingTurn ==
  ASSUME NEW h \in Header, NEW c, Turned(h, c), NEW b \in BOOLEAN
  PROVE  Turned([h EXCEPT !.pending = b], c)
  <1> DEFINE g == [h EXCEPT !.pending = b]
  <1>1. g.woff = h.woff /\ g.widx = h.widx /\ g.ridx = h.ridx BY PendingFields
  <1> HIDE DEF g
  <1>2. Turned(g, c) BY <1>1 DEF Turned, Turn
  <1> QED BY <1>2 DEF g

\* A new stream: the client fills the half that is read first.
LEMMA FreshTurn == Turned(FreshShm, "wait")
  <1>1. Turn(FreshShm, FreshShm.widx) /\ FreshShm.widx \in Halves
    BY FreshHeader DEF Turn, Halves
  <1> QED BY <1>1 DEF Turned

\* Reading does not change whose turn it is.
LEMMA ReadTurn ==
  ASSUME NEW h \in Header, NEW n \in Nat, Shape(h, n), NEW c, Turned(h, c),
         NEW m \in Nat, m <= cras_shm_get_frames(h)
  PROVE  Turned(cras_shm_buffer_read(h, m), c)
  <1> DEFINE g == cras_shm_buffer_read(h, m)
             r == h.ridx
             o == 1 - r
             a == h.woff[r]
             b == h.woff[o]
             p == h.roff[r]
             rest == p + m - a
  <1>1. /\ g.widx = h.widx
        /\ \/ m = 0 /\ g = h
           \/ m > 0 /\ rest < 0 /\ g.ridx = r /\ g.woff = h.woff
           \/ m > 0 /\ rest >= 0 /\ rest < b /\ g.ridx = o /\ g.woff[r] = 0 /\ g.woff[o] = b
           \/ m > 0 /\ rest > 0 /\ rest >= b /\ g.ridx = r /\ g.woff[r] = 0 /\ g.woff[o] = 0
           \/ m > 0 /\ rest = 0 /\ b = 0 /\ g.ridx = o /\ g.woff[r] = 0 /\ g.woff[o] = 0
    BY ReadFields
  <1>2. /\ r \in Halves /\ o \in Halves /\ o # r /\ 1 - o = r
        /\ a \in Nat /\ b \in Nat /\ p \in Nat
    BY HeaderFields
  <1>3. p < a \/ (p = 0 /\ a = 0) BY DEF Shape
  <1>4. cras_shm_get_frames(h) = (a - p) + b BY FramesOf
  <1>5. rest <= b BY <1>2, <1>4
  <1>6. PICK e \in Halves : /\ Turn(h, e)
                            /\ c = "wait" => e = h.widx
                            /\ c = "stored" => e = 1 - h.widx
    BY DEF Turned
  <1>7. /\ e = r => (a = 0 <=> b = 0)
        /\ e # r => a > 0 /\ b = 0
    BY <1>6 DEF Turn
  <1>8. e = r \/ e = o BY <1>2, OtherHalf
  <1>9. Turn(g, e) <=>
          /\ e = g.ridx => (g.woff[g.ridx] = 0 <=> g.woff[1 - g.ridx] = 0)
          /\ e # g.ridx => g.woff[g.ridx] > 0 /\ g.woff[1 - g.ridx] = 0
    BY DEF Turn
  <1> HIDE DEF g, o, r
  <1>10. Turn(g, e)
    <2>1. CASE m = 0 /\ g = h BY <1>6, <2>1
    <2>2. CASE m > 0 /\ rest < 0 /\ g.ridx = r /\ g.woff = h.woff
      <3>1. 1 - g.ridx = o BY <2>2 DEF o
      <3> QED BY <1>7, <1>9, <2>2, <3>1
    <2>3. CASE m > 0 /\ rest >= 0 /\ rest < b /\ g.ridx = o /\ g.woff[r] = 0 /\ g.woff[o] = b
      <3>1. 1 - g.ridx = r BY <1>2, <2>3
      <3>2. e = r BY <1>2, <1>7, <1>8, <2>3
      <3> QED BY <1>2, <1>9, <2>3, <3>1, <3>2
    <2>4. CASE m > 0 /\ rest > 0 /\ rest >= b /\ g.ridx = r /\ g.woff[r] = 0 /\ g.woff[o] = 0
      <3>1. 1 - g.ridx = o BY <2>4 DEF o
      <3>2. e = r BY <1>2, <1>5, <1>7, <2>4
      <3> QED BY <1>9, <2>4, <3>1, <3>2
    <2>5. CASE m > 0 /\ rest = 0 /\ b = 0 /\ g.ridx = o /\ g.woff[r] = 0 /\ g.woff[o] = 0
      <3>1. 1 - g.ridx = r BY <1>2, <2>5
      <3>2. e = o BY <1>2, <1>3, <1>7, <1>8, <2>5
      <3> QED BY <1>9, <2>5, <3>1, <3>2
    <2> QED BY <1>1, <2>1, <2>2, <2>3, <2>4, <2>5
  <1> QED BY <1>1, <1>6, <1>10 DEF Turned, g

\* A store of n > 0 frames into an empty half passes the turn on, and the halves do not
\* change places.
LEMMA StoreTurn ==
  ASSUME NEW h \in Header, Turned(h, "wait"), h.woff[h.widx] = 0, NEW n \in Nat, n > 0,
         NEW g \in Header, g.ridx = h.ridx, g.woff[h.widx] = n,
         g.woff[1 - h.widx] = h.woff[1 - h.widx]
  PROVE  /\ ~Swaps(h, n)
         /\ g.widx = h.widx => Turned(g, "stored")
         /\ g.widx = 1 - h.widx => Turned(g, "wait")
  <1> DEFINE r == h.ridx
             o == 1 - r
             w == h.widx
             a == h.woff[r]
             b == h.woff[o]
  <1>1. /\ r \in Halves /\ o \in Halves /\ o # r /\ 1 - o = r /\ w \in Halves
        /\ 1 - w \in Halves /\ a \in Nat /\ b \in Nat
    BY HeaderFields, HalfFacts
  <1>2. /\ w = r => (a = 0 <=> b = 0)
        /\ w # r => a > 0 /\ b = 0
    BY DEF Turned, Turn
  <1>3. w = r \/ w = o BY <1>1, OtherHalf
  <1>4. w = r => b = 0 BY <1>2
  <1>5. ~Swaps(h, n) BY <1>1, <1>4 DEF Swaps
  <1>6. Turn(g, 1 - w)
    <2>1. CASE w = r
      <3>1. g.woff[r] = n /\ g.woff[o] = 0 BY <1>4, <2>1
      <3> QED BY <1>1, <2>1, <3>1 DEF Turn
    <2>2. CASE w = o
      <3>1. g.woff[o] = n /\ g.woff[r] = a /\ a > 0 BY <1>1, <1>2, <2>2
      <3> QED BY <1>1, <2>2, <3>1 DEF Turn
    <2> QED BY <1>3, <2>1, <2>2
  <1>7. g.widx = w => Turned(g, "stored") BY <1>1, <1>6 DEF Turned
  <1>8. g.widx = 1 - w => Turned(g, "wait") BY <1>1, <1>6 DEF Turned
  <1> QED BY <1>5, <1>7, <1>8

\* The header, the client and the numbers of a stream stay as they are.
LEMMA TurnKept ==
  ASSUME TurnInv, budget'.answers = budget.answers, shm' = shm, client' = client,
         \A s \in Streams : frames'[s].swapped = frames[s].swapped
  PROVE  TurnInv'
  BY DEF TurnInv

\* What a step does to the turn of one stream, when the others keep theirs.
LEMMA OneTurn ==
  ASSUME IInv, TurnInv, budget'.answers = budget.answers, NEW s \in Streams,
         NEW h, shm' = [shm EXCEPT ![s] = h], NEW c, client' = [client EXCEPT ![s] = c],
         NEW fr, frames' = [frames EXCEPT ![s] = fr],
         0 \notin budget.answers => Turned(h, c) /\ ~fr.swapped
  PROVE  TurnInv'
  <1>1. shm \in [Streams -> Header] /\ frames \in [Streams -> Numbers] BY DEF IInv, StreamFuns
  <1>2. client \in [Streams -> {"wait", "stored", "dead"}] BY DEF IInv, StreamFuns
  <1> SUFFICES ASSUME 0 \notin budget.answers, NEW t \in Streams
               PROVE  Turned(shm'[t], client'[t]) /\ ~frames'[t].swapped
    BY DEF TurnInv
  <1>3. CASE t = s
    <2>1. shm'[t] = h /\ client'[t] = c /\ frames'[t] = fr BY <1>1, <1>2, <1>3
    <2> QED BY <2>1
  <1>4. CASE t # s
    <2>1. shm'[t] = shm[t] /\ client'[t] = client[t] /\ frames'[t] = frames[t]
      BY <1>1, <1>2, <1>4
    <2> QED BY <2>1 DEF TurnInv
  <1> QED BY <1>3, <1>4

\* Numbers with another tail are as swapped as before.
LEMMA TailSwapped ==
  ASSUME NEW fr \in Numbers, NEW t
  PROVE  [fr EXCEPT !.tail = t].swapped = fr.swapped
  BY DEF Numbers

\* A stream that is destroyed makes room for a new one.
LEMMA DestroyedTurn ==
  ASSUME IInv, TurnInv, budget'.answers = budget.answers, NEW s \in Streams, Destroyed(s)
  PROVE  TurnInv'
  <1> DEFINE wt == "wait"
  <1>1. /\ shm' = [shm EXCEPT ![s] = FreshShm] /\ client' = [client EXCEPT ![s] = wt]
        /\ frames' = [frames EXCEPT ![s] = FreshFrames]
    BY DEF Destroyed
  <1>2. Turned(FreshShm, wt) /\ ~FreshFrames.swapped BY FreshTurn, FreshNumbers, ConstFacts
  <1> HIDE DEF wt
  <1> QED BY <1>1, <1>2, OneTurn

\* A stream begins to drain, or is destroyed.
LEMMA RemoveTurn ==
  ASSUME IInv, TurnInv, budget'.answers = budget.answers, NEW s \in Streams, stream_list_rm(s)
  PROVE  TurnInv'
  <1>1. CASE Destroyed(s) BY <1>1, DestroyedTurn
  <1>2. CASE /\ frames' = [frames EXCEPT ![s].tail = Remaining(s)]
             /\ UNCHANGED <<devVars, queued, shm, clientVars>>
    <2> DEFINE r == Remaining(s)
               ft == [frames[s] EXCEPT !.tail = r]
    <2>1. shm' = shm /\ client' = client BY <1>2 DEF clientVars
    <2>2. frames' = [frames EXCEPT ![s] = ft] BY <1>2
    <2>3. frames \in [Streams -> Numbers] BY DEF IInv, StreamFuns
    <2> HIDE DEF r
    <2>4. ft.swapped = frames[s].swapped BY <2>3, TailSwapped
    <2> HIDE DEF ft
    <2>5. \A t \in Streams : frames'[t].swapped = frames[t].swapped BY <2>2, <2>3, <2>4
    <2> QED BY <2>1, <2>5, TurnKept
  <1> QED BY <1>1, <1>2 DEF stream_list_rm

\* The fetch changes pending flags and tails only.
LEMMA FetchTurn ==
  ASSUME IInv, TurnInv, budget'.answers = budget.answers, dev_io_playback_fetch
  PROVE  TurnInv'
  <1>1. client' = client BY DEF dev_io_playback_fetch
  <1>2. frames \in [Streams -> Numbers] /\ shm \in [Streams -> Header] BY DEF IInv, StreamFuns
  <1>3. PICK N \in SUBSET budget.late, untimed \in SUBSET Streams :
          Fetches({s \in Streams : Att(Lists, s) \ N # {}}, untimed)
    <2>1. dev_io_playback_fetch => \E N \in SUBSET budget.late :
            \E untimed \in SUBSET Streams :
               Fetches({s \in Streams : Att(Lists, s) \ N # {}}, untimed)
      BY DEF dev_io_playback_fetch, Fetches
    <2> QED BY <2>1
  <1> DEFINE fetched == {s \in Streams : Att(Lists, s) \ N # {}}
  <1> SUFFICES ASSUME 0 \notin budget.answers, NEW s \in Streams
               PROVE  Turned(shm'[s], client'[s]) /\ ~frames'[s].swapped
    BY DEF TurnInv
  <1>4. Turned(shm[s], client[s]) /\ ~frames[s].swapped BY DEF TurnInv
  <1>5. frames'[s] = frames[s] \/ frames'[s] = [frames[s] EXCEPT !.tail = Remaining(s)]
    BY <1>3 DEF Fetches
  <1>6. ~frames'[s].swapped BY <1>2, <1>4, <1>5, TailSwapped
  <1>7. \/ shm'[s] = shm[s]
        \/ \E b \in BOOLEAN : shm'[s] = [shm[s] EXCEPT !.pending = b]
    <2> DEFINE request == {u \in {v \in {w \in fetched : Asks(w)} : cras_shm_is_buffer_available(shm[v])}
                             : client[u] # "dead"}
    <2>1. \/ shm'[s] = shm[s]
          \/ shm'[s] = [shm[s] EXCEPT !.pending = Pending(s) \/ s \in request]
      BY <1>3 DEF Fetches
    <2>2. (Pending(s) \/ s \in request) \in BOOLEAN OBVIOUS
    <2> HIDE DEF request
    <2> QED BY <2>1, <2>2
  <1>8. Turned(shm'[s], client[s])
    <2>1. shm[s] \in Header BY <1>2
    <2> QED BY <1>4, <1>7, <2>1, PendingTurn
  <1> QED BY <1>1, <1>6, <1>8

\* The read pointers move.
LEMMA PointersTurn ==
  ASSUME IInv, TurnInv, budget'.answers = budget.answers, update_output_read_pointers
  PROVE  TurnInv'
  <1>1. client' = client /\ shm' = [s \in Streams |-> cras_shm_buffer_read(shm[s], NewPoint(s))]
        /\ frames' = [s \in Streams |-> Renumbered(s, NewPoint(s), shm'[s])]
    BY DEF update_output_read_pointers, clientVars
  <1> SUFFICES ASSUME 0 \notin budget.answers, NEW s \in Streams
               PROVE  Turned(shm'[s], client'[s]) /\ ~frames'[s].swapped
    BY DEF TurnInv
  <1>2. Turned(shm[s], client[s]) /\ ~frames[s].swapped BY DEF TurnInv
  <1>3. NewPoint(s) \in Nat /\ NewPoint(s) <= cras_shm_get_frames(shm[s]) BY NewPointFacts
  <1>4. StreamOK(s, shm[s], client[s], frames[s], req[s], rep[s], off[s], queued[s])
    BY StreamFacts
  <1>5. shm[s] \in Header /\ Shape(shm[s], Cb[s]) /\ Cb[s] \in Nat BY <1>4, ConstFacts DEF StreamOK
  <1>6. Turned(cras_shm_buffer_read(shm[s], NewPoint(s)), client[s])
    BY <1>2, <1>3, <1>5, ReadTurn
  <1>7. ~frames'[s].swapped
    <2>1. frames'[s] = Renumbered(s, NewPoint(s), shm'[s]) BY <1>1
    <2>2. ~RacedFrames.swapped BY FreshNumbers, ConstFacts
    <2>3. CASE frames[s].raced
      <3>1. frames'[s] = RacedFrames BY <2>1, <2>3 DEF Renumbered
      <3> QED BY <2>2, <3>1
    <2>4. CASE ~frames[s].raced
      BY <1>2, <2>1, <2>4 DEF Renumbered
    <2> QED BY <2>3, <2>4
  <1> QED BY <1>1, <1>6, <1>7

\* A callback that returns frames passes the turn on.
LEMMA CallbackTurn ==
  ASSUME IInv, TurnInv, budget'.answers = budget.answers, NEW s \in Streams, Callback(s)
  PROVE  TurnInv'
  <1>1. PICK a \in budget.answers : \/ Smaller(a, Cb[s]) >= 0 /\ Stored(s, Smaller(a, Cb[s]))
                                    \/ Ends(s)
    BY DEF Callback
  <1>2. client[s] = "wait" /\ req[s] > 0 BY DEF Callback
  <1>3. budget \in Budget /\ StreamFuns BY DEF IInv
  <1>4. CASE Ends(s)
    <2>1. shm' = shm /\ client' = client /\ frames' = frames BY <1>4 DEF Ends
    <2> QED BY <2>1, TurnKept
  <1>5. CASE Smaller(a, Cb[s]) >= 0 /\ Stored(s, Smaller(a, Cb[s]))
    <2> SUFFICES ASSUME 0 \notin budget.answers PROVE TurnInv'
      BY DEF TurnInv
    <2> DEFINE n == Smaller(a, Cb[s])
               h == shm[s]
               w == h.widx
               fr == frames[s]
               ft == [fr EXCEPT !.first = [fr.first EXCEPT ![w] = fr.next],
                                !.next = (fr.next + n) % FrameIds]
               f == Visible(h, n)
               g == HandedOver(h, n)
               st == "stored"
               wt == "wait"
    <2>1. n \in Nat /\ n > 0
      <3>1. a \in Int BY <1>1, <1>3 DEF Budget
      <3>2. Cb[s] \in Nat \ {0} BY ConstFacts
      <3>3. a # 0 BY <1>1
      <3> QED BY <1>5, <3>1, <3>2, <3>3 DEF Smaller
    <2>2. StreamOK(s, h, wt, fr, req[s], rep[s], off[s], queued[s]) BY <1>2, StreamFacts
    <2>3. h \in Header /\ fr \in Numbers /\ Shape(h, Cb[s]) /\ Cb[s] \in Nat
      BY <2>2, ConstFacts DEF StreamOK
    <2>4. h.woff[w] = 0
      <3>1. req[s] \in 0..1 /\ (req[s] = 1 => h.woff[w] = 0) BY <2>2 DEF StreamOK, Protocol
      <3> QED BY <1>2, <3>1
    <2>5. h.roff[w] = 0
      <3>1. w = h.ridx \/ w = 1 - h.ridx BY <2>3, HeaderFields, OtherHalf
      <3> QED BY <2>3, <2>4, <3>1, HeaderFields DEF Shape
    <2>6. /\ f \in Header /\ f.ridx = h.ridx /\ f.widx = h.widx
          /\ f.woff[w] = n /\ f.woff[1 - w] = h.woff[1 - w]
          /\ g \in Header /\ g.ridx = h.ridx /\ g.widx = 1 - h.widx
          /\ g.woff[w] = n /\ g.woff[1 - w] = h.woff[1 - w]
      <3> HIDE DEF h, n
      <3> QED BY <2>1, <2>3, <2>5, StoreFields DEF Visible, HandedOver
    <2>7. Turned(h, wt) /\ ~fr.swapped BY <1>2 DEF TurnInv
    <2>8. ~Swaps(h, n) /\ Turned(f, st) /\ Turned(g, wt)
      <3> HIDE DEF h, n, f, g
      <3> QED BY <2>1, <2>3, <2>4, <2>6, <2>7, StoreTurn
    <2>9. \E ft2 : frames' = [frames EXCEPT ![s] = ft2] /\ ~ft2.swapped
      <3>1. frames \in [Streams -> Numbers] BY <1>3 DEF StreamFuns
      <3>2. CASE fr.raced
        <4>1. frames' = frames BY <1>5, <3>2 DEF Stored
        <4>2. frames' = [frames EXCEPT ![s] = fr] BY <3>1, <4>1
        <4> QED BY <2>7, <4>2
      <3>3. CASE ~fr.raced
        <4>1. frames' = [frames EXCEPT ![s].first[w] = frames[s].next,
                                       ![s].next = (@ + n) % FrameIds]
          BY <1>5, <2>7, <2>8, <3>3 DEF Stored
        <4> DEFINE nx == (fr.next + n) % FrameIds
                   fi == [fr.first EXCEPT ![w] = fr.next]
        <4>2. frames' = [frames EXCEPT ![s] = ft]
          <5> HIDE DEF w, n
          <5> QED BY <3>1, <4>1
        <4>3. ft = [fr EXCEPT !.first = fi, !.next = nx] OBVIOUS
        <4> HIDE DEF nx, fi, ft
        <4>4. ft.swapped = fr.swapped BY <2>3, <4>3 DEF Numbers
        <4> QED BY <2>7, <4>2, <4>4
      <3> QED BY <3>2, <3>3
    <2>10. PICK ft2 : frames' = [frames EXCEPT ![s] = ft2] /\ ~ft2.swapped BY <2>9
    <2>11. client \in [Streams -> {"wait", "stored", "dead"}] BY <1>3 DEF StreamFuns
    <2>12. \/ shm' = [shm EXCEPT ![s] = f] /\ client' = [client EXCEPT ![s] = st]
           \/ shm' = [shm EXCEPT ![s] = g] /\ client' = [client EXCEPT ![s] = wt]
      <3>1. CASE s \in budget.slow BY <1>5, <3>1 DEF Stored, Visible
      <3>2. CASE s \notin budget.slow
        <4>1. shm' = [shm EXCEPT ![s] = g] /\ client' = client BY <1>5, <3>2 DEF Stored, HandedOver
        <4>2. client' = [client EXCEPT ![s] = wt] BY <1>2, <2>11, <4>1
        <4> QED BY <4>1, <4>2
      <3> QED BY <3>1, <3>2
    <2> HIDE DEF f, g, st, wt
    <2> QED BY <2>8, <2>10, <2>12, OneTurn
  <1> QED BY <1>1, <1>4, <1>5

\* The second store names the other half.
LEMMA CompleteTurn ==
  ASSUME IInv, TurnInv, budget'.answers = budget.answers, NEW s \in Streams, Complete(s)
  PROVE  TurnInv'
  <1> DEFINE h == shm[s]
             w == h.widx
             v == 1 - w
             ro == [h.roff EXCEPT ![w] = 0]
             g == [h EXCEPT !.roff = ro, !.widx = v]
             ft == IF h.roff[w] = 0 THEN frames[s] ELSE RacedFrames
             wt == "wait"
  <1>1. /\ client[s] = "stored" /\ client' = [client EXCEPT ![s] = wt]
        /\ shm' = [shm EXCEPT ![s].roff[w] = 0, ![s].widx = 1 - w]
        /\ frames' = (IF h.roff[w] = 0 THEN frames ELSE [frames EXCEPT ![s] = RacedFrames])
    BY DEF Complete
  <1>2. shm' = [shm EXCEPT ![s] = g] BY <1>1
  <1>3. frames \in [Streams -> Numbers] /\ shm \in [Streams -> Header] BY DEF IInv, StreamFuns
  <1>4. frames' = [frames EXCEPT ![s] = ft]
    <2>1. CASE h.roff[w] = 0 BY <1>1, <1>3, <2>1
    <2>2. CASE h.roff[w] # 0 BY <1>1, <2>2
    <2> QED BY <2>1, <2>2
  <1>5. h \in Header BY <1>3
  <1>6. w \in Halves /\ v \in Halves /\ 1 - v = w /\ h.roff \in [Halves -> Nat]
    BY <1>5, HeaderFields, HalfFacts
  <1>7. ro \in [Halves -> Nat] BY <1>6
  <1> HIDE DEF ro, v
  <1>8. g.ridx = h.ridx /\ g.woff = h.woff /\ g.widx = v BY <1>5, <1>6, <1>7 DEF Header
  <1>9. ASSUME 0 \notin budget.answers PROVE Turned(g, wt) /\ ~ft.swapped
    <2>1. Turned(h, "stored") /\ ~frames[s].swapped BY <1>1, <1>9 DEF TurnInv
    <2>2. Turn(h, v) BY <2>1 DEF Turned, v
    <2> HIDE DEF g
    <2>3. Turn(g, v) BY <1>8, <2>2 DEF Turn
    <2>4. Turned(g, wt) BY <1>6, <1>8, <2>3 DEF Turned
    <2>5. ~RacedFrames.swapped BY FreshNumbers, ConstFacts
    <2> QED BY <2>1, <2>4, <2>5
  <1> HIDE DEF g, ft, wt
  <1> QED BY <1>1, <1>2, <1>4, <1>9, OneTurn

\* A dead client stores nothing more.
LEMMA DiesTurn ==
  ASSUME IInv, TurnInv, budget'.answers = budget.answers, NEW s \in Streams, ClientDies(s)
  PROVE  TurnInv'
  <1> DEFINE dd == "dead"
  <1>1. client' = [client EXCEPT ![s] = dd] /\ shm' = shm /\ frames' = frames
    BY DEF ClientDies
  <1>2. client \in [Streams -> {"wait", "stored", "dead"}] BY DEF IInv, StreamFuns
  <1> SUFFICES ASSUME 0 \notin budget.answers, NEW t \in Streams
               PROVE  Turned(shm'[t], client'[t]) /\ ~frames'[t].swapped
    BY DEF TurnInv
  <1>3. Turned(shm[t], client[t]) /\ ~frames[t].swapped BY DEF TurnInv
  <1>4. client'[t] = client[t] \/ client'[t] = "dead" BY <1>1, <1>2
  <1>5. Turned(shm[t], "dead") BY <1>3 DEF Turned
  <1> QED BY <1>1, <1>3, <1>4, <1>5

\* The turns are kept in every step.
LEMMA NextTurn == IInv /\ TurnInv /\ [Next]_vars => TurnInv'
  <1> SUFFICES ASSUME IInv, TurnInv, [Next]_vars PROVE TurnInv' OBVIOUS
  <1>0. budget'.answers = budget.answers BY SameAnswers
  <1>1. CASE dev_io_playback_fetch BY <1>0, <1>1, FetchTurn
  <1>2. ASSUME NEW d \in Devs, Write(d) PROVE TurnInv'
    BY <1>0, <1>2, TurnKept DEF Write, clientVars
  <1>3. CASE update_output_read_pointers BY <1>0, <1>3, PointersTurn
  <1>4. ASSUME NEW s \in Streams, AddStream(s) PROVE TurnInv'
    BY <1>0, <1>4, TurnKept DEF AddStream, clientVars
  <1>5. ASSUME NEW s \in Streams, stream_list_rm(s) PROVE TurnInv' BY <1>0, <1>5, RemoveTurn
  <1>6. ASSUME NEW s \in Streams, drain_timer(s) PROVE TurnInv'
    <2>1. Destroyed(s) BY <1>6 DEF drain_timer
    <2> QED BY <1>0, <2>1, DestroyedTurn
  <1>7. ASSUME NEW s \in Streams, TimePasses(s) PROVE TurnInv'
    BY <1>0, <1>7, TurnKept DEF TimePasses, clientVars
  <1>8. ASSUME NEW s \in Streams, Callback(s) PROVE TurnInv' BY <1>0, <1>8, CallbackTurn
  <1>9. ASSUME NEW s \in Streams, Complete(s) PROVE TurnInv' BY <1>0, <1>9, CompleteTurn
  <1>10. ASSUME NEW s \in Streams, ClientDies(s) PROVE TurnInv' BY <1>0, <1>10, DiesTurn
  <1>11. ASSUME NEW d \in Devs, OpenDev(d) PROVE TurnInv'
    BY <1>0, <1>11, TurnKept DEF OpenDev, clientVars
  <1>12. ASSUME NEW d \in Devs, dev_io_rm_open_dev(d) PROVE TurnInv'
    BY <1>0, <1>12, TurnKept DEF dev_io_rm_open_dev, clientVars
  <1>13. ASSUME NEW d \in Devs, Play(d) PROVE TurnInv'
    BY <1>0, <1>13, TurnKept DEF Play, clientVars
  <1>14. CASE UNCHANGED vars BY <1>0, <1>14, TurnKept DEF vars
  <1> QED
    BY <1>1, <1>2, <1>3, <1>4, <1>5, <1>6, <1>7, <1>8, <1>9, <1>10, <1>11, <1>12, <1>13, <1>14
    DEF Next, AudioThread, ClientThread

\* Every device plays the frames of a stream in order, none twice and none left
\* out (dev_stream_mix, dev_stream_playback_update_rstream, cras_shm_buffer_read),
\* whatever the client's thread does in between, but for the streams whose frames
\* the server has read between the client's two stores, and those whose halves have
\* changed places: that takes a callback that returns no frames.
THEOREM PlayedInOrder == Spec => []PlaysInOrder
  <1>1. Init => TurnInv
    <2> SUFFICES ASSUME Init, NEW s \in Streams PROVE Turned(shm[s], client[s]) /\ ~frames[s].swapped
      BY DEF TurnInv
    <2>1. shm[s] = FreshShm /\ client[s] = "wait" /\ frames[s] = FreshFrames BY DEF Init
    <2> QED BY <2>1, FreshTurn, FreshNumbers, ConstFacts
  <1>2. IInv /\ TurnInv => PlaysInOrder BY DEF IInv, HistOK, TurnInv, PlaysInOrder
  <1> QED BY <1>1, <1>2, NextTurn, PlaybackInvariant, PTL DEF Spec

\* A stream that drains is played to the end, or buffer_frames of it, before
\* get_write_limit removes it.
THEOREM DrainedToTheEnd == Spec => []DrainedIsPlayed
  <1>1. IInv => DrainedIsPlayed BY DEF IInv, HistOK, DrainedIsPlayed
  <1> QED BY <1>1, PlaybackInvariant, PTL
=============================================================================
