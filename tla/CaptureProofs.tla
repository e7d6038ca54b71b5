---------------------------- MODULE CaptureProofs ---------------------------
(***************************************************************************)
(* Proofs about Capture: what the devices write to a stream fits one       *)
(* callback, and a client hears every frame in order until an overrun is   *)
(* counted, for any number of streams, devices, frames and messages.       *)
(*                                                                         *)
(* The invariant has a part for the devices, one for each stream and one   *)
(* for the run of the audio thread.  DevsOK says that no stream is twice   *)
(* on a device and none has read more of it than there is; it lets a       *)
(* device drop frames and a stream leave at any time.  Fits is stated for  *)
(* the half being written whether or not it is in use yet, because a       *)
(* stream that joins a device copies offsets before its half is begun;     *)
(* frames the half still holds from before do not count then.  PassOK says *)
(* which halves the run has begun so far, so that a commit never adds to   *)
(* an old half.  InStep follows the client around the two halves: as long  *)
(* as the server has not met a half that still held frames, at most one    *)
(* half is posted, with at most one message for it, and the client is at   *)
(* the half it expects.  The message may be missing (the socket was full,  *)
(* or the callback took nothing) and the half may be left half-read; then  *)
(* the server's next check finds the half in use and counts the overrun.   *)
(***************************************************************************)
EXTENDS Capture, ListProofs, TLAPS

\* Types of the records: a header, the numbers of frames, a client.
Header == [woff : [Halves -> Nat], roff : [Halves -> Nat], prog : [Halves -> BOOLEAN],
           widx : Halves, ridx : Halves, overrun : BOOLEAN]

Numbers == [next : 0..FrameIds - 1, first : [Halves -> 0..FrameIds - 1]]

ClientState == [pc : {"wait", "callback", "clear", "advance"}, n : 0..BufFrames,
                first : 0..FrameIds - 1, want : 0..FrameIds - 1, broken : BOOLEAN]

\* What dev_io_append_stream changes, with streams of V.
DevState(V) == [list : [Devs -> Seq(V)], hw : [Devs -> 0..HwSize],
                devoff : [Devs -> [Streams -> 0..HwSize]],
                off : [Streams -> [Devs -> Nat]], capped : BOOLEAN]

\* The devices O are open.  A stream is at most once on a device, has read no
\* more of it than there is, and a stream that is not on it has no offset.
DevOK(L, d, O) ==
    /\ IsInjective(L.list[d])
    /\ L.list[d] # <<>> => d \in O
    /\ \A s \in Streams :
         /\ L.devoff[d][s] <= L.hw[d]
         /\ s \notin Range(L.list[d]) => L.devoff[d][s] = 0 /\ L.off[s][d] = 0

DevsOK(L, V, O) == L \in DevState(V) /\ \A d \in Devs : DevOK(L, d, O)

\* The frames in the half that is being written.
Filled(h) == IF h.prog[h.widx] THEN h.woff[h.widx] ELSE 0

\* They fit one callback, with what any device has written past them.
Fits(s, h, o) ==
    /\ ~h.prog[1 - h.widx]
    /\ Filled(h) <= Cb[s]
    /\ \A d \in Devs : o[d] + Filled(h) <= Cb[s]

\* The half that is written to has been checked for an overrun.
Begun(h) == h.prog[h.widx]

\* The halves that the run of dev_io_run has begun so far.
PassOK ==
    \/ pass = Idle
    \/ /\ pass.phase = "capture"
       /\ \A d \in Range(open) \ Range(pass.todo) : \A s \in On(d) : Begun(shm[s])
    \/ /\ pass.phase = "send"
       /\ \A d \in Devs : \A s \in On(d) : Begun(shm[s])
       /\ pass.drop => \E d \in Devs : input_devices_can_drop_samples(d)

\* Numbers of the first frame of the half being written, and of the one before.
Start(h, fr) == (fr.next - h.woff[h.widx]) % FrameIds
Before(s, h, fr) == (Start(h, fr) - Cb[s]) % FrameIds

\* The client waits for the half that is being written, or is about to.
Waits(h, c, fr, q) ==
    /\ h.ridx = h.widx /\ h.woff[1 - h.widx] = 0
    /\ q = <<>> /\ c.want = Start(h, fr)

\* The other half i is posted.
Posted(s, h, fr, i) ==
    i = 1 - h.widx /\ h.woff[i] = Cb[s] /\ fr.first[i] = Before(s, h, fr)

\* Where the client may be as long as there was no overrun.
AtWait(s, h, c, fr, q) ==
    \/ Waits(h, c, fr, q) /\ h.roff[1 - h.widx] = 0
    \/ /\ Posted(s, h, fr, h.ridx)
       /\ \/ h.roff[h.ridx] = 0 /\ Len(q) <= 1 /\ c.want = Before(s, h, fr)
          \/ h.roff[h.ridx] > 0 /\ q = <<>>

AtCallback(s, h, c, fr, q) ==
    /\ Posted(s, h, fr, h.ridx) /\ h.roff[h.ridx] = 0 /\ q = <<>>
    /\ c.want = Before(s, h, fr) /\ c.first = Before(s, h, fr) /\ c.n = Cb[s]

AtClear(s, h, c, fr, q) ==
    /\ h.ridx = 1 - h.widx /\ h.woff[h.ridx] = Cb[s] /\ h.roff[h.ridx] = 0
    /\ q = <<>> /\ c.want = Start(h, fr)

AtAdvance(s, h, c, fr, q) ==
    /\ h.roff[1 - h.widx] = 0
    /\ \/ /\ h.ridx = 1 - h.widx /\ h.woff[h.ridx] = 0
          /\ q = <<>> /\ c.want = Start(h, fr)
       \/ /\ h.ridx = h.widx /\ Posted(s, h, fr, 1 - h.widx)
          /\ Len(q) <= 1 /\ c.want = Before(s, h, fr)

\* A client whose buffer was not overrun is in step with the server.
InStep(s, h, c, fr, q) ==
    /\ ~c.broken
    /\ \A i \in 1..Len(q) : q[i] = Cb[s]
    /\ h.prog[h.widx] \/ h.woff[h.widx] = 0
    /\ h.roff[h.widx] = 0
    /\ c.pc = "wait" => AtWait(s, h, c, fr, q)
    /\ c.pc = "callback" => AtCallback(s, h, c, fr, q)
    /\ c.pc = "clear" => AtClear(s, h, c, fr, q)
    /\ c.pc = "advance" => AtAdvance(s, h, c, fr, q)

\* All that concerns one stream.
StreamOK(s, h, c, fr, q, o) ==
    /\ h \in Header /\ c \in ClientState /\ fr \in Numbers
    /\ q \in Seq(1..BufFrames) /\ Len(q) <= SockSize
    /\ Fits(s, h, o)
    /\ s \in Clients => h.overrun \/ InStep(s, h, c, fr, q)

\* A stream that is not on the list is new.
Fresh(h, c, fr, q) == h = FreshShm /\ c = FreshClient /\ fr = FreshFrames /\ q = <<>>

\* The audio thread.
PassTypes == pass \in [phase : {"idle", "capture", "send"}, todo : Seq(Devs), drop : BOOLEAN]

\* What is left of a scenario.
Budget == [opens : Nat, adds : [Streams -> Nat], drops : SUBSET Devs]

\* The inductive invariant.
IInv ==
    /\ open \in Seq(Devs) /\ IsInjective(open)
    /\ live \subseteq Streams
    /\ DevsOK(Lists, live, Range(open))
    /\ late \in [Streams -> BOOLEAN]
    /\ shm \in [Streams -> Header] /\ client \in [Streams -> ClientState]
    /\ frames \in [Streams -> Numbers] /\ sock \in [Streams -> Seq(1..BufFrames)]
    /\ \A s \in Streams : StreamOK(s, shm[s], client[s], frames[s], sock[s], off[s])
    /\ \A s \in Streams \ live : Fresh(shm[s], client[s], frames[s], sock[s])
    /\ PassTypes /\ PassOK
    /\ budget \in Budget

-----------------------------------------------------------------------------
(* Constants and numbers.                                                  *)

\* What the assumption says of the constants.
LEMMA ConstFacts ==
  /\ BufFrames \in Nat /\ HwSize \in Nat /\ SockSize \in Nat \ {0} /\ FrameIds \in Nat
  /\ \A s \in Streams : /\ Route[s] \subseteq Devs /\ Cb[s] \in Nat \ {0} /\ Cb[s] <= BufFrames
                        /\ FrameIds \in Nat \ {0}
  /\ Order \in Seq(Streams) /\ IsInjective(Order) /\ Streams = Range(Order)
  BY CaptureAssumption

\* The least of a set of naturals is one of its members.
LEMMA LeastFacts ==
  ASSUME NEW S \in SUBSET Nat, S # {}
  PROVE  Least(S) \in S /\ \A x \in S : Least(S) <= x
  BY NatHasLeast DEF Least

\* The smaller of two naturals.
LEMMA SmallerFacts ==
  ASSUME NEW a \in Nat, NEW b \in Nat
  PROVE  Smaller(a, b) \in Nat /\ Smaller(a, b) <= a /\ Smaller(a, b) <= b
  BY DEF Smaller

\* 1 - i is the other half.
LEMMA HalfFacts == \A i \in Halves : 1 - i \in Halves /\ 1 - i # i /\ 1 - (1 - i) = i
  BY DEF Halves

\* There are only two halves.
LEMMA OtherHalf == \A i, j \in Halves : i # j => i = 1 - j
  BY DEF Halves

-----------------------------------------------------------------------------
(* The double buffer.                                                      *)

\* The header of a new stream: nothing is written and no half is in use.
LEMMA FreshHeader ==
  /\ FreshShm \in Header /\ ~FreshShm.prog[FreshShm.widx] /\ ~FreshShm.prog[1 - FreshShm.widx]
  /\ Filled(FreshShm) = 0 /\ ~FreshShm.overrun
  /\ FreshShm.widx = 0 /\ FreshShm.ridx = 0
  /\ \A i \in Halves : FreshShm.woff[i] = 0 /\ FreshShm.roff[i] = 0
  BY DEF FreshShm, Header, Filled, Halves

\* What cras_shm_check_write_overrun does to the fields of a header.
LEMMA CheckFields ==
  ASSUME NEW h \in Header
  PROVE  LET g == cras_shm_check_write_overrun(h)
         IN /\ g \in Header
            /\ g.widx = h.widx /\ g.ridx = h.ridx /\ g.roff = h.roff
            /\ g.prog[g.widx] /\ g.prog[1 - g.widx] = h.prog[1 - h.widx]
            /\ g.woff[1 - g.widx] = h.woff[1 - h.widx]
            /\ h.prog[h.widx] => g = h
            /\ ~h.prog[h.widx] => g.woff[g.widx] = 0
                                  /\ g.overrun = (h.overrun \/ h.woff[h.widx] # 0)
  <1> USE HalfFacts
  <1>1. CASE h.prog[h.widx] BY <1>1 DEF cras_shm_check_write_overrun, Header
  <1>2. CASE ~h.prog[h.widx]
    <2> DEFINE yes == TRUE
               o == h.overrun \/ h.woff[h.widx] # 0
    <2>1. yes \in BOOLEAN /\ yes /\ o \in BOOLEAN /\ (o <=> (h.overrun \/ h.woff[h.widx] # 0))
      BY DEF Header
    <2>2. cras_shm_check_write_overrun(h) =
            [h EXCEPT !.overrun = o, !.prog[h.widx] = yes, !.woff[h.widx] = 0]
      BY <1>2 DEF cras_shm_check_write_overrun
    <2> HIDE DEF yes, o
    <2> DEFINE g == cras_shm_check_write_overrun(h)
    <2>3. h.widx \in Halves /\ h.woff \in [Halves -> Nat] /\ h.prog \in [Halves -> BOOLEAN]
      BY DEF Header
    <2> DEFINE wo == [h.woff EXCEPT ![h.widx] = 0]
               pr == [h.prog EXCEPT ![h.widx] = yes]
    <2>8. wo \in [Halves -> Nat] /\ pr \in [Halves -> BOOLEAN] BY <2>1, <2>3
    <2>9. g = [h EXCEPT !.overrun = o, !.prog = pr, !.woff = wo] BY <2>2
    <2> HIDE DEF wo, pr, g
    <2>10. /\ g \in Header /\ g.widx = h.widx /\ g.ridx = h.ridx /\ g.roff = h.roff
          /\ g.overrun = o /\ g.prog = pr /\ g.woff = wo
      BY <2>1, <2>8, <2>9 DEF Header
    <2>4. /\ g \in Header /\ g.widx = h.widx /\ g.ridx = h.ridx /\ g.roff = h.roff
          /\ g.overrun = o /\ g.prog = [h.prog EXCEPT ![h.widx] = yes]
          /\ g.woff = [h.woff EXCEPT ![h.widx] = 0]
      BY <2>10 DEF wo, pr
    <2>5. g.prog[g.widx] = yes /\ g.woff[g.widx] = 0 BY <2>3, <2>4
    <2>6. g.prog[1 - g.widx] = h.prog[1 - h.widx] /\ g.woff[1 - g.widx] = h.woff[1 - h.widx]
      BY <2>3, <2>4
    <2>7. g.overrun = (h.overrun \/ h.woff[h.widx] # 0) BY <2>4 DEF o
    <2> QED BY <1>2, <2>1, <2>4, <2>5, <2>6, <2>7 DEF g
  <1> QED BY <1>1, <1>2

\* Checking the half for an overrun.
LEMMA CheckOK ==
  ASSUME NEW s \in Streams, NEW h, NEW c, NEW fr, NEW q, NEW o \in [Devs -> Nat],
         StreamOK(s, h, c, fr, q, o)
  PROVE  LET g == cras_shm_check_write_overrun(h)
         IN StreamOK(s, g, c, fr, q, o) /\ Begun(g) /\ Filled(g) = Filled(h)
  <1> DEFINE g == cras_shm_check_write_overrun(h)
  <1>1. h \in Header BY DEF StreamOK
  <1>2. /\ g \in Header
        /\ g.widx = h.widx /\ g.ridx = h.ridx /\ g.roff = h.roff
        /\ g.prog[g.widx] /\ g.prog[1 - g.widx] = h.prog[1 - h.widx]
        /\ g.woff[1 - g.widx] = h.woff[1 - h.widx]
        /\ h.prog[h.widx] => g = h
        /\ ~h.prog[h.widx] => g.woff[g.widx] = 0
                              /\ g.overrun = (h.overrun \/ h.woff[h.widx] # 0)
    BY <1>1, CheckFields
  <1> HIDE DEF g
  <1>3. Filled(g) = Filled(h) /\ Begun(g) BY <1>2 DEF Filled, Begun
  <1>4. Fits(s, g, o) BY <1>2, <1>3 DEF StreamOK, Fits
  <1>5. ASSUME s \in Clients, ~g.overrun PROVE InStep(s, g, c, fr, q)
    <2>1. ~h.overrun /\ InStep(s, h, c, fr, q) BY <1>2, <1>5 DEF StreamOK
    <2>2. g.woff[g.widx] = h.woff[h.widx] BY <1>2, <2>1 DEF InStep
    <2>3. \A i \in Halves : g.woff[i] = h.woff[i] BY <1>1, <1>2, <2>2, OtherHalf DEF Header
    <2>4. 1 - h.widx \in Halves /\ h.ridx \in Halves BY <1>1, HalfFacts DEF Header
    <2>5. Start(g, fr) = Start(h, fr) /\ Before(s, g, fr) = Before(s, h, fr)
      BY <1>2, <2>2 DEF Start, Before
    <2>6. Posted(s, g, fr, h.ridx) <=> Posted(s, h, fr, h.ridx) BY <1>2, <2>3, <2>4, <2>5 DEF Posted
    <2>7. Posted(s, g, fr, 1 - h.widx) <=> Posted(s, h, fr, 1 - h.widx)
      BY <1>2, <2>3, <2>4, <2>5 DEF Posted
    <2>8. Waits(g, c, fr, q) <=> Waits(h, c, fr, q) BY <1>2, <2>5 DEF Waits
    <2>9. AtWait(s, g, c, fr, q) <=> AtWait(s, h, c, fr, q)
      BY <1>2, <2>5, <2>6, <2>8 DEF AtWait
    <2>10. AtCallback(s, g, c, fr, q) <=> AtCallback(s, h, c, fr, q)
      BY <1>2, <2>5, <2>6 DEF AtCallback
    <2>11. AtClear(s, g, c, fr, q) <=> AtClear(s, h, c, fr, q)
      BY <1>2, <2>5 DEF AtClear
    <2>12. AtAdvance(s, g, c, fr, q) <=> AtAdvance(s, h, c, fr, q)
      BY <1>2, <2>3, <2>4, <2>5, <2>7 DEF AtAdvance
    <2> QED BY <1>2, <2>1, <2>2, <2>9, <2>10, <2>11, <2>12 DEF InStep
  <1>6. StreamOK(s, g, c, fr, q, o) BY <1>2, <1>4, <1>5 DEF StreamOK
  <1> QED BY <1>3, <1>6 DEF g

\* What cras_shm_buffer_written does to the fields.
LEMMA WrittenFields ==
  ASSUME NEW h \in Header, NEW n \in Nat
  PROVE  LET g == cras_shm_buffer_written(h, n)
         IN /\ g \in Header
            /\ g.widx = h.widx /\ g.ridx = h.ridx /\ g.prog = h.prog /\ g.overrun = h.overrun
            /\ g.woff[h.widx] = h.woff[h.widx] + n
            /\ g.woff[1 - h.widx] = h.woff[1 - h.widx]
            /\ g.roff[1 - h.widx] = h.roff[1 - h.widx]
            /\ h.roff[h.widx] = 0 => g.roff = h.roff
  <1> DEFINE g == cras_shm_buffer_written(h, n)
             wo == [h.woff EXCEPT ![h.widx] = @ + n]
             ro == [h.roff EXCEPT ![h.widx] = 0]
  <1>1. h.widx \in Halves /\ h.woff \in [Halves -> Nat] /\ h.roff \in [Halves -> Nat]
    BY DEF Header
  <1>2. 1 - h.widx \in Halves /\ 1 - h.widx # h.widx BY <1>1, HalfFacts
  <1>3. CASE n = 0 BY <1>1, <1>3 DEF cras_shm_buffer_written
  <1>4. CASE n # 0
    <2>1. wo \in [Halves -> Nat] /\ ro \in [Halves -> Nat] BY <1>1
    <2>2. g = [h EXCEPT !.woff = wo, !.roff = ro] BY <1>4 DEF cras_shm_buffer_written
    <2>3. wo[h.widx] = h.woff[h.widx] + n /\ wo[1 - h.widx] = h.woff[1 - h.widx] BY <1>1, <1>2
    <2>4. ro[1 - h.widx] = h.roff[1 - h.widx] /\ (h.roff[h.widx] = 0 => ro = h.roff) BY <1>1, <1>2
    <2> HIDE DEF wo, ro, g
    <2> QED BY <2>1, <2>2, <2>3, <2>4 DEF Header, g
  <1> QED BY <1>3, <1>4

\* What cras_shm_buffer_write_complete does to the fields.
LEMMA CompleteFields ==
  ASSUME NEW h \in Header
  PROVE  LET g == cras_shm_buffer_write_complete(h)
         IN /\ g \in Header
            /\ g.widx = 1 - h.widx /\ g.ridx = h.ridx /\ g.overrun = h.overrun
            /\ g.woff = h.woff /\ g.roff = h.roff
            /\ ~g.prog[h.widx] /\ g.prog[1 - h.widx] = h.prog[1 - h.widx]
  <1> DEFINE g == cras_shm_buffer_write_complete(h)
             no == FALSE
             pr == [h.prog EXCEPT ![h.widx] = no]
             w == 1 - h.widx
  <1>1. h.widx \in Halves /\ h.prog \in [Halves -> BOOLEAN] BY DEF Header
  <1>2. w \in Halves /\ w # h.widx BY <1>1, HalfFacts
  <1>3. no \in BOOLEAN /\ ~no OBVIOUS
  <1>4. g = [h EXCEPT !.prog = pr, !.widx = w] BY DEF cras_shm_buffer_write_complete
  <1> HIDE DEF no, g, w
  <1>5. pr \in [Halves -> BOOLEAN] /\ pr[h.widx] = no /\ pr[w] = h.prog[w] BY <1>1, <1>2, <1>3
  <1> HIDE DEF pr
  <1>6. /\ g \in Header /\ g.widx = w /\ g.ridx = h.ridx /\ g.overrun = h.overrun
        /\ g.woff = h.woff /\ g.roff = h.roff /\ g.prog = pr
    BY <1>2, <1>4, <1>5 DEF Header
  <1> QED BY <1>3, <1>5, <1>6 DEF g, w

\* What cras_shm_buffer_read_current does to the fields.
LEMMA ReadCurrentFields ==
  ASSUME NEW h \in Header, NEW n \in Nat
  PROVE  LET g == cras_shm_buffer_read_current(h, n)
         IN /\ g \in Header /\ g.widx = h.widx /\ g.prog = h.prog
  <1> DEFINE g == cras_shm_buffer_read_current(h, n)
             r == h.ridx
             wo == [h.woff EXCEPT ![r] = 0]
             ro == [h.roff EXCEPT ![r] = 0]
             rn == [h.roff EXCEPT ![r] = @ + n]
             m == 1 - r
  <1>1. r \in Halves /\ h.woff \in [Halves -> Nat] /\ h.roff \in [Halves -> Nat] BY DEF Header
  <1>2. m \in Halves BY <1>1, HalfFacts
  <1>3. wo \in [Halves -> Nat] /\ ro \in [Halves -> Nat] /\ rn \in [Halves -> Nat] BY <1>1
  <1>4. \/ g = [h EXCEPT !.roff = ro, !.woff = wo, !.ridx = m]
        \/ g = [h EXCEPT !.roff = rn]
    BY DEF cras_shm_buffer_read_current
  <1> HIDE DEF wo, ro, rn, m, g
  <1> QED BY <1>2, <1>3, <1>4 DEF Header, g

\* The first frame of the half keeps its number while frames are added.
LEMMA StartKept ==
  ASSUME NEW F \in Nat \ {0}, NEW a \in Nat, NEW n \in Nat, NEW w \in Nat
  PROVE  (((a + n) % F) - (w + n)) % F = (a - w) % F
  <1> DEFINE x == a + n
             y == -(w + n)
  <1>1. x \in Int /\ y \in Int /\ x + y = a - w OBVIOUS
  <1>2. \A z \in Int : z + y = z - (w + n) OBVIOUS
  <1> HIDE DEF x, y
  <1>3. ((x % F) + y) % F = (x + y) % F BY <1>1, ModOfMod
  <1>4. x % F \in Int BY <1>1
  <1>5. (x % F) + y = (x % F) - (w + n) BY <1>2, <1>4
  <1> QED BY <1>1, <1>3, <1>5 DEF x

\* Committing n frames.
LEMMA CommitOK ==
  ASSUME NEW s \in Streams, NEW h, NEW c, NEW fr, NEW q, NEW o \in [Devs -> Nat],
         StreamOK(s, h, c, fr, q, o), Begun(h),
         NEW n \in Nat, NEW p \in [Devs -> Nat], n + h.woff[h.widx] <= Cb[s],
         \A d \in Devs : p[d] + (h.woff[h.widx] + n) <= Cb[s],
         NEW ft \in Numbers,
         s \in Clients /\ ~h.overrun => ft.next = (fr.next + n) % FrameIds /\ ft.first = fr.first
  PROVE  LET g == cras_shm_buffer_written(h, n)
         IN StreamOK(s, g, c, ft, q, p) /\ Begun(g) /\ g.overrun = h.overrun /\ g.widx = h.widx
            /\ g.woff[g.widx] = h.woff[h.widx] + n
  <1> DEFINE g == cras_shm_buffer_written(h, n)
  <1>0. h \in Header BY DEF StreamOK
  <1>1. h \in Header /\ h.widx \in Halves /\ h.woff[h.widx] \in Nat BY <1>0 DEF Header
  <1>2. /\ g \in Header
        /\ g.widx = h.widx /\ g.ridx = h.ridx /\ g.prog = h.prog /\ g.overrun = h.overrun
        /\ g.woff[h.widx] = h.woff[h.widx] + n
        /\ g.woff[1 - h.widx] = h.woff[1 - h.widx]
        /\ g.roff[1 - h.widx] = h.roff[1 - h.widx]
        /\ h.roff[h.widx] = 0 => g.roff = h.roff
    BY <1>1, WrittenFields
  <1> HIDE DEF g
  <1>3. Begun(g) /\ Filled(g) = h.woff[h.widx] + n BY <1>2 DEF Begun, Filled
  <1>4. Cb[s] \in Nat BY ConstFacts
  <1>5. Fits(s, g, p) BY <1>1, <1>2, <1>3, <1>4 DEF StreamOK, Fits
  <1>6. ASSUME s \in Clients, ~g.overrun PROVE InStep(s, g, c, ft, q)
    <2>1. ~h.overrun /\ InStep(s, h, c, fr, q) BY <1>2, <1>6 DEF StreamOK
    <2>2. ft.next = (fr.next + n) % FrameIds /\ ft.first = fr.first BY <1>6, <2>1
    <2>3. fr.next \in Nat /\ FrameIds \in Nat \ {0} BY ConstFacts DEF StreamOK, Numbers
    <2>4. Start(g, ft) = Start(h, fr) /\ Before(s, g, ft) = Before(s, h, fr)
      <3> DEFINE F == FrameIds
                 x == fr.next
                 w == h.woff[h.widx]
      <3>1. F \in Nat \ {0} /\ x \in Nat /\ w \in Nat BY <1>1, <2>3
      <3>2. Start(g, ft) = (((x + n) % F) - (w + n)) % F BY <1>2, <2>2 DEF Start
      <3>3. Start(h, fr) = (x - w) % F BY DEF Start
      <3> HIDE DEF F, x, w
      <3>4. Start(g, ft) = Start(h, fr) BY <3>1, <3>2, <3>3, StartKept
      <3> QED BY <3>4 DEF Before
    <2>5. g.roff = h.roff BY <1>2, <2>1 DEF InStep
    <2>6. 1 - h.widx \in Halves BY <1>1, HalfFacts
    <2>7. \A i : Posted(s, g, ft, i) <=> Posted(s, h, fr, i)
      BY <1>2, <2>2, <2>4, <2>6 DEF Posted
    <2>8. Waits(g, c, ft, q) <=> Waits(h, c, fr, q) BY <1>2, <2>4 DEF Waits
    <2>9. AtWait(s, g, c, ft, q) <=> AtWait(s, h, c, fr, q)
      BY <1>2, <2>4, <2>5, <2>7, <2>8 DEF AtWait
    <2>10. AtCallback(s, g, c, ft, q) <=> AtCallback(s, h, c, fr, q)
      BY <1>2, <2>4, <2>5, <2>7 DEF AtCallback
    <2>11. AtClear(s, g, c, ft, q) <=> AtClear(s, h, c, fr, q)
      BY <1>2, <2>4, <2>5 DEF AtClear
    <2>12. AtAdvance(s, g, c, ft, q) <=> AtAdvance(s, h, c, fr, q)
      <3>1. h.ridx = 1 - h.widx => g.woff[g.ridx] = h.woff[h.ridx] BY <1>2
      <3> QED BY <1>2, <2>4, <2>5, <2>7, <3>1 DEF AtAdvance
    <2> QED BY <1>2, <1>3, <2>1, <2>5, <2>9, <2>10, <2>11, <2>12 DEF InStep, Begun
  <1>7. StreamOK(s, g, c, ft, q, p) BY <1>2, <1>5, <1>6 DEF StreamOK
  <1> QED BY <1>2, <1>3, <1>7 DEF g

\* The half is full: no more and no less than one callback.
LEMMA FullHalf ==
  ASSUME NEW s \in Streams, NEW h, NEW c, NEW fr, NEW q, NEW o,
         StreamOK(s, h, c, fr, q, o), Begun(h), h.woff[h.widx] >= Cb[s]
  PROVE  h.woff[h.widx] = Cb[s]
  <1>1. h \in Header BY DEF StreamOK
  <1>2. h.woff[h.widx] \in Nat BY <1>1 DEF Header
  <1> QED BY <1>2, ConstFacts DEF StreamOK, Fits, Filled, Begun

\* Posting a half of a stream without a client.
LEMMA PostServerOnlyOK ==
  ASSUME NEW s \in ServerOnly, s \in Streams, NEW g, NEW c, NEW ft, NEW q, NEW p \in [Devs -> Nat],
         StreamOK(s, g, c, ft, q, p), Begun(g), g.woff[g.widx] >= Cb[s], NEW fu \in Numbers
  PROVE  LET e == cras_shm_buffer_read_current(cras_shm_buffer_write_complete(g), Cb[s])
             f == cras_shm_check_write_overrun(e)
         IN StreamOK(s, f, c, fu, q, p) /\ Begun(f)
  <1> DEFINE a == cras_shm_buffer_write_complete(g)
             e == cras_shm_buffer_read_current(a, Cb[s])
             f == cras_shm_check_write_overrun(e)
  <1>1. g \in Header /\ ~g.prog[1 - g.widx] BY DEF StreamOK, Fits
  <1>2. /\ a \in Header /\ a.widx = 1 - g.widx
        /\ ~a.prog[g.widx] /\ a.prog[1 - g.widx] = g.prog[1 - g.widx]
    BY <1>1, CompleteFields
  <1> HIDE DEF a
  <1>3. Cb[s] \in Nat BY ConstFacts
  <1>4. e \in Header /\ e.widx = a.widx /\ e.prog = a.prog BY <1>2, <1>3, ReadCurrentFields
  <1> HIDE DEF e
  <1>5. /\ f \in Header /\ f.widx = e.widx
        /\ f.prog[f.widx] /\ f.prog[1 - f.widx] = e.prog[1 - e.widx]
        /\ ~e.prog[e.widx] => f.woff[f.widx] = 0
    BY <1>4, CheckFields
  <1> HIDE DEF f
  <1>6. 1 - (1 - g.widx) = g.widx BY <1>1, HalfFacts DEF Header
  <1>7. Filled(f) = 0 /\ ~f.prog[1 - f.widx] BY <1>1, <1>2, <1>4, <1>5, <1>6 DEF Filled
  <1>8. \A d \in Devs : p[d] <= Cb[s]
    <2>1. Filled(g) \in Nat BY <1>1 DEF Header, Filled
    <2> QED BY <1>3, <2>1 DEF StreamOK, Fits
  <1>9. Fits(s, f, p) BY <1>3, <1>7, <1>8 DEF Fits
  <1>10. s \notin Clients BY DEF Clients
  <1>11. StreamOK(s, f, c, fu, q, p) BY <1>5, <1>9, <1>10 DEF StreamOK
  <1> QED BY <1>5, <1>11 DEF Begun, a, e, f

\* A message more on the socket.
LEMMA MessageFacts ==
  ASSUME NEW B, NEW q \in Seq(B), NEW x \in B, NEW m, m = q \/ m = Append(q, x)
  PROVE  /\ m \in Seq(B)
         /\ q = <<>> => Len(m) <= 1 /\ \A i \in 1..Len(m) : m[i] = x
  <1>1. CASE m = q BY <1>1
  <1>2. CASE m = Append(q, x) BY <1>2
  <1> QED BY <1>1, <1>2

\* Posting a half of a stream with a client, with or without a message.
LEMMA PostOK ==
  ASSUME NEW s \in Clients, NEW g, NEW c, NEW ft, NEW q, NEW p \in [Devs -> Nat],
         StreamOK(s, g, c, ft, q, p), Begun(g), g.woff[g.widx] >= Cb[s],
         NEW fu \in Numbers,
         ~g.overrun => /\ fu.next = ft.next
                       /\ fu.first[g.widx] = (ft.next - Cb[s]) % FrameIds,
         NEW m, m = q \/ m = Append(q, Cb[s]), Len(m) <= SockSize
  PROVE  LET e == cras_shm_buffer_write_complete(g)
             f == cras_shm_check_write_overrun(e)
         IN StreamOK(s, f, c, fu, m, p) /\ Begun(f)
  <1> DEFINE e == cras_shm_buffer_write_complete(g)
             f == cras_shm_check_write_overrun(e)
             w == g.widx
  <1>0. s \in Streams BY DEF Clients
  <1>1. g \in Header /\ ~g.prog[1 - g.widx] BY DEF StreamOK, Fits
  <1>2. /\ e \in Header /\ e.widx = 1 - g.widx /\ e.ridx = g.ridx /\ e.overrun = g.overrun
        /\ e.woff = g.woff /\ e.roff = g.roff
        /\ ~e.prog[g.widx] /\ e.prog[1 - g.widx] = g.prog[1 - g.widx]
    BY <1>1, CompleteFields
  <1> HIDE DEF e
  <1>3. Cb[s] \in Nat \ {0} /\ Cb[s] <= BufFrames /\ BufFrames \in Nat BY <1>0, ConstFacts
  <1>5. /\ f \in Header /\ f.widx = e.widx /\ f.ridx = e.ridx /\ f.roff = e.roff
        /\ f.prog[f.widx] /\ f.prog[1 - f.widx] = e.prog[1 - e.widx]
        /\ f.woff[1 - f.widx] = e.woff[1 - e.widx]
        /\ ~e.prog[e.widx] => f.woff[f.widx] = 0
                              /\ f.overrun = (e.overrun \/ e.woff[e.widx] # 0)
    BY <1>2, CheckFields
  <1> HIDE DEF f
  <1>6. w \in Halves /\ 1 - w \in Halves /\ 1 - (1 - w) = w /\ 1 - w # w
    BY <1>1, HalfFacts DEF Header
  <1>7. /\ f.widx = 1 - w /\ f.woff[1 - w] = 0 /\ f.woff[w] = g.woff[w] /\ f.ridx = g.ridx
        /\ f.overrun = (g.overrun \/ g.woff[1 - w] # 0) /\ f.roff = g.roff
    BY <1>1, <1>2, <1>5, <1>6
  <1>8. Filled(f) = 0 /\ ~f.prog[1 - f.widx] BY <1>1, <1>2, <1>5, <1>6 DEF Filled
  <1>9. \A d \in Devs : p[d] <= Cb[s]
    <2>1. Filled(g) \in Nat BY <1>1 DEF Header, Filled
    <2> QED BY <1>3, <2>1 DEF StreamOK, Fits
  <1>10. Fits(s, f, p) BY <1>3, <1>8, <1>9 DEF Fits
  <1>11. g.woff[w] = Cb[s] BY <1>0, FullHalf
  <1>12. /\ m \in Seq(1..BufFrames)
         /\ q = <<>> => Len(m) <= 1 /\ \A i \in 1..Len(m) : m[i] = Cb[s]
    <2> DEFINE B == 1..BufFrames
               x == Cb[s]
    <2>1. q \in Seq(B) /\ x \in B /\ (m = q \/ m = Append(q, x)) BY <1>3 DEF StreamOK
    <2> HIDE DEF B, x
    <2>2. m \in Seq(B) /\ (q = <<>> => Len(m) <= 1 /\ \A i \in 1..Len(m) : m[i] = x)
      BY <2>1, MessageFacts
    <2> QED BY <2>2 DEF B, x
  <1> HIDE DEF w
  <1>13. ASSUME ~f.overrun PROVE InStep(s, f, c, fu, m)
    <2>1. ~g.overrun /\ g.woff[1 - w] = 0 /\ InStep(s, g, c, ft, q) BY <1>7, <1>13 DEF StreamOK
    <2>2. fu.next = ft.next /\ fu.first[w] = (ft.next - Cb[s]) % FrameIds
      BY <2>1 DEF w
    <2>3. ft.next \in Nat /\ ft.next \in 0..FrameIds - 1 /\ ft.first \in [Halves -> 0..FrameIds - 1]
      <3>1. ft \in Numbers /\ FrameIds \in Nat BY ConstFacts DEF StreamOK
      <3> QED BY <3>1 DEF Numbers
    <2>4. fu.first[w] = (ft.next - Cb[s]) % FrameIds BY <2>2
    <2>5. Start(f, fu) = ft.next
      <3>1. \A F \in Nat \ {0} : \A a \in 0..F - 1 : (a - 0) % F = a OBVIOUS
      <3>2. FrameIds \in Nat \ {0} BY <1>0, ConstFacts
      <3>3. (ft.next - 0) % FrameIds = ft.next BY <2>3, <3>1, <3>2
      <3> QED BY <1>7, <2>2, <3>3 DEF Start
    <2>6. Before(s, f, fu) = fu.first[w] /\ Start(g, ft) = fu.first[w]
      BY <1>11, <2>4, <2>5 DEF Before, Start, w
    <2>7. Posted(s, f, fu, w) BY <1>6, <1>7, <1>11, <2>6 DEF Posted
    <2>8. g.woff[1 - w] # Cb[s] BY <1>3, <2>1
    <2>9. g.roff[w] = 0 BY <2>1 DEF InStep, w
    <2>10. ASSUME c.pc = "wait" PROVE AtWait(s, f, c, fu, m) /\ f.roff[f.widx] = 0 /\ q = <<>>
      <3>1. AtWait(s, g, c, ft, q) BY <2>1, <2>10 DEF InStep
      <3>2. Waits(g, c, ft, q) /\ g.roff[1 - w] = 0 BY <2>8, <3>1 DEF AtWait, Posted, w
      <3>3. g.ridx = w /\ q = <<>> /\ c.want = Start(g, ft) BY <3>2 DEF Waits, w
      <3>4. Len(m) <= 1 BY <1>12, <3>3
      <3> QED BY <1>7, <2>6, <2>7, <2>9, <3>2, <3>3, <3>4 DEF AtWait
    <2>11. c.pc # "callback"
      BY <2>1, <2>8 DEF InStep, AtCallback, Posted, w
    <2>12. c.pc # "clear"
      BY <2>1, <2>8 DEF InStep, AtClear, w
    <2>13. ASSUME c.pc = "advance" PROVE AtAdvance(s, f, c, fu, m) /\ f.roff[f.widx] = 0 /\ q = <<>>
      <3>1. AtAdvance(s, g, c, ft, q) BY <2>1, <2>13 DEF InStep
      <3>2. g.ridx = 1 - w /\ q = <<>> /\ c.want = Start(g, ft) /\ g.roff[1 - w] = 0
        BY <2>8, <3>1 DEF AtAdvance, Posted, w
      <3>3. Len(m) <= 1 BY <1>12, <3>2
      <3> QED BY <1>6, <1>7, <2>6, <2>7, <2>9, <3>2, <3>3 DEF AtAdvance
    <2>14. c.pc \in {"wait", "callback", "clear", "advance"}
      <3>1. c \in ClientState BY DEF StreamOK
      <3> QED BY <3>1 DEF ClientState
    <2>15. q = <<>> /\ f.roff[f.widx] = 0 BY <2>10, <2>11, <2>12, <2>13, <2>14
    <2>16. \A i \in 1..Len(m) : m[i] = Cb[s] BY <1>12, <2>15
    <2> QED BY <1>5, <2>1, <2>10, <2>11, <2>12, <2>13, <2>15, <2>16 DEF InStep
  <1>14. StreamOK(s, f, c, fu, m, p) BY <1>5, <1>10, <1>12, <1>13 DEF StreamOK
  <1> QED BY <1>5, <1>14 DEF Begun, e, f

-----------------------------------------------------------------------------
(* The client's steps.                                                     *)

\* The client sets the read offset of a half.
LEMMA HeaderRoff ==
  ASSUME NEW h \in Header, NEW x \in Nat
  PROVE  LET g == [h EXCEPT !.roff[h.ridx] = x]
         IN /\ g \in Header /\ g.woff = h.woff /\ g.prog = h.prog /\ g.widx = h.widx
            /\ g.ridx = h.ridx /\ g.overrun = h.overrun
            /\ \A i \in Halves : g.roff[i] = IF i = h.ridx THEN x ELSE h.roff[i]
  <1> DEFINE g == [h EXCEPT !.roff[h.ridx] = x]
             ro == [h.roff EXCEPT ![h.ridx] = x]
  <1>1. h.ridx \in Halves /\ h.roff \in [Halves -> Nat] BY DEF Header
  <1>2. ro \in [Halves -> Nat] /\ \A i \in Halves : ro[i] = IF i = h.ridx THEN x ELSE h.roff[i]
    BY <1>1
  <1>3. g = [h EXCEPT !.roff = ro] OBVIOUS
  <1> HIDE DEF ro, g
  <1>4. g \in Header /\ g.roff = ro /\ g.woff = h.woff /\ g.prog = h.prog /\ g.widx = h.widx
        /\ g.ridx = h.ridx /\ g.overrun = h.overrun
    BY <1>2, <1>3 DEF Header
  <1> QED BY <1>2, <1>4 DEF g

\* The client clears the write offset of a half.
LEMMA HeaderWoff ==
  ASSUME NEW h \in Header
  PROVE  LET g == [h EXCEPT !.woff[h.ridx] = 0]
         IN /\ g \in Header /\ g.roff = h.roff /\ g.prog = h.prog /\ g.widx = h.widx
            /\ g.ridx = h.ridx /\ g.overrun = h.overrun
            /\ \A i \in Halves : g.woff[i] = IF i = h.ridx THEN 0 ELSE h.woff[i]
  <1> DEFINE g == [h EXCEPT !.woff[h.ridx] = 0]
             wo == [h.woff EXCEPT ![h.ridx] = 0]
  <1>1. h.ridx \in Halves /\ h.woff \in [Halves -> Nat] BY DEF Header
  <1>2. wo \in [Halves -> Nat] /\ \A i \in Halves : wo[i] = IF i = h.ridx THEN 0 ELSE h.woff[i]
    BY <1>1
  <1>3. g = [h EXCEPT !.woff = wo] OBVIOUS
  <1> HIDE DEF wo, g
  <1>4. g \in Header /\ g.woff = wo /\ g.roff = h.roff /\ g.prog = h.prog /\ g.widx = h.widx
        /\ g.ridx = h.ridx /\ g.overrun = h.overrun
    BY <1>2, <1>3 DEF Header
  <1> QED BY <1>2, <1>4 DEF g

\* A message less on the socket.
LEMMA TailFacts ==
  ASSUME NEW B, NEW q \in Seq(B), q # <<>>
  PROVE  /\ Head(q) \in B /\ Tail(q) \in Seq(B) /\ Len(Tail(q)) = Len(q) - 1
         /\ Len(q) \in Nat \ {0} /\ Head(q) = q[1] /\ 1 \in 1..Len(q)
         /\ Len(q) <= 1 => Tail(q) = <<>> /\ \A i \in 1..Len(Tail(q)) : FALSE
  <1>1. /\ Head(q) \in B /\ Tail(q) \in Seq(B) /\ Len(Tail(q)) = Len(q) - 1
    BY HeadTailProperties
  <1>2. Len(q) \in Nat \ {0} /\ Head(q) = q[1] /\ 1 \in 1..Len(q) OBVIOUS
  <1>3. ASSUME Len(q) <= 1 PROVE Len(Tail(q)) = 0 BY <1>1, <1>2, <1>3
  <1>4. ASSUME Len(Tail(q)) = 0 PROVE Tail(q) = <<>>
    <2> DEFINE t == Tail(q)
    <2>1. t \in Seq(B) /\ Len(t) = 0 BY <1>1, <1>4
    <2> HIDE DEF t
    <2>2. t = <<>> BY <2>1
    <2> QED BY <2>2 DEF t
  <1>5. ASSUME Len(Tail(q)) = 0 PROVE \A i \in 1..Len(Tail(q)) : FALSE
    <2>1. \A i \in 1..0 : FALSE OBVIOUS
    <2> QED BY <1>5, <2>1
  <1> QED BY <1>1, <1>2, <1>3, <1>4, <1>5

\* DataReady keeps the stream in step: the message belongs to the half it reads.
LEMMA DataReadyOK ==
  ASSUME NEW s \in Clients, NEW h, NEW c, NEW fr, NEW q, NEW o,
         StreamOK(s, h, c, fr, q, o), c.pc = "wait", q # <<>>,
         NEW e,
         \/ e = c
         \/ e = [c EXCEPT !.pc = "callback", !.n = Smaller(Head(q), max_write_frames(s)),
                          !.first = fr.first[h.ridx]]
  PROVE  StreamOK(s, h, e, fr, Tail(q), o)
  <1> DEFINE n == Smaller(Head(q), max_write_frames(s))
             x == fr.first[h.ridx]
  <1>1. s \in Streams /\ h \in Header /\ c \in ClientState /\ fr \in Numbers
        /\ q \in Seq(1..BufFrames) /\ Len(q) <= SockSize /\ Fits(s, h, o)
        /\ (h.overrun \/ InStep(s, h, c, fr, q))
    BY DEF StreamOK, Clients
  <1>2. Head(q) \in 1..BufFrames /\ Tail(q) \in Seq(1..BufFrames) /\ Len(Tail(q)) = Len(q) - 1
        /\ Len(q) \in Nat \ {0} /\ Head(q) = q[1] /\ 1 \in 1..Len(q)
        /\ Len(q) <= 1 => Tail(q) = <<>> /\ \A i \in 1..Len(Tail(q)) : FALSE
    BY <1>1, TailFacts
  <1>3. Cb[s] \in Nat /\ Cb[s] <= BufFrames /\ BufFrames \in Nat /\ SockSize \in Nat
    BY <1>1, ConstFacts
  <1>4. max_write_frames(s) \in {Cb[s], BufFrames} BY DEF max_write_frames
  <1>5. n \in 0..BufFrames /\ (Head(q) = Cb[s] => n = Cb[s])
    <2> DEFINE y == Head(q)
               z == max_write_frames(s)
               b == Cb[s]
    <2>1. y \in Nat /\ y <= BufFrames /\ z \in Nat /\ b \in Nat /\ b <= BufFrames
          /\ (z = b \/ z = BufFrames)
      <3>1. \A i \in 1..BufFrames : i \in Nat /\ i <= BufFrames BY <1>3
      <3>2. y \in 1..BufFrames
        <4> DEFINE B == 1..BufFrames
        <4>1. q \in Seq(B) BY <1>1
        <4> HIDE DEF B
        <4>2. Head(q) \in B BY <4>1, TailFacts
        <4> QED BY <4>2 DEF B
      <3>3. z \in Nat /\ (z = b \/ z = BufFrames) BY <1>3, <1>4
      <3> HIDE DEF y, z
      <3> QED BY <1>3, <3>1, <3>2, <3>3
    <2> HIDE DEF y, z, b
    <2>2. Smaller(y, z) \in 0..BufFrames /\ (y = b => Smaller(y, z) = b)
      BY <1>3, <2>1 DEF Smaller
    <2> QED BY <2>2 DEF y, z, b
  <1>6. x \in 0..FrameIds - 1 BY <1>1 DEF Numbers, Header
  <1>7. \/ e = c
        \/ e = [c EXCEPT !.pc = "callback", !.n = n, !.first = x]
    OBVIOUS
  <1> HIDE DEF n, x
  <1>8. e \in ClientState /\ (e = c \/ (e.pc = "callback" /\ e.n = n /\ e.first = x))
        /\ e.want = c.want /\ e.broken = c.broken
    BY <1>1, <1>5, <1>6, <1>7 DEF ClientState
  <1>9. ASSUME ~h.overrun PROVE InStep(s, h, e, fr, Tail(q))
    <2>1. InStep(s, h, c, fr, q) /\ AtWait(s, h, c, fr, q) BY <1>1, <1>9 DEF InStep
    <2>2. Posted(s, h, fr, h.ridx) /\ h.roff[h.ridx] = 0 /\ Len(q) <= 1 /\ c.want = Before(s, h, fr)
      BY <2>1 DEF AtWait, Waits
    <2>3. \A i \in 1..Len(Tail(q)) : FALSE BY <1>2, <2>2
    <2>4. Tail(q) = <<>> /\ Len(Tail(q)) <= 1 BY <1>2, <2>2
    <2>5. Head(q) = Cb[s] BY <1>2, <2>1 DEF InStep
    <2>6. CASE e = c
      <3>1. AtWait(s, h, c, fr, Tail(q)) BY <2>2, <2>4 DEF AtWait
      <3>2. \A i \in 1..Len(Tail(q)) : Tail(q)[i] = Cb[s] BY <2>3
      <3> QED BY <2>1, <2>6, <3>1, <3>2 DEF InStep
    <2>7. CASE e.pc = "callback" /\ e.n = n /\ e.first = x
      <3>1. e.first = Before(s, h, fr) BY <2>2, <2>7 DEF Posted, x
      <3>2. AtCallback(s, h, e, fr, Tail(q))
        BY <1>5, <1>8, <2>2, <2>4, <2>5, <2>7, <3>1 DEF AtCallback
      <3>3. \A i \in 1..Len(Tail(q)) : Tail(q)[i] = Cb[s] BY <2>3
      <3> QED BY <1>8, <2>1, <2>7, <3>2, <3>3 DEF InStep
    <2> QED BY <1>8, <2>6, <2>7
  <1>10. Len(Tail(q)) <= SockSize BY <1>1, <1>2, <1>3
  <1> QED BY <1>1, <1>2, <1>8, <1>9, <1>10 DEF StreamOK

\* The number after a callback's worth.
LEMMA NextHalf ==
  ASSUME NEW F \in Nat \ {0}, NEW a \in Int, NEW b \in Nat
  PROVE  ((((a % F) - b) % F) + b) % F = a % F
  <1> DEFINE x == a % F
             y == x - b
  <1>1. x \in Int /\ x \in 0..F - 1 /\ y \in Int /\ y + b = x /\ b \in Int OBVIOUS
  <1>2. x % F = x
    <2> HIDE DEF x
    <2> QED BY <1>1
  <1> HIDE DEF x, y
  <1>3. ((y % F) + b) % F = (y + b) % F BY <1>1, ModOfMod
  <1> QED BY <1>1, <1>2, <1>3 DEF x, y

\* Callback keeps the stream in step: the half is the expected one, and intact.
LEMMA CallbackOK ==
  ASSUME NEW s \in Clients, NEW h, NEW c, NEW fr, NEW q, NEW o,
         StreamOK(s, h, c, fr, q, o), c.pc = "callback", NEW k \in 0..c.n,
         NEW g, NEW e, NEW intact \in BOOLEAN,
         intact <=> ~h.prog[h.ridx] /\ fr.first[h.ridx] = c.first,
         g = IF k = 0 THEN h
             ELSE [h EXCEPT !.roff[h.ridx] =
                     IF h.roff[h.ridx] + k >= h.woff[h.ridx] THEN 0 ELSE @ + k],
         e = [pc |-> IF k > 0 /\ h.roff[h.ridx] + k >= h.woff[h.ridx] THEN "clear" ELSE "wait",
              n |-> 0, first |-> 0,
              want |-> IF h.overrun THEN 0 ELSE IF k = 0 THEN c.want
                       ELSE (c.first + k) % FrameIds,
              broken |-> c.broken \/ ~intact \/ ~(c.first = c.want)]
  PROVE  StreamOK(s, g, e, fr, q, o)
  <1> DEFINE r == h.ridx
             x == IF h.roff[r] + k >= h.woff[r] THEN 0 ELSE h.roff[r] + k
             b == c.broken \/ ~intact \/ ~(c.first = c.want)
             v == IF h.overrun THEN 0 ELSE IF k = 0 THEN c.want ELSE (c.first + k) % FrameIds
             cl == k > 0 /\ h.roff[r] + k >= h.woff[r]
  <1>1. s \in Streams /\ h \in Header /\ c \in ClientState /\ fr \in Numbers
        /\ q \in Seq(1..BufFrames) /\ Len(q) <= SockSize /\ Fits(s, h, o)
        /\ (h.overrun \/ InStep(s, h, c, fr, q))
    BY DEF StreamOK, Clients
  <1>2. r \in Halves /\ h.roff[r] \in Nat /\ h.woff[r] \in Nat /\ k \in Nat /\ k <= c.n
    BY <1>1 DEF Header, ClientState
  <1>3. x \in Nat BY <1>2
  <1>4. Cb[s] \in Nat \ {0} /\ FrameIds \in Nat \ {0} /\ BufFrames \in Nat BY <1>1, ConstFacts
  <1>5. v \in 0..FrameIds - 1 /\ b \in BOOLEAN
    <2>1. c.first \in Nat /\ c.want \in 0..FrameIds - 1 BY <1>1, <1>4 DEF ClientState
    <2> QED BY <1>2, <1>4, <2>1
  <1>6. e = [pc |-> IF cl THEN "clear" ELSE "wait", n |-> 0, first |-> 0, want |-> v, broken |-> b]
    OBVIOUS
  <1>7. g = IF k = 0 THEN h ELSE [h EXCEPT !.roff[h.ridx] = x] BY <1>2
  <1> HIDE DEF x, b, v
  <1>8. /\ g \in Header /\ g.woff = h.woff /\ g.prog = h.prog /\ g.widx = h.widx
        /\ g.ridx = r /\ g.overrun = h.overrun
        /\ \A i \in Halves : i # r => g.roff[i] = h.roff[i]
        /\ k # 0 => g.roff[r] = x
        /\ k = 0 => g = h
    <2>1. CASE k = 0 BY <1>1, <1>7, <2>1
    <2>2. CASE k # 0
      <3>1. g = [h EXCEPT !.roff[h.ridx] = x] BY <1>7, <2>2
      <3> DEFINE f == [h EXCEPT !.roff[h.ridx] = x]
      <3>2. /\ f \in Header /\ f.woff = h.woff /\ f.prog = h.prog /\ f.widx = h.widx
            /\ f.ridx = h.ridx /\ f.overrun = h.overrun
            /\ \A i \in Halves : f.roff[i] = IF i = h.ridx THEN x ELSE h.roff[i]
        BY <1>1, <1>3, HeaderRoff
      <3> HIDE DEF f
      <3>3. g = f BY <3>1 DEF f
      <3> QED BY <1>2, <2>2, <3>2, <3>3
    <2> QED BY <2>1, <2>2
  <1>9. e \in ClientState BY <1>4, <1>5, <1>6 DEF ClientState
  <1>10. Fits(s, g, o) BY <1>1, <1>8 DEF Fits, Filled
  <1>11. ASSUME ~h.overrun PROVE InStep(s, g, e, fr, q)
    <2>1. InStep(s, h, c, fr, q) /\ AtCallback(s, h, c, fr, q) BY <1>1, <1>11 DEF InStep
    <2>2. /\ r = 1 - h.widx /\ h.woff[r] = Cb[s] /\ fr.first[r] = Before(s, h, fr)
          /\ h.roff[r] = 0 /\ q = <<>> /\ c.n = Cb[s]
          /\ c.want = Before(s, h, fr) /\ c.first = Before(s, h, fr)
      BY <2>1 DEF AtCallback, Posted
    <2>3. ~h.prog[r] BY <1>1, <2>2 DEF Fits
    <2>4. ~b BY <2>1, <2>2, <2>3 DEF b, InStep
    <2>5. h.widx \in Halves /\ h.widx # r BY <1>1, <2>2, HalfFacts DEF Header
    <2>6. g.roff[g.widx] = 0 /\ g.woff[g.widx] = h.woff[h.widx]
      BY <1>8, <2>1, <2>5 DEF InStep
    <2>7. Start(g, fr) = Start(h, fr) /\ Before(s, g, fr) = Before(s, h, fr)
      BY <1>8 DEF Start, Before
    <2>8. Posted(s, g, fr, r) BY <1>8, <2>2, <2>7 DEF Posted
    <2>9. CASE k = 0
      <3>1. e.pc = "wait" /\ e.want = c.want /\ ~e.broken BY <1>6, <1>11, <2>4, <2>9 DEF v
      <3>2. AtWait(s, g, e, fr, q)
        BY <1>8, <2>2, <2>7, <2>8, <2>9, <3>1 DEF AtWait
      <3> QED BY <1>8, <2>1, <2>6, <3>1, <3>2 DEF InStep
    <2>10. CASE 0 < k /\ k < Cb[s]
      <3>1. e.pc = "wait" /\ ~e.broken BY <1>2, <1>4, <1>6, <2>2, <2>4, <2>10
      <3>2. g.roff[r] > 0 BY <1>2, <1>4, <1>8, <2>2, <2>10 DEF x
      <3>3. AtWait(s, g, e, fr, q) BY <1>8, <2>2, <2>8, <3>2 DEF AtWait
      <3> QED BY <1>8, <2>1, <2>6, <3>1, <3>3 DEF InStep
    <2>11. CASE k = Cb[s]
      <3>1. e.pc = "clear" /\ ~e.broken /\ e.want = (c.first + k) % FrameIds
        BY <1>2, <1>4, <1>6, <1>11, <2>2, <2>4, <2>11 DEF v
      <3>2. g.roff[r] = 0 BY <1>2, <1>4, <1>8, <2>2, <2>11 DEF x
      <3>3. e.want = Start(g, fr)
        <4> DEFINE F == FrameIds
                   y == fr.next - h.woff[h.widx]
                   z == Cb[s]
        <4>1. fr.next \in Int /\ h.woff[h.widx] \in Int BY <1>1, <1>4 DEF Numbers, Header
        <4>2. F \in Nat \ {0} /\ y \in Int /\ z \in Nat BY <1>4, <4>1
        <4>3. Start(h, fr) = y % F /\ c.first = ((y % F) - z) % F BY <2>2 DEF Start, Before
        <4>4. e.want = (c.first + z) % F BY <2>11, <3>1
        <4> HIDE DEF F, y, z
        <4> QED BY <2>7, <4>2, <4>3, <4>4, NextHalf
      <3>4. AtClear(s, g, e, fr, q) BY <1>8, <2>2, <3>2, <3>3 DEF AtClear
      <3> QED BY <1>8, <2>1, <2>6, <3>1, <3>4 DEF InStep
    <2> QED BY <1>2, <1>4, <2>2, <2>9, <2>10, <2>11
  <1> QED BY <1>1, <1>8, <1>9, <1>10, <1>11 DEF StreamOK

\* ClearWritten keeps the stream in step.
LEMMA ClearOK ==
  ASSUME NEW s \in Clients, NEW h, NEW c, NEW fr, NEW q, NEW o \in [Devs -> Nat],
         StreamOK(s, h, c, fr, q, o), c.pc = "clear"
  PROVE  StreamOK(s, [h EXCEPT !.woff[h.ridx] = 0], [c EXCEPT !.pc = "advance"], fr, q, o)
  <1> DEFINE g == [h EXCEPT !.woff[h.ridx] = 0]
             e == [c EXCEPT !.pc = "advance"]
             r == h.ridx
  <1>1. s \in Streams /\ h \in Header /\ c \in ClientState /\ fr \in Numbers
        /\ q \in Seq(1..BufFrames) /\ Len(q) <= SockSize /\ Fits(s, h, o)
        /\ (h.overrun \/ InStep(s, h, c, fr, q))
    BY DEF StreamOK, Clients
  <1>2. /\ g \in Header /\ g.roff = h.roff /\ g.prog = h.prog /\ g.widx = h.widx
        /\ g.ridx = r /\ g.overrun = h.overrun
        /\ \A i \in Halves : g.woff[i] = IF i = r THEN 0 ELSE h.woff[i]
    BY <1>1, HeaderWoff
  <1>3. e \in ClientState /\ e.pc = "advance" /\ e.want = c.want /\ e.broken = c.broken
    BY <1>1 DEF ClientState
  <1> HIDE DEF g, e
  <1>4. h.widx \in Halves /\ r \in Halves /\ Cb[s] \in Nat BY <1>1, ConstFacts DEF Header
  <1>5. Fits(s, g, o)
    <2>1. Filled(h) \in Nat BY <1>1 DEF Header, Filled
    <2>2. Filled(g) \in Nat /\ Filled(g) <= Filled(h)
      <3>1. h.woff[h.widx] \in Nat BY <1>1 DEF Header
      <3> QED BY <1>2, <1>4, <3>1 DEF Filled
    <2> QED BY <1>1, <1>2, <1>4, <2>1, <2>2 DEF Fits
  <1>6. ASSUME ~h.overrun PROVE InStep(s, g, e, fr, q)
    <2>1. InStep(s, h, c, fr, q) /\ AtClear(s, h, c, fr, q) BY <1>1, <1>6 DEF InStep
    <2>2. /\ r = 1 - h.widx /\ h.roff[r] = 0 /\ q = <<>> /\ c.want = Start(h, fr)
      BY <2>1 DEF AtClear
    <2>3. h.widx # r /\ g.woff[g.widx] = h.woff[h.widx] /\ g.woff[r] = 0
      BY <1>2, <1>4, <2>2, HalfFacts
    <2>4. Start(g, fr) = Start(h, fr) BY <1>2, <2>3 DEF Start
    <2>5. AtAdvance(s, g, e, fr, q) BY <1>2, <1>3, <2>2, <2>3, <2>4 DEF AtAdvance
    <2> QED BY <1>2, <1>3, <2>1, <2>3, <2>5 DEF InStep
  <1>7. StreamOK(s, g, e, fr, q, o) BY <1>1, <1>2, <1>3, <1>5, <1>6 DEF StreamOK
  <1> QED BY <1>7 DEF g, e

\* MoveOn keeps the stream in step: the next half is the one after.
LEMMA MoveOnOK ==
  ASSUME NEW s \in Clients, NEW h, NEW c, NEW fr, NEW q, NEW o,
         StreamOK(s, h, c, fr, q, o), c.pc = "advance"
  PROVE  StreamOK(s, [h EXCEPT !.ridx = 1 - @], [c EXCEPT !.pc = "wait"], fr, q, o)
  <1> DEFINE g == [h EXCEPT !.ridx = 1 - @]
             e == [c EXCEPT !.pc = "wait"]
  <1>1. s \in Streams /\ h \in Header /\ c \in ClientState /\ fr \in Numbers
        /\ q \in Seq(1..BufFrames) /\ Len(q) <= SockSize /\ Fits(s, h, o)
        /\ (h.overrun \/ InStep(s, h, c, fr, q))
    BY DEF StreamOK, Clients
  <1>2. h.widx \in Halves /\ h.ridx \in Halves /\ 1 - h.ridx \in Halves
    BY <1>1, HalfFacts DEF Header
  <1>3. /\ g \in Header /\ g.roff = h.roff /\ g.prog = h.prog /\ g.widx = h.widx
        /\ g.ridx = 1 - h.ridx /\ g.overrun = h.overrun /\ g.woff = h.woff
    BY <1>1, <1>2 DEF Header
  <1>4. e \in ClientState /\ e.pc = "wait" /\ e.want = c.want /\ e.broken = c.broken
    BY <1>1 DEF ClientState
  <1> HIDE DEF g, e
  <1>5. Fits(s, g, o) BY <1>1, <1>3 DEF Fits, Filled
  <1>6. ASSUME ~h.overrun PROVE InStep(s, g, e, fr, q)
    <2>1. InStep(s, h, c, fr, q) /\ AtAdvance(s, h, c, fr, q) BY <1>1, <1>6 DEF InStep
    <2>2. Start(g, fr) = Start(h, fr) /\ Before(s, g, fr) = Before(s, h, fr)
      BY <1>3 DEF Start, Before
    <2>3. 1 - (1 - h.widx) = h.widx BY <1>2, HalfFacts
    <2>4. CASE /\ h.ridx = 1 - h.widx /\ h.woff[h.ridx] = 0
               /\ q = <<>> /\ c.want = Start(h, fr)
      <3>1. Waits(g, e, fr, q) BY <1>3, <1>4, <2>2, <2>3, <2>4 DEF Waits
      <3>2. AtWait(s, g, e, fr, q) BY <1>3, <2>1, <3>1 DEF AtWait, AtAdvance
      <3> QED BY <1>3, <1>4, <2>1, <3>2 DEF InStep
    <2>5. CASE /\ h.ridx = h.widx /\ Posted(s, h, fr, 1 - h.widx)
               /\ Len(q) <= 1 /\ c.want = Before(s, h, fr)
      <3>1. Posted(s, g, fr, g.ridx) BY <1>3, <2>2, <2>5 DEF Posted
      <3>2. AtWait(s, g, e, fr, q) BY <1>3, <1>4, <2>1, <2>2, <2>5, <3>1 DEF AtWait, AtAdvance
      <3> QED BY <1>3, <1>4, <2>1, <3>2 DEF InStep
    <2> QED BY <2>1, <2>4, <2>5 DEF AtAdvance
  <1>7. StreamOK(s, g, e, fr, q, o) BY <1>1, <1>3, <1>4, <1>5, <1>6 DEF StreamOK
  <1> QED BY <1>7 DEF g, e

-----------------------------------------------------------------------------
(* Lists of streams and devices.                                           *)

\* What taking an entry off a list without repetitions gives.
LEMMA WithoutFacts ==
  ASSUME NEW V, NEW q \in Seq(V), IsInjective(q), NEW x
  PROVE  LET n == Without(q, x)
         IN /\ n \in Seq(V) /\ n \in Seq(V \ {x}) /\ IsInjective(n)
            /\ Range(n) = Range(q) \ {x} /\ (q = <<>> => n = <<>>)
  <1> DEFINE n == Without(q, x)
             i == CHOOSE j \in DOMAIN q : q[j] = x
  <1>1. Range(q) \subseteq V BY RangeOfSeq
  <1>2. CASE x \in Range(q)
    <2>1. i \in DOMAIN q /\ q[i] = x BY <1>2 DEF Range
    <2>2. i \in 1..Len(q) /\ q[i] = x /\ q # <<>> BY <2>1
    <2>3. n = RemoveAt(q, i) BY <1>2 DEF Without
    <2> HIDE DEF n, i
    <2> DEFINE r == RemoveAt(q, i)
    <2>4. r \in Seq(V) BY <2>2, RemoveAtFacts
    <2>5. Range(r) = Range(q) \ {q[i]} /\ IsInjective(r) BY <2>2, RemoveAtRange
    <2> HIDE DEF r
    <2>6. r = n BY <2>3 DEF r
    <2>7. n \in Seq(V \ {x})
      <3>1. Range(n) \subseteq V \ {x} BY <1>1, <2>2, <2>5, <2>6
      <3> QED BY <2>4, <2>6, <3>1, SeqOfRange
    <2> QED BY <2>2, <2>4, <2>5, <2>6, <2>7 DEF n
  <1>3. CASE x \notin Range(q)
    <2>1. n = q BY <1>3 DEF Without
    <2>2. Range(q) = Range(q) \ {x} BY <1>3
    <2>3. Range(q) \subseteq V \ {x} BY <1>1, <1>3
    <2>4. q \in Seq(V \ {x}) BY <2>3, SeqOfRange
    <2> QED BY <2>1, <2>2, <2>4
  <1> QED BY <1>2, <1>3

\* M differs from L, which is fine for the streams V, in that s has left.
Left(L, M, s, V, O) ==
    /\ DevsOK(M, V \ {s}, O)
    /\ \A t \in Streams : t # s => M.off[t] = L.off[t]
    /\ \A d \in Devs : M.off[s][d] = 0

\* Taking a stream off all devices.
LEMMA RemovedOK ==
  ASSUME NEW V, NEW O, NEW L, DevsOK(L, V, O), NEW s \in Streams
  PROVE  Left(L, Removed(L, s), s, V, O)
  <1> DEFINE M == Removed(L, s)
             li == [d \in Devs |-> Without(L.list[d], s)]
             dv == [d \in Devs |-> [L.devoff[d] EXCEPT ![s] = 0]]
             zero == [d \in Devs |-> 0]
             of == [L.off EXCEPT ![s] = zero]
  <1>1. /\ L.list \in [Devs -> Seq(V)] /\ L.hw \in [Devs -> 0..HwSize]
        /\ L.devoff \in [Devs -> [Streams -> 0..HwSize]] /\ L.off \in [Streams -> [Devs -> Nat]]
        /\ L.capped \in BOOLEAN /\ L \in DevState(V)
    BY DEF DevsOK, DevState
  <1>2. \A d \in Devs : DevOK(L, d, O) BY DEF DevsOK
  <1>3. ASSUME NEW d \in Devs
        PROVE  /\ li[d] \in Seq(V \ {s}) /\ IsInjective(li[d])
               /\ Range(li[d]) = Range(L.list[d]) \ {s}
               /\ L.list[d] = <<>> => li[d] = <<>>
    <2> DEFINE q == L.list[d]
    <2>1. q \in Seq(V) /\ IsInjective(q) BY <1>1, <1>2 DEF DevOK
    <2>2. li[d] = Without(q, s) OBVIOUS
    <2> HIDE DEF q, li
    <2>3. LET n == Without(q, s)
          IN /\ n \in Seq(V) /\ n \in Seq(V \ {s}) /\ IsInjective(n)
             /\ Range(n) = Range(q) \ {s} /\ (q = <<>> => n = <<>>)
      BY <2>1, WithoutFacts
    <2> QED BY <2>2, <2>3 DEF q
  <1>4. li \in [Devs -> Seq(V \ {s})]
    <2>1. \A d \in Devs : li[d] \in Seq(V \ {s}) BY <1>3
    <2>2. li = [d \in Devs |-> li[d]] OBVIOUS
    <2> HIDE DEF li
    <2> QED BY <2>1, <2>2
  <1>5. /\ dv \in [Devs -> [Streams -> 0..HwSize]]
        /\ \A d \in Devs, t \in Streams : dv[d][t] = IF t = s THEN 0 ELSE L.devoff[d][t]
    <2>1. 0 \in 0..HwSize BY ConstFacts
    <2>2. ASSUME NEW d \in Devs
          PROVE  /\ dv[d] \in [Streams -> 0..HwSize]
                 /\ \A t \in Streams : dv[d][t] = IF t = s THEN 0 ELSE L.devoff[d][t]
      BY <1>1, <2>1
    <2> QED BY <2>2
  <1>6. /\ of \in [Streams -> [Devs -> Nat]]
        /\ \A t \in Streams : t # s => of[t] = L.off[t]
        /\ \A d \in Devs : of[s][d] = 0
    <2>1. zero \in [Devs -> Nat] /\ \A d \in Devs : zero[d] = 0 OBVIOUS
    <2> HIDE DEF zero
    <2> QED BY <1>1, <2>1
  <1>7. M = [L EXCEPT !.list = li, !.devoff = dv, !.off = of]
    BY DEF Removed
  <1> HIDE DEF li, dv, of, M
  <1>8. /\ M \in DevState(V \ {s}) /\ M.list = li /\ M.hw = L.hw /\ M.devoff = dv /\ M.off = of
    BY <1>1, <1>4, <1>5, <1>6, <1>7 DEF DevState
  <1>9. ASSUME NEW d \in Devs PROVE DevOK(M, d, O)
    <2>1. DevOK(L, d, O) BY <1>2
    <2>2. M.list[d] # <<>> => d \in O BY <1>3, <1>8, <2>1 DEF DevOK
    <2>3. ASSUME NEW t \in Streams
          PROVE  /\ M.devoff[d][t] <= M.hw[d]
                 /\ t \notin Range(M.list[d]) => M.devoff[d][t] = 0 /\ M.off[t][d] = 0
      <3>1. CASE t = s
        <4>1. M.devoff[d][t] = 0 /\ M.off[t][d] = 0 BY <1>5, <1>6, <1>8, <3>1
        <4>2. M.hw[d] \in 0..HwSize BY <1>1, <1>8
        <4> QED BY <4>1, <4>2, ConstFacts
      <3>2. CASE t # s
        <4>1. M.devoff[d][t] = L.devoff[d][t] /\ M.off[t] = L.off[t] /\ M.hw[d] = L.hw[d]
          BY <1>5, <1>6, <1>8, <3>2
        <4>2. t \in Range(L.list[d]) => t \in Range(M.list[d]) BY <1>3, <1>8, <3>2
        <4> QED BY <2>1, <4>1, <4>2 DEF DevOK
      <3> QED BY <3>1, <3>2
    <2> QED BY <1>3, <1>8, <2>2, <2>3 DEF DevOK
  <1>10. DevsOK(M, V \ {s}, O) BY <1>8, <1>9 DEF DevsOK
  <1> QED BY <1>6, <1>8, <1>10 DEF M, Left

\* M differs from L in that s has joined the device d.
Joined(L, M, s, d) ==
    /\ \A e \in Devs : e # d => /\ M.list[e] = L.list[e] /\ M.hw[e] = L.hw[e]
                                /\ M.devoff[e] = L.devoff[e] /\ M.off[s][e] = L.off[s][e]
    /\ \A t \in Streams : t # s => M.off[t] = L.off[t] /\ M.devoff[d][t] = L.devoff[d][t]
    /\ IsInjective(M.list[d]) /\ Range(M.list[d]) = Range(L.list[d]) \cup {s}
    /\ \A t \in Streams : M.devoff[d][t] <= M.hw[d]

\* A stream that joins an open device leaves the lists in order.
LEMMA JoinedOK ==
  ASSUME NEW V \in SUBSET Streams, NEW O, NEW L, DevsOK(L, V, O), NEW s \in Streams,
         NEW d \in Devs, d \in O,
         NEW M \in DevState(V), Joined(L, M, s, d)
  PROVE  DevsOK(M, V, O)
  <1>2. \A e \in Devs : DevOK(L, e, O) BY DEF DevsOK
  <1>7. ASSUME NEW e \in Devs, e # d PROVE DevOK(M, e, O)
    <2>1. \A t \in Streams : M.off[t][e] = L.off[t][e] BY <1>7 DEF Joined
    <2>2. M.list[e] = L.list[e] /\ M.hw[e] = L.hw[e] /\ M.devoff[e] = L.devoff[e]
      BY <1>7 DEF Joined
    <2> QED BY <1>2, <2>1, <2>2 DEF DevOK
  <1>8. DevOK(M, d, O)
    <2>1. ASSUME NEW t \in Streams
          PROVE  /\ M.devoff[d][t] <= M.hw[d]
                 /\ t \notin Range(M.list[d]) => M.devoff[d][t] = 0 /\ M.off[t][d] = 0
      <3>1. M.devoff[d][t] <= M.hw[d] BY DEF Joined
      <3>2. ASSUME t \notin Range(M.list[d]) PROVE M.devoff[d][t] = 0 /\ M.off[t][d] = 0
        <4>1. t # s /\ t \notin Range(L.list[d]) BY <3>2 DEF Joined
        <4>2. L.devoff[d][t] = 0 /\ L.off[t][d] = 0 BY <1>2, <4>1 DEF DevOK
        <4> QED BY <4>1, <4>2 DEF Joined
      <3> QED BY <3>1, <3>2
    <2> QED BY <2>1 DEF DevOK, Joined
  <1> QED BY <1>7, <1>8 DEF DevsOK

\* Attaching a stream to one open device.
LEMMA AppendToOK ==
  ASSUME NEW V \in SUBSET Streams, NEW O, NEW L, DevsOK(L, V, O), NEW s \in V,
         NEW d \in Devs, d \in O,
         s \notin Range(L.list[d])
  PROVE  LET M == AppendTo(L, s, d)
         IN /\ DevsOK(M, V, O) /\ Joined(L, M, s, d)
            /\ M.off[s][d] \in Nat /\ M.off[s][d] <= Cb[s]
            /\ (\A t \in Streams : L.off[t][d] = 0) => M.off[s][d] = 0
  <1> DEFINE M == AppendTo(L, s, d)
             q == L.list[d]
  <1>1. /\ L.list \in [Devs -> Seq(V)] /\ L.hw \in [Devs -> 0..HwSize]
        /\ L.devoff \in [Devs -> [Streams -> 0..HwSize]] /\ L.off \in [Streams -> [Devs -> Nat]]
        /\ L.capped \in BOOLEAN /\ L \in DevState(V)
    BY DEF DevsOK, DevState
  <1>2. q \in Seq(V) /\ IsInjective(q) BY <1>1 DEF DevsOK, DevOK
  <1>3. /\ HwSize \in Nat /\ Cb[s] \in Nat /\ s \in Streams
    BY ConstFacts
  <1>4. \A t \in Streams : L.devoff[d][t] <= L.hw[d] BY DEF DevsOK, DevOK
  <1>5. CASE q = <<>>
    <2> DEFINE li == [L.list EXCEPT ![d] = <<s>>]
               h == [L.hw EXCEPT ![d] = 0]
               dv == [L.devoff EXCEPT ![d] = [@ EXCEPT ![s] = 0]]
               of == [L.off EXCEPT ![s] = [@ EXCEPT ![d] = 0]]
    <2>1. <<s>> \in Seq(V) /\ IsInjective(<<s>>) /\ Range(<<s>>) = {s} /\ Range(q) = {}
      BY <1>5 DEF IsInjective, Range
    <2>2. M = [L EXCEPT !.list = li, !.hw = h, !.devoff = dv, !.off = of]
      BY <1>5 DEF AppendTo
    <2>3. li \in [Devs -> Seq(V)] BY <1>1, <2>1
    <2>4. h \in [Devs -> 0..HwSize] BY <1>1, <1>3
    <2>5. dv \in [Devs -> [Streams -> 0..HwSize]] BY <1>1, <1>3
    <2>6. of \in [Streams -> [Devs -> Nat]] BY <1>1
    <2> HIDE DEF li, h, dv, of, M
    <2>7. M \in DevState(V) /\ M.list = li /\ M.hw = h /\ M.devoff = dv /\ M.off = of
      BY <1>1, <2>2, <2>3, <2>4, <2>5, <2>6 DEF DevState
    <2>8. \A t \in Streams : L.devoff[d][t] <= 0
      BY <2>1 DEF DevsOK, DevOK
    <2>9. M.list[d] = <<s>> /\ \A e \in Devs : e # d => M.list[e] = L.list[e]
      BY <1>1, <2>7 DEF li
    <2>10. M.hw[d] = 0 /\ \A e \in Devs : e # d => M.hw[e] = L.hw[e] BY <1>1, <2>7 DEF h
    <2>11. /\ \A e \in Devs : e # d => M.devoff[e] = L.devoff[e]
           /\ \A t \in Streams : M.devoff[d][t] = IF t = s THEN 0 ELSE L.devoff[d][t]
      BY <1>1, <2>7 DEF dv
    <2>12. /\ \A t \in Streams : t # s => M.off[t] = L.off[t]
           /\ \A e \in Devs : M.off[s][e] = IF e = d THEN 0 ELSE L.off[s][e]
      BY <1>1, <1>3, <2>7 DEF of
    <2>13. Joined(L, M, s, d) BY <2>1, <2>8, <2>9, <2>10, <2>11, <2>12 DEF Joined, q
    <2>14. DevsOK(M, V, O) BY <1>3, <2>7, <2>13, JoinedOK
    <2> QED BY <1>3, <2>12, <2>13, <2>14 DEF M
  <1>6. CASE q # <<>>
    <2> DEFINE f == Head(q)
               a == AlignedTo(L.devoff[d][f], s)
               b == AlignedTo(L.off[f][d], s)
               p == Append(q, s)
               cp == L.capped \/ L.devoff[d][f] > Cb[s] \/ L.off[f][d] > Cb[s]
               li == [L.list EXCEPT ![d] = p]
               dv == [L.devoff EXCEPT ![d] = [@ EXCEPT ![s] = a]]
               of == [L.off EXCEPT ![s] = [@ EXCEPT ![d] = b]]
    <2>1. M = [L EXCEPT !.list = li, !.devoff = dv, !.off = of, !.capped = cp]
      BY <1>6 DEF AppendTo
    <2>2. p \in Seq(V) /\ IsInjective(p) /\ Range(p) = Range(q) \cup {s}
      <3> HIDE DEF q
      <3>1. s \notin Range(q) BY DEF q
      <3> QED BY <1>2, <3>1, AppendRange
    <2>3. f \in V /\ f \in Streams BY <1>2, <1>6
    <2>4. L.devoff[d][f] \in 0..HwSize /\ L.off[f][d] \in Nat /\ L.devoff[d][f] <= L.hw[d]
          /\ L.hw[d] \in 0..HwSize
      BY <1>1, <1>4, <2>3
    <2>5. /\ a \in Nat /\ a <= L.devoff[d][f]
          /\ b \in Nat /\ b <= Cb[s] /\ b <= L.off[f][d]
      <3>1. L.devoff[d][f] \in Nat BY <1>3, <2>4
      <3> QED BY <1>3, <2>4, <3>1, SmallerFacts DEF AlignedTo
    <2>6. cp \in BOOLEAN BY <1>1
    <2> HIDE DEF a, b, p, cp, f
    <2>7. a \in 0..HwSize /\ a <= L.hw[d] BY <1>3, <2>4, <2>5
    <2>8. li \in [Devs -> Seq(V)] BY <1>1, <2>2
    <2>9. dv \in [Devs -> [Streams -> 0..HwSize]] BY <1>1, <2>7
    <2>10. of \in [Streams -> [Devs -> Nat]] BY <1>1, <2>5
    <2> HIDE DEF li, dv, of, M
    <2>11. M \in DevState(V) /\ M.list = li /\ M.hw = L.hw /\ M.devoff = dv /\ M.off = of
      BY <1>1, <2>1, <2>6, <2>8, <2>9, <2>10 DEF DevState
    <2>12. M.list[d] = p /\ \A e \in Devs : e # d => M.list[e] = L.list[e]
      BY <1>1, <2>11 DEF li
    <2>13. /\ \A e \in Devs : e # d => M.devoff[e] = L.devoff[e]
           /\ \A t \in Streams : M.devoff[d][t] = IF t = s THEN a ELSE L.devoff[d][t]
      BY <1>1, <2>11 DEF dv
    <2>14. /\ \A t \in Streams : t # s => M.off[t] = L.off[t]
           /\ \A e \in Devs : M.off[s][e] = IF e = d THEN b ELSE L.off[s][e]
      BY <1>1, <1>3, <2>11 DEF of
    <2>15. Joined(L, M, s, d)
      <3>1. \A t \in Streams : M.devoff[d][t] <= M.hw[d] BY <1>4, <2>7, <2>11, <2>13
      <3> QED BY <2>2, <2>11, <2>12, <2>13, <2>14, <3>1 DEF Joined
    <2>16. DevsOK(M, V, O) BY <1>3, <2>11, <2>15, JoinedOK
    <2>17. (\A t \in Streams : L.off[t][d] = 0) => b = 0 BY <2>3, <2>5
    <2> QED BY <2>5, <2>14, <2>15, <2>16, <2>17 DEF M
  <1> QED BY <1>5, <1>6

\* The parts of Lists.
LEMMA ListsFields ==
  /\ Lists.list = list /\ Lists.hw = hw /\ Lists.devoff = devoff /\ Lists.off = off
  /\ Lists.capped = capped
  BY DEF Lists

\* Another set of streams, and other open devices.
LEMMA MoreOK ==
  ASSUME NEW V, NEW W, V \subseteq W, NEW O, NEW P, O \subseteq P, NEW L, DevsOK(L, V, O)
  PROVE  DevsOK(L, W, P)
  <1>1. L \in DevState(W)
    <2>1. \A q \in Seq(V) : q \in Seq(W) BY SeqMonotonic
    <2>2. [Devs -> Seq(V)] \subseteq [Devs -> Seq(W)] BY <2>1
    <2> QED BY <2>2 DEF DevsOK, DevState
  <1> QED BY <1>1 DEF DevsOK, DevOK

\* A new stream is attached to the devices D.
LEMMA AppendStreamOK ==
  ASSUME NEW O, DevsOK(Lists, live, O), live \subseteq Streams, NEW s \in Streams, s \notin live,
         NEW D \in SUBSET Devs, D \subseteq O
  PROVE  LET M == dev_io_append_stream(s, D)
         IN /\ DevsOK(M, live \cup {s}, O)
            /\ \A t \in Streams : t # s => M.off[t] = off[t]
            /\ \A d \in Devs : M.off[s][d] <= Cb[s]
  <1> DEFINE V == live \cup {s}
             To(d) == AppendTo(Lists, s, d)
             li == [d \in Devs |-> IF d \in D THEN To(d).list[d] ELSE list[d]]
             h == [d \in Devs |-> IF d \in D THEN To(d).hw[d] ELSE hw[d]]
             dv == [d \in Devs |-> IF d \in D THEN To(d).devoff[d] ELSE devoff[d]]
             oo == [d \in Devs |-> IF d \in D THEN To(d).off[s][d] ELSE off[s][d]]
             of == [off EXCEPT ![s] = oo]
             cp == capped \/ \E d \in D : To(d).capped
             M == dev_io_append_stream(s, D)
  <1>1. V \in SUBSET Streams /\ s \in V OBVIOUS
  <1>2. DevsOK(Lists, V, O)
    <2>1. live \subseteq V /\ O \subseteq O OBVIOUS
    <2> HIDE DEF V
    <2> QED BY <2>1, MoreOK
  <1>3. \A d \in Devs : s \notin Range(list[d]) /\ list[d] \in Seq(live)
    <2>1. list \in [Devs -> Seq(live)] BY ListsFields DEF DevsOK, DevState
    <2>2. \A d \in Devs : list[d] \in Seq(live) BY <2>1
    <2>3. \A q \in Seq(live) : Range(q) \in SUBSET live BY RangeOfSeq
    <2> QED BY <2>2, <2>3
  <1>4. ASSUME NEW d \in D
        PROVE  /\ DevsOK(To(d), V, O) /\ Joined(Lists, To(d), s, d)
               /\ To(d).off[s][d] \in Nat /\ To(d).off[s][d] <= Cb[s]
    <2>1. d \in Devs /\ d \in O /\ s \notin Range(Lists.list[d]) BY <1>3, ListsFields
    <2> DEFINE K == Lists
    <2>2. DevsOK(K, V, O) /\ s \notin Range(K.list[d]) BY <1>2, <2>1
    <2> HIDE DEF V, K
    <2>3. LET N == AppendTo(K, s, d)
          IN /\ DevsOK(N, V, O) /\ Joined(K, N, s, d)
             /\ N.off[s][d] \in Nat /\ N.off[s][d] <= Cb[s]
      BY <1>1, <2>1, <2>2, AppendToOK
    <2> QED BY <2>3 DEF K
  <1>5. M = [list |-> li, hw |-> h, devoff |-> dv, off |-> of, capped |-> cp]
    BY DEF dev_io_append_stream
  <1>6. /\ list \in [Devs -> Seq(V)] /\ hw \in [Devs -> 0..HwSize]
        /\ devoff \in [Devs -> [Streams -> 0..HwSize]] /\ off \in [Streams -> [Devs -> Nat]]
        /\ capped \in BOOLEAN
    BY <1>2, ListsFields DEF DevsOK, DevState
  <1>7. ASSUME NEW d \in D
        PROVE  /\ To(d).list[d] \in Seq(V) /\ To(d).hw[d] \in 0..HwSize
               /\ To(d).devoff[d] \in [Streams -> 0..HwSize]
    <2> DEFINE N == To(d)
    <2>1. N \in DevState(V) BY <1>4 DEF DevsOK
    <2> HIDE DEF N, V
    <2>2. N.list[d] \in Seq(V) /\ N.hw[d] \in 0..HwSize /\ N.devoff[d] \in [Streams -> 0..HwSize]
      BY <2>1 DEF DevState
    <2> QED BY <2>2 DEF N
  <1> HIDE DEF V, To
  <1>8. li \in [Devs -> Seq(V)] BY <1>6, <1>7
  <1>9. h \in [Devs -> 0..HwSize] BY <1>6, <1>7
  <1>10. dv \in [Devs -> [Streams -> 0..HwSize]] BY <1>6, <1>7
  <1>11. oo \in [Devs -> Nat] BY <1>4, <1>6
  <1>12. /\ of \in [Streams -> [Devs -> Nat]] /\ of[s] = oo
         /\ \A t \in Streams : t # s => of[t] = off[t]
    <2> HIDE DEF oo
    <2> QED BY <1>6, <1>11
  <1>13. cp \in BOOLEAN OBVIOUS
  <1>14. ASSUME NEW d \in Devs
         PROVE  /\ li[d] = IF d \in D THEN To(d).list[d] ELSE list[d]
                /\ h[d] = IF d \in D THEN To(d).hw[d] ELSE hw[d]
                /\ dv[d] = IF d \in D THEN To(d).devoff[d] ELSE devoff[d]
                /\ oo[d] = IF d \in D THEN To(d).off[s][d] ELSE off[s][d]
    OBVIOUS
  <1> HIDE DEF li, h, dv, of, oo, cp, M
  <1>15. /\ M \in DevState(V) /\ M.list = li /\ M.hw = h /\ M.devoff = dv /\ M.off = of
    BY <1>5, <1>8, <1>9, <1>10, <1>12, <1>13 DEF DevState
  <1>16. ASSUME NEW d \in Devs PROVE DevOK(M, d, O)
    <2>1. CASE d \in D
      <3>1. DevOK(To(d), d, O) BY <1>4, <2>1 DEF DevsOK
      <3>2. M.list[d] = To(d).list[d] /\ M.hw[d] = To(d).hw[d] /\ M.devoff[d] = To(d).devoff[d]
        BY <1>14, <1>15, <2>1
      <3>3. \A t \in Streams : M.off[t][d] = To(d).off[t][d]
        <4>1. M.off[s][d] = To(d).off[s][d] BY <1>12, <1>14, <1>15, <2>1
        <4>2. \A t \in Streams : t # s => To(d).off[t] = off[t]
          BY <1>4, <2>1, ListsFields DEF Joined
        <4> QED BY <1>12, <1>15, <4>1, <4>2
      <3> QED BY <3>1, <3>2, <3>3 DEF DevOK
    <2>2. CASE d \notin D
      <3>1. DevOK(Lists, d, O) BY <1>2 DEF DevsOK
      <3>2. M.list[d] = list[d] /\ M.hw[d] = hw[d] /\ M.devoff[d] = devoff[d]
        BY <1>14, <1>15, <2>2
      <3>3. \A t \in Streams : M.off[t][d] = off[t][d] BY <1>12, <1>14, <1>15, <2>2
      <3> QED BY <3>1, <3>2, <3>3, ListsFields DEF DevOK
    <2> QED BY <2>1, <2>2
  <1>17. ASSUME NEW d \in Devs PROVE M.off[s][d] <= Cb[s]
    <2>1. CASE d \in D BY <1>4, <1>12, <1>14, <1>15, <2>1
    <2>2. CASE d \notin D
      <3>1. DevOK(Lists, d, O) BY <1>2 DEF DevsOK
      <3>2. off[s][d] = 0 BY <1>3, <3>1, ListsFields DEF DevOK
      <3> QED BY <1>12, <1>14, <1>15, <2>2, <3>2, ConstFacts
    <2> QED BY <2>1, <2>2
  <1> QED BY <1>12, <1>15, <1>16, <1>17 DEF DevsOK, V, M

-----------------------------------------------------------------------------
(* The loop that attaches streams to a new device.                         *)

AttachStart(d) == [Lists EXCEPT !.hw[d] = 0]
AttachStep(d, k, L) == IF Joins(Order[k], d) THEN AppendTo(L, Order[k], d) ELSE L

\* f records the first m steps of the loop.
IsLoop(f, m, d) ==
    f = [k \in 0..m |-> IF k = 0 THEN AttachStart(d) ELSE AttachStep(d, k, f[k - 1])]

\* The loop can be run for any number of steps: by the least number of steps
\* for which it could not.
LEMMA LoopExists ==
  ASSUME NEW d
  PROVE  \A m \in Nat : \E f : IsLoop(f, m, d)
  <1> DEFINE Bad == {m \in Nat : ~ \E f : IsLoop(f, m, d)}
  <1> SUFFICES ASSUME Bad # {} PROVE FALSE OBVIOUS
  <1>1. PICK m \in Bad : \A j \in Bad : m <= j
    <2>1. Bad \in SUBSET Nat /\ Bad # {} OBVIOUS
    <2> HIDE DEF Bad
    <2> QED BY <2>1, NatHasLeast
  <1>2. CASE m = 0
    <2> DEFINE f == [k \in 0..0 |-> AttachStart(d)]
    <2>1. IsLoop(f, 0, d)
      <3>1. \A k \in 0..0 : k = 0 OBVIOUS
      <3> DEFINE g == [k \in 0..0 |-> IF k = 0 THEN AttachStart(d) ELSE AttachStep(d, k, f[k - 1])]
      <3>2. DOMAIN f = DOMAIN g /\ \A k \in 0..0 : f[k] = g[k] BY <3>1
      <3>3. f = g BY <3>2
      <3> QED BY <3>3 DEF IsLoop
    <2> QED BY <1>2, <2>1
  <1>3. CASE m # 0
    <2>1. m - 1 \in Nat /\ m \in Nat /\ m - 1 \notin Bad BY <1>1, <1>3
    <2>2. PICK f : IsLoop(f, m - 1, d) BY <2>1
    <2> DEFINE g == [k \in 0..m |-> IF k < m THEN f[k] ELSE AttachStep(d, m, f[m - 1])]
               h == [k \in 0..m |-> IF k = 0 THEN AttachStart(d) ELSE AttachStep(d, k, g[k - 1])]
    <2>3. \A k \in 0..(m - 1) : f[k] = IF k = 0 THEN AttachStart(d) ELSE AttachStep(d, k, f[k - 1])
      BY <2>2 DEF IsLoop
    <2>4. ASSUME NEW k \in 0..m PROVE g[k] = h[k]
      <3>1. CASE k = m
        <4>1. m - 1 \in 0..m /\ m - 1 < m /\ k # 0 BY <1>3, <2>1, <3>1
        <4>2. g[k - 1] = f[m - 1] BY <3>1, <4>1
        <4>3. g[k] = AttachStep(d, m, f[m - 1]) BY <2>1, <3>1
        <4>4. h[k] = AttachStep(d, k, g[k - 1]) BY <4>1
        <4> QED BY <3>1, <4>2, <4>3, <4>4
      <3>2. CASE k # m
        <4>1. k \in 0..(m - 1) /\ k < m BY <2>1, <3>2
        <4>2. g[k] = f[k] BY <4>1
        <4>3. CASE k = 0 BY <2>3, <4>1, <4>2, <4>3
        <4>4. CASE k # 0
          <5>1. k - 1 \in 0..m /\ k - 1 < m BY <2>1, <4>1, <4>4
          <5>2. g[k - 1] = f[k - 1] BY <5>1
          <5>3. h[k] = AttachStep(d, k, g[k - 1]) BY <4>4
          <5> QED BY <2>3, <4>1, <4>2, <4>4, <5>2, <5>3
        <4> QED BY <4>3, <4>4
      <3> QED BY <3>1, <3>2
    <2>5. g = h
      <3>1. g = [k \in 0..m |-> g[k]] /\ h = [k \in 0..m |-> h[k]] OBVIOUS
      <3> HIDE DEF g, h
      <3> QED BY <2>4, <3>1
    <2>6. IsLoop(g, m, d) BY <2>5 DEF IsLoop
    <2> QED BY <2>6
  <1> QED BY <1>2, <1>3

\* So the recursive definition of the loop says what it should.
LEMMA AttachedDef ==
  ASSUME NEW d
  PROVE  /\ Attached(d)[0] = AttachStart(d)
         /\ \A k \in 1..Len(Order) : Attached(d)[k] = AttachStep(d, k, Attached(d)[k - 1])
  <1> DEFINE n == Len(Order)
             f == CHOOSE f : IsLoop(f, n, d)
  <1>1. n \in Nat BY ConstFacts
  <1>2. Attached(d) = f BY DEF Attached, IsLoop, AttachStart, AttachStep
  <1>3. IsLoop(f, n, d)
    <2>1. \E g : IsLoop(g, n, d) BY <1>1, LoopExists
    <2> HIDE DEF n
    <2> QED BY <2>1
  <1> HIDE DEF f, n
  <1>4. \A k \in 0..n : f[k] = IF k = 0 THEN AttachStart(d) ELSE AttachStep(d, k, f[k - 1])
    BY <1>3 DEF IsLoop
  <1>5. \A k \in 1..n : k \in 0..n /\ k # 0 BY <1>1
  <1>6. 0 \in 0..n BY <1>1
  <1> QED BY <1>2, <1>4, <1>5, <1>6 DEF n

\* What the loop has done to the device and its streams after k steps.
AttachedTo(M, d, k, O) ==
    /\ DevsOK(M, live, O \cup {d}) /\ M.off = off
    /\ \A t \in Range(M.list[d]) : \E i \in 1..k : t = Order[i]

\* The device is opened, and flushed.
LEMMA AttachStartOK ==
  ASSUME NEW O, DevsOK(Lists, live, O), live \subseteq Streams, NEW d \in Devs, d \notin O
  PROVE  AttachedTo(AttachStart(d), d, 0, O)
  <1> DEFINE M == AttachStart(d)
             h == [hw EXCEPT ![d] = 0]
  <1>1. /\ list \in [Devs -> Seq(live)] /\ hw \in [Devs -> 0..HwSize]
        /\ devoff \in [Devs -> [Streams -> 0..HwSize]] /\ off \in [Streams -> [Devs -> Nat]]
        /\ capped \in BOOLEAN
    BY ListsFields DEF DevsOK, DevState
  <1>2. \A e \in Devs : DevOK(Lists, e, O) BY DEF DevsOK
  <1>3. h \in [Devs -> 0..HwSize] /\ h[d] = 0 /\ \A e \in Devs : e # d => h[e] = hw[e]
    BY <1>1, ConstFacts
  <1>4. M = [list |-> list, hw |-> h, devoff |-> devoff, off |-> off, capped |-> capped]
    BY DEF AttachStart, Lists
  <1> HIDE DEF h, M
  <1>5. /\ M \in DevState(live) /\ M.list = list /\ M.hw = h /\ M.devoff = devoff /\ M.off = off
    BY <1>1, <1>3, <1>4 DEF DevState
  <1>6. list[d] = <<>> BY <1>2, ListsFields DEF DevOK
  <1>7. Range(list[d]) = {} BY <1>6 DEF Range
  <1>8. ASSUME NEW e \in Devs PROVE DevOK(M, e, O \cup {d})
    <2>1. DevOK(Lists, e, O) BY <1>2
    <2>2. CASE e = d
      <3>1. \A t \in Streams : devoff[d][t] = 0 /\ off[t][d] = 0
        BY <1>7, <2>1, <2>2, ListsFields DEF DevOK
      <3> QED BY <1>3, <1>5, <2>1, <2>2, <3>1, ListsFields DEF DevOK
    <2>3. CASE e # d BY <1>3, <1>5, <2>1, <2>3, ListsFields DEF DevOK
    <2> QED BY <2>2, <2>3
  <1>9. DevsOK(M, live, O \cup {d}) BY <1>5, <1>8 DEF DevsOK
  <1> QED BY <1>5, <1>7, <1>9 DEF AttachedTo, M

\* One stream of the loop.
LEMMA AttachStepOK ==
  ASSUME NEW O, DevsOK(Lists, live, O), live \subseteq Streams, NEW d \in Devs, d \notin O,
         NEW k \in 1..Len(Order), NEW L, AttachedTo(L, d, k - 1, O)
  PROVE  AttachedTo(AttachStep(d, k, L), d, k, O)
  <1> DEFINE P == O \cup {d}
             s == Order[k]
             M == AttachStep(d, k, L)
  <1>1. Len(Order) \in Nat /\ \A i, j \in 1..Len(Order) : Order[i] = Order[j] => i = j
    BY ConstFacts DEF IsInjective
  <1>2. DevsOK(L, live, P) /\ L.off = off BY DEF AttachedTo
  <1>3. \A i \in 1..(k - 1) : i \in 1..k /\ i \in 1..Len(Order) /\ i # k BY <1>1
  <1>4. CASE ~Joins(s, d)
    <2>1. M = L BY <1>4 DEF AttachStep
    <2> QED BY <1>3, <2>1 DEF AttachedTo
  <1>5. CASE Joins(s, d)
    <2>1. s \in live BY <1>5 DEF Joins
    <2>2. s \notin Range(L.list[d]) BY <1>1, <1>3 DEF AttachedTo
    <2>3. M = AppendTo(L, s, d) BY <1>5 DEF AttachStep
    <2>4. d \in P OBVIOUS
    <2> HIDE DEF P, s, M
    <2>5. /\ DevsOK(M, live, P) /\ Joined(L, M, s, d)
          /\ (\A t \in Streams : L.off[t][d] = 0) => M.off[s][d] = 0
      BY <1>2, <2>1, <2>2, <2>3, <2>4, AppendToOK
    <2>6. \A t \in Streams : off[t][d] = 0
      <3>1. DevOK(Lists, d, O) BY DEF DevsOK
      <3>2. list[d] = <<>> BY <3>1, ListsFields DEF DevOK
      <3>3. Range(list[d]) = {} BY <3>2 DEF Range
      <3> QED BY <3>1, <3>3, ListsFields DEF DevOK
    <2>7. M.off = off
      <3>1. M.off \in [Streams -> [Devs -> Nat]] BY <2>5 DEF DevsOK, DevState
      <3>2. off \in [Streams -> [Devs -> Nat]] BY ListsFields DEF DevsOK, DevState
      <3>3. \A t \in Streams : t # s => M.off[t] = off[t] BY <1>2, <2>5 DEF Joined
      <3>4. \A e \in Devs : M.off[s][e] = off[s][e] BY <1>2, <2>1, <2>5, <2>6 DEF Joined
      <3>5. M.off[s] = off[s] BY <2>1, <3>1, <3>2, <3>4
      <3> QED BY <3>1, <3>2, <3>3, <3>5
    <2>8. ASSUME NEW t \in Range(M.list[d]) PROVE \E i \in 1..k : t = Order[i]
      <3>1. t \in Range(L.list[d]) \/ t = s BY <2>5, <2>8 DEF Joined
      <3>2. CASE t = s
        <4>1. k \in 1..k BY <1>1
        <4> QED BY <3>2, <4>1 DEF s
      <3>3. CASE t \in Range(L.list[d]) BY <1>3, <3>3 DEF AttachedTo
      <3> QED BY <3>1, <3>2, <3>3
    <2> QED BY <2>5, <2>7, <2>8 DEF AttachedTo, P, M
  <1> QED BY <1>4, <1>5

\* The whole loop, by the first step after which something is wrong.
LEMMA AttachedOK ==
  ASSUME NEW O, DevsOK(Lists, live, O), live \subseteq Streams, NEW d \in Devs, d \notin O
  PROVE  \A k \in 0..Len(Order) : AttachedTo(Attached(d)[k], d, k, O)
  <1> DEFINE Bad == {k \in 0..Len(Order) : ~AttachedTo(Attached(d)[k], d, k, O)}
  <1>1. Len(Order) \in Nat BY ConstFacts
  <1> SUFFICES ASSUME Bad # {} PROVE FALSE OBVIOUS
  <1>2. PICK m \in Bad : \A j \in Bad : m <= j
    <2>1. Bad \in SUBSET Nat /\ Bad # {} BY <1>1
    <2> HIDE DEF Bad
    <2> QED BY <2>1, NatHasLeast
  <1>3. m # 0
    <2>1. AttachedTo(Attached(d)[0], d, 0, O) BY AttachStartOK, AttachedDef
    <2> QED BY <2>1
  <1>4. m \in 1..Len(Order) /\ m - 1 \in 0..Len(Order) /\ m - 1 \notin Bad BY <1>1, <1>2, <1>3
  <1>5. AttachedTo(Attached(d)[m - 1], d, m - 1, O) BY <1>4
  <1>6. AttachedTo(AttachStep(d, m, Attached(d)[m - 1]), d, m, O) BY <1>4, <1>5, AttachStepOK
  <1>7. AttachedTo(Attached(d)[m], d, m, O) BY <1>4, <1>6, AttachedDef
  <1> QED BY <1>7

-----------------------------------------------------------------------------
(* A device is read.                                                       *)

\* The streams have room for what the devices have written.
HasRoom(L, sh) ==
    /\ DevsOK(L, live, Range(open)) /\ L.list = list /\ L.capped = capped
    /\ \A s \in Streams : Fits(s, sh[s], L.off[s])

\* The buffers, checked for d.
CheckedFor(sh, d) == sh \in [Streams -> Header] /\ \A s \in On(d) : s \in Streams /\ Begun(sh[s])

\* What a stream takes fits one callback, and there is that much.
LEMMA TakesOK ==
  ASSUME NEW d \in Devs, CheckedFor(CheckedShm(d), d), NEW L, HasRoom(L, CheckedShm(d)),
         NEW n \in Nat, n <= L.hw[d], NEW s \in On(d)
  PROVE  LET x == dev_stream_capture(L, s, d, n)
         IN /\ x \in Nat /\ L.devoff[d][s] + x <= L.hw[d]
            /\ L.off[s][d] + x + Filled(CheckedShm(d)[s]) <= Cb[s]
  <1> DEFINE h == CheckedShm(d)[s]
             b == Cb[s]
             o == L.off[s][d]
             v == L.devoff[d][s]
             x == dev_stream_capture(L, s, d, n)
             w == h.woff[h.widx]
             room == b - o - w
  <1>1. s \in Streams /\ h \in Header /\ Begun(h) BY DEF CheckedFor
  <1>2. Filled(h) = w /\ w \in Nat
    <2> HIDE DEF h
    <2> QED BY <1>1 DEF Header, Filled, Begun
  <1>3. o \in Nat /\ v \in Nat /\ L.hw[d] \in Nat /\ v <= L.hw[d] /\ b \in Nat
    <2>1. L \in DevState(live) /\ DevOK(L, d, Range(open)) BY DEF HasRoom, DevsOK
    <2>2. o \in Nat /\ v \in 0..HwSize /\ L.hw[d] \in 0..HwSize BY <1>1, <2>1 DEF DevState
    <2> QED BY <1>1, <2>1, <2>2, ConstFacts DEF DevOK
  <1>4. o + w <= b
    <2>1. Fits(s, h, L.off[s]) BY <1>1 DEF HasRoom
    <2> QED BY <1>2, <2>1 DEF Fits
  <1>5. x = IF room <= 0 \/ v >= n THEN 0 ELSE Smaller(n - v, room)
    BY DEF dev_stream_capture, cras_shm_frames_written
  <1> HIDE DEF h, b, o, v, x, w
  <1>6. x \in Nat /\ v + x <= L.hw[d] /\ o + x + w <= b
    <2>1. CASE room <= 0 \/ v >= n BY <1>2, <1>3, <1>4, <1>5, <2>1
    <2>2. CASE ~(room <= 0 \/ v >= n)
      <3>1. n - v \in Nat /\ room \in Nat BY <1>2, <1>3, <2>2
      <3>2. x \in Nat /\ x <= n - v /\ x <= room BY <1>5, <2>2, <3>1, SmallerFacts
      <3> QED BY <1>2, <1>3, <1>4, <3>2
    <2> QED BY <2>1, <2>2
  <1> QED BY <1>2, <1>6 DEF h, b, o, v, x, w

\* All streams of a device take what they can.
LEMMA TakenOK ==
  ASSUME NEW d \in Devs, CheckedFor(CheckedShm(d), d), NEW L, HasRoom(L, CheckedShm(d)),
         NEW n \in Nat, n <= L.hw[d]
  PROVE  LET M == Taken(L, d, n)
         IN HasRoom(M, CheckedShm(d)) /\ M.hw = L.hw
  <1> DEFINE sh == CheckedShm(d)
             M == Taken(L, d, n)
             X(s) == dev_stream_capture(L, s, d, n)
             of == [s \in Streams |-> IF s \in On(d) THEN [L.off[s] EXCEPT ![d] = @ + X(s)]
                                      ELSE L.off[s]]
             vd == [s \in Streams |-> IF s \in On(d) THEN L.devoff[d][s] + X(s) ELSE 0]
             dv == [L.devoff EXCEPT ![d] = vd]
  <1>1. /\ L.list \in [Devs -> Seq(live)] /\ L.hw \in [Devs -> 0..HwSize]
        /\ L.devoff \in [Devs -> [Streams -> 0..HwSize]] /\ L.off \in [Streams -> [Devs -> Nat]]
        /\ L.capped \in BOOLEAN /\ L \in DevState(live)
        /\ \A e \in Devs : DevOK(L, e, Range(open))
        /\ L.list = list /\ L.capped = capped
    BY DEF HasRoom, DevsOK, DevState
  <1>2. \A s \in On(d) : /\ X(s) \in Nat /\ L.devoff[d][s] + X(s) <= L.hw[d]
                         /\ L.off[s][d] + X(s) + Filled(sh[s]) <= Cb[s]
    BY TakesOK
  <1>3. M = [L EXCEPT !.off = of, !.devoff = dv] BY DEF Taken
  <1> HIDE DEF X, sh
  <1>4. of \in [Streams -> [Devs -> Nat]] BY <1>1, <1>2
  <1>5. vd \in [Streams -> 0..HwSize]
    <2>1. ASSUME NEW s \in Streams, s \in On(d) PROVE L.devoff[d][s] + X(s) \in 0..HwSize
      <3>1. L.devoff[d][s] \in 0..HwSize /\ L.hw[d] \in 0..HwSize BY <1>1, <2>1
      <3>2. X(s) \in Nat /\ L.devoff[d][s] + X(s) <= L.hw[d] /\ HwSize \in Nat
        BY <1>2, <2>1, ConstFacts
      <3> DEFINE u == L.devoff[d][s]
                 y == L.hw[d]
                 z == X(s)
      <3>3. u \in 0..HwSize /\ y \in 0..HwSize /\ z \in Nat /\ u + z <= y /\ HwSize \in Nat
        BY <3>1, <3>2
      <3> HIDE DEF u, y, z
      <3>4. u + z \in 0..HwSize BY <3>3
      <3> QED BY <3>4 DEF u, z
    <2> QED BY <2>1, ConstFacts
  <1>6. /\ \A s \in Streams : vd[s] = IF s \in On(d) THEN L.devoff[d][s] + X(s) ELSE 0
        /\ \A s \in Streams : s \notin On(d) => of[s] = L.off[s]
        /\ \A s \in Streams : s \in On(d) => of[s] = [L.off[s] EXCEPT ![d] = @ + X(s)]
    OBVIOUS
  <1> HIDE DEF vd, of
  <1>7. /\ dv \in [Devs -> [Streams -> 0..HwSize]] /\ dv[d] = vd
        /\ \A e \in Devs : e # d => dv[e] = L.devoff[e]
    BY <1>1, <1>5
  <1> HIDE DEF dv, M
  <1>8. /\ M \in DevState(live) /\ M.list = L.list /\ M.hw = L.hw /\ M.devoff = dv /\ M.off = of
        /\ M.capped = L.capped
    BY <1>1, <1>3, <1>4, <1>7 DEF DevState
  <1>9. \A s \in Streams : s \in On(d) =>
          of[s][d] = L.off[s][d] + X(s) /\ \A e \in Devs : e # d => of[s][e] = L.off[s][e]
    <2> SUFFICES ASSUME NEW s \in Streams, s \in On(d)
                 PROVE  /\ of[s][d] = L.off[s][d] + X(s)
                        /\ \A e \in Devs : e # d => of[s][e] = L.off[s][e]
      OBVIOUS
    <2> DEFINE r == L.off[s]
               y == r[d] + X(s)
    <2>1. r \in [Devs -> Nat] /\ of[s] = [r EXCEPT ![d] = y] BY <1>1, <1>6
    <2> HIDE DEF r, y
    <2>2. of[s][d] = y /\ \A e \in Devs : e # d => of[s][e] = r[e] BY <2>1
    <2> QED BY <2>2 DEF r, y
  <1>10. ASSUME NEW e \in Devs PROVE DevOK(M, e, Range(open))
    <2>1. DevOK(L, e, Range(open)) BY <1>1
    <2>2. CASE e # d
      <3>1. \A s \in Streams : of[s][e] = L.off[s][e] BY <1>6, <1>9, <2>2
      <3> QED BY <1>7, <1>8, <2>1, <2>2, <3>1 DEF DevOK
    <2>3. CASE e = d
      <3>1. ASSUME NEW s \in Streams
            PROVE  /\ M.devoff[d][s] <= M.hw[d]
                   /\ s \notin Range(M.list[d]) => M.devoff[d][s] = 0 /\ M.off[s][d] = 0
        <4>1. CASE s \in On(d) BY <1>1, <1>2, <1>6, <1>7, <1>8, <4>1 DEF On
        <4>2. CASE s \notin On(d)
          <5>1. M.devoff[d][s] = 0 /\ M.off[s][d] = L.off[s][d] BY <1>6, <1>7, <1>8, <4>2
          <5>2. s \notin Range(L.list[d]) BY <1>1, <4>2 DEF On
          <5>3. M.hw[d] \in 0..HwSize BY <1>1, <1>8
          <5> QED BY <2>1, <2>3, <5>1, <5>2, <5>3, ConstFacts DEF DevOK
        <4> QED BY <4>1, <4>2
      <3> QED BY <1>8, <2>1, <2>3, <3>1 DEF DevOK
    <2> QED BY <2>2, <2>3
  <1>11. ASSUME NEW s \in Streams PROVE Fits(s, sh[s], M.off[s])
    <2>1. Fits(s, sh[s], L.off[s]) BY DEF HasRoom, sh
    <2>2. CASE s \notin On(d) BY <1>6, <1>8, <2>1, <2>2
    <2>3. CASE s \in On(d)
      <3>1. \A e \in Devs : of[s][e] + Filled(sh[s]) <= Cb[s]
        BY <1>2, <1>9, <2>1, <2>3 DEF Fits
      <3> QED BY <1>8, <2>1, <3>1 DEF Fits
    <2> QED BY <2>2, <2>3
  <1> QED BY <1>1, <1>8, <1>10, <1>11 DEF HasRoom, DevsOK, M, sh

\* The device lets go of frames that all its streams have read.
LEMMA LetGoOK ==
  ASSUME NEW d \in Devs, NEW sh, NEW L, HasRoom(L, sh),
         NEW m \in Nat, m <= L.hw[d], \A s \in On(d) : s \in Streams /\ m <= L.devoff[d][s]
  PROVE  HasRoom(LetGo(L, d, m), sh)
  <1> DEFINE M == LetGo(L, d, m)
             x == L.hw[d] - m
             h == [L.hw EXCEPT ![d] = x]
             vd == [s \in Streams |-> IF s \in On(d) THEN L.devoff[d][s] - m ELSE 0]
             dv == [L.devoff EXCEPT ![d] = vd]
  <1>1. /\ L.list \in [Devs -> Seq(live)] /\ L.hw \in [Devs -> 0..HwSize]
        /\ L.devoff \in [Devs -> [Streams -> 0..HwSize]] /\ L.off \in [Streams -> [Devs -> Nat]]
        /\ L.capped \in BOOLEAN /\ L \in DevState(live)
        /\ \A e \in Devs : DevOK(L, e, Range(open))
        /\ L.list = list /\ L.capped = capped
    BY DEF HasRoom, DevsOK, DevState
  <1>2. M = [L EXCEPT !.hw = h, !.devoff = dv] BY DEF LetGo
  <1>3. x \in 0..HwSize
    <2>1. L.hw[d] \in 0..HwSize BY <1>1
    <2> QED BY <2>1, ConstFacts
  <1>4. ASSUME NEW s \in Streams, s \in On(d)
        PROVE  L.devoff[d][s] - m \in 0..HwSize /\ L.devoff[d][s] - m <= x
    <2> DEFINE u == L.devoff[d][s]
               y == L.hw[d]
    <2>1. u \in 0..HwSize /\ y \in 0..HwSize /\ u <= y /\ m <= u /\ HwSize \in Nat
      BY <1>1, <1>4, ConstFacts DEF DevOK
    <2> HIDE DEF u, y
    <2>2. u - m \in 0..HwSize /\ u - m <= y - m BY <2>1
    <2> QED BY <2>2 DEF u, y
  <1> HIDE DEF x
  <1>5. h \in [Devs -> 0..HwSize] /\ h[d] = x /\ \A e \in Devs : e # d => h[e] = L.hw[e]
    BY <1>1, <1>3
  <1>6. vd \in [Streams -> 0..HwSize] BY <1>4, ConstFacts
  <1>7. \A s \in Streams : vd[s] <= x /\ (s \notin On(d) => vd[s] = 0)
    BY <1>3, <1>4, ConstFacts
  <1> HIDE DEF vd, h
  <1>8. /\ dv \in [Devs -> [Streams -> 0..HwSize]] /\ dv[d] = vd
        /\ \A e \in Devs : e # d => dv[e] = L.devoff[e]
    BY <1>1, <1>6
  <1> HIDE DEF dv, M
  <1>9. /\ M \in DevState(live) /\ M.list = L.list /\ M.hw = h /\ M.devoff = dv /\ M.off = L.off
        /\ M.capped = L.capped
    BY <1>1, <1>2, <1>5, <1>8 DEF DevState
  <1>10. ASSUME NEW e \in Devs PROVE DevOK(M, e, Range(open))
    <2>1. DevOK(L, e, Range(open)) BY <1>1
    <2>2. CASE e # d BY <1>5, <1>8, <1>9, <2>1, <2>2 DEF DevOK
    <2>3. CASE e = d
      <3>1. ASSUME NEW s \in Streams
            PROVE  /\ M.devoff[d][s] <= M.hw[d]
                   /\ s \notin Range(M.list[d]) => M.devoff[d][s] = 0 /\ M.off[s][d] = 0
        <4>1. M.devoff[d][s] <= M.hw[d] BY <1>5, <1>7, <1>8, <1>9
        <4>2. ASSUME s \notin Range(M.list[d]) PROVE M.devoff[d][s] = 0 /\ M.off[s][d] = 0
          <5>1. s \notin On(d) /\ s \notin Range(L.list[d]) BY <1>1, <1>9, <4>2 DEF On
          <5> QED BY <1>7, <1>8, <1>9, <2>1, <2>3, <5>1 DEF DevOK
        <4> QED BY <4>1, <4>2
      <3> QED BY <1>9, <2>1, <2>3, <3>1 DEF DevOK
    <2> QED BY <2>2, <2>3
  <1>11. \A s \in Streams : Fits(s, sh[s], M.off[s]) BY <1>9 DEF HasRoom
  <1> QED BY <1>1, <1>9, <1>10, <1>11 DEF HasRoom, DevsOK, M

\* One round of capture_to_streams.
LEMMA RoundOK ==
  ASSUME NEW d \in Devs, CheckedFor(CheckedShm(d), d), NEW L, HasRoom(L, CheckedShm(d)),
         NEW n \in Nat, n <= L.hw[d]
  PROVE  HasRoom(Round(L, d, n), CheckedShm(d))
  <1> DEFINE T == Taken(L, d, n)
             S == {T.devoff[d][s] : s \in On(d)}
             m == IF On(d) = {} THEN n ELSE Least(S)
             sh == CheckedShm(d)
  <1>1. HasRoom(T, CheckedShm(d)) /\ T.hw = L.hw BY TakenOK
  <1>2. Round(L, d, n) = LetGo(T, d, m) BY DEF Round, put_input_buffer
  <1>3. \A s \in On(d) : s \in Streams BY DEF CheckedFor
  <1> HIDE DEF T
  <1>4. \A s \in On(d) : T.devoff[d][s] \in Nat /\ T.devoff[d][s] <= T.hw[d]
    <2>1. T \in DevState(live) /\ DevOK(T, d, Range(open)) BY <1>1 DEF HasRoom, DevsOK
    <2>2. \A s \in On(d) : T.devoff[d][s] \in 0..HwSize BY <1>3, <2>1 DEF DevState
    <2> QED BY <1>3, <2>1, <2>2, ConstFacts DEF DevOK
  <1>5. T.hw[d] \in Nat
    <2>1. T \in DevState(live) BY <1>1 DEF HasRoom, DevsOK
    <2>2. T.hw[d] \in 0..HwSize BY <2>1 DEF DevState
    <2> QED BY <2>2, ConstFacts
  <1>6. m \in Nat /\ m <= T.hw[d] /\ \A s \in On(d) : m <= T.devoff[d][s]
    <2>1. CASE On(d) = {} BY <1>1, <2>1
    <2>2. CASE On(d) # {}
      <3>1. S \in SUBSET Nat /\ S # {} BY <1>4, <2>2
      <3>2. \A s \in On(d) : T.devoff[d][s] \in S OBVIOUS
      <3>3. PICK s \in On(d) : TRUE BY <2>2
      <3>4. m = Least(S) BY <2>2
      <3> HIDE DEF S, m
      <3>5. Least(S) \in S /\ \A x \in S : Least(S) <= x BY <3>1, LeastFacts
      <3>6. m \in Nat /\ \A t \in On(d) : m <= T.devoff[d][t] BY <3>1, <3>2, <3>4, <3>5
      <3> QED BY <1>4, <1>5, <3>3, <3>6
    <2> QED BY <2>1, <2>2
  <1> HIDE DEF m, sh
  <1>7. HasRoom(T, sh) BY <1>1 DEF sh
  <1>8. HasRoom(LetGo(T, d, m), sh) BY <1>3, <1>6, <1>7, LetGoOK
  <1> QED BY <1>2, <1>8 DEF sh

\* get_stream_limit is at most what the device has.
LEMMA LimitFacts ==
  ASSUME NEW d \in Devs, CheckedFor(CheckedShm(d), d), HasRoom(Lists, CheckedShm(d))
  PROVE  LET l == get_stream_limit(CheckedShm(d), d, hw[d]) IN l \in Nat /\ l <= hw[d]
  <1> DEFINE S == {hw[d]} \cup {dev_stream_capture_avail(CheckedShm(d)[s], s, d) : s \in On(d)}
  <1>1. Lists \in DevState(live) BY DEF HasRoom, DevsOK
  <1>2. hw \in [Devs -> 0..HwSize] /\ off \in [Streams -> [Devs -> Nat]]
    BY <1>1, ListsFields DEF DevState
  <1>3. hw[d] \in Nat BY <1>2, ConstFacts
  <1>4. ASSUME NEW s \in On(d) PROVE dev_stream_capture_avail(CheckedShm(d)[s], s, d) \in Nat
    <2> DEFINE h == CheckedShm(d)[s]
               w == h.woff[h.widx]
               l == max_write_frames(s) - off[s][d]
    <2>1. s \in Streams /\ h \in Header BY DEF CheckedFor
    <2>2. w \in Nat
      <3> HIDE DEF h
      <3> QED BY <2>1 DEF Header
    <2>3. max_write_frames(s) \in Nat BY <2>1, ConstFacts DEF max_write_frames
    <2>4. l \in Int BY <1>2, <2>1, <2>3
    <2>5. dev_stream_capture_avail(h, s, d) = IF l >= w THEN l - w ELSE 0
      BY DEF dev_stream_capture_avail, cras_shm_get_writeable_frames
    <2> HIDE DEF w, l, h
    <2> QED BY <2>2, <2>4, <2>5 DEF h
  <1>5. S \in SUBSET Nat /\ S # {} /\ hw[d] \in S BY <1>3, <1>4
  <1>6. get_stream_limit(CheckedShm(d), d, hw[d]) = Least(S) BY DEF get_stream_limit
  <1> HIDE DEF S
  <1>7. Least(S) \in S /\ \A x \in S : Least(S) <= x BY <1>5, LeastFacts
  <1> QED BY <1>5, <1>6, <1>7

-----------------------------------------------------------------------------
(* The invariant and its parts.                                            *)

\* Only streams of the list are on a device.
LEMMA OnFacts ==
  ASSUME IInv, NEW d \in Devs
  PROVE  On(d) \subseteq live /\ On(d) \subseteq Streams
  <1>1. list \in [Devs -> Seq(live)] /\ live \subseteq Streams
    BY ListsFields DEF IInv, DevsOK, DevState
  <1>2. list[d] \in Seq(live) BY <1>1
  <1>3. Range(list[d]) \in SUBSET live BY <1>2, RangeOfSeq
  <1> QED BY <1>1, <1>3 DEF On

\* What the buffers are when d is about to be read.
LEMMA CheckedFacts ==
  ASSUME IInv, NEW d \in Devs
  PROVE  LET sh == CheckedShm(d)
         IN /\ CheckedFor(sh, d) /\ HasRoom(Lists, sh)
            /\ \A s \in Streams : StreamOK(s, sh[s], client[s], frames[s], sock[s], off[s])
            /\ \A s \in Streams : Begun(shm[s]) => Begun(sh[s])
            /\ \A s \in Streams \ live : sh[s] = shm[s]
  <1> DEFINE sh == CheckedShm(d)
  <1>1. off \in [Streams -> [Devs -> Nat]] BY ListsFields DEF IInv, DevsOK, DevState
  <1>2. On(d) \subseteq live /\ On(d) \subseteq Streams BY OnFacts
  <1>3. \A s \in Streams :
          sh[s] = IF s \in On(d) THEN cras_shm_check_write_overrun(shm[s]) ELSE shm[s]
    BY DEF CheckedShm
  <1>4. DOMAIN sh = Streams /\ sh = [s \in Streams |-> sh[s]] BY DEF CheckedShm
  <1> HIDE DEF sh
  <1>5. ASSUME NEW s \in Streams
        PROVE  /\ StreamOK(s, sh[s], client[s], frames[s], sock[s], off[s])
               /\ s \in On(d) => Begun(sh[s])
               /\ Begun(shm[s]) => Begun(sh[s])
    <2>1. StreamOK(s, shm[s], client[s], frames[s], sock[s], off[s]) /\ off[s] \in [Devs -> Nat]
      BY <1>1 DEF IInv
    <2>2. CASE s \notin On(d) BY <1>3, <2>1, <2>2
    <2>3. CASE s \in On(d)
      <3> DEFINE h == shm[s]
                 o == off[s]
      <3>1. sh[s] = cras_shm_check_write_overrun(h) BY <1>3, <2>3
      <3>2. StreamOK(s, h, client[s], frames[s], sock[s], o) /\ o \in [Devs -> Nat] BY <2>1
      <3> HIDE DEF h, o
      <3>3. LET g == cras_shm_check_write_overrun(h)
            IN StreamOK(s, g, client[s], frames[s], sock[s], o) /\ Begun(g) /\ Filled(g) = Filled(h)
        BY <3>2, CheckOK
      <3> QED BY <3>1, <3>3 DEF o
    <2> QED BY <2>2, <2>3
  <1>6. \A s \in Streams : sh[s] \in Header /\ Fits(s, sh[s], off[s]) BY <1>5 DEF StreamOK
  <1>7. CheckedFor(sh, d) BY <1>2, <1>4, <1>5, <1>6 DEF CheckedFor
  <1>8. HasRoom(Lists, sh) BY <1>6, ListsFields DEF HasRoom, IInv
  <1>9. \A s \in Streams \ live : sh[s] = shm[s] BY <1>2, <1>3
  <1> QED BY <1>5, <1>7, <1>8, <1>9 DEF sh

\* The parts of Lists after a step.
LEMMA ListsPrime ==
  /\ Lists'.list = list' /\ Lists'.hw = hw' /\ Lists'.devoff = devoff' /\ Lists'.off = off'
  /\ Lists'.capped = capped'
  BY DEF Lists

\* The record of the lists after a step.
LEMMA ListsAre ==
  ASSUME NEW V, NEW L \in DevState(V),
         list' = L.list, hw' = L.hw, devoff' = L.devoff, off' = L.off, capped' = L.capped
  PROVE  Lists' = L
  <1>1. L = [list |-> L.list, hw |-> L.hw, devoff |-> L.devoff, off |-> L.off, capped |-> L.capped]
    BY DEF DevState
  <1> QED BY <1>1 DEF Lists

\* The devices the run has not come to, and the buffers it has checked.
LEMMA ToCaptureFacts ==
  ASSUME IInv, ToCapture # <<>>
  PROVE  /\ ToCapture \in Seq(Devs)
         /\ \A e \in Range(open) \ Range(ToCapture) : \A s \in On(e) : Begun(shm[s])
  <1>1. CASE pass = Idle
    <2>1. ToCapture = open BY <1>1 DEF ToCapture
    <2> QED BY <2>1 DEF IInv
  <1>2. CASE pass # Idle /\ pass.phase = "capture"
    <2>1. ToCapture = pass.todo BY <1>2 DEF ToCapture
    <2>2. \A e \in Range(open) \ Range(pass.todo) : \A s \in On(e) : Begun(shm[s])
      BY <1>2 DEF IInv, PassOK
    <2>3. pass.todo \in Seq(Devs) BY DEF IInv, PassTypes
    <2> QED BY <2>1, <2>2, <2>3
  <1>3. CASE pass # Idle /\ pass.phase # "capture" BY <1>3 DEF ToCapture
  <1> QED BY <1>1, <1>2, <1>3

\* After capture_to_streams there still is room for what the devices wrote.
LEMMA CapturedLists ==
  ASSUME IInv, NEW d \in Devs, Capture(d)
  PROVE  \E L : HasRoom(L, CheckedShm(d)) /\ hw' = L.hw /\ devoff' = L.devoff /\ off' = L.off
  <1> DEFINE sh == CheckedShm(d)
             limit == get_stream_limit(sh, d, hw[d])
  <1>1. CheckedFor(sh, d) /\ HasRoom(Lists, sh) BY CheckedFacts
  <1>2. limit \in Nat /\ limit <= hw[d] BY <1>1, LimitFacts
  <1>3. \/ UNCHANGED offVars
        \/ \E n \in 1..limit : \E one \in {Round(Lists, d, n)} :
           \E L \in {one} \cup IF hw[d] - one.hw[d] < n THEN {}
                             ELSE {Round(one, d, Smaller(limit - n, one.hw[d]))} :
             hw' = L.hw /\ devoff' = L.devoff /\ off' = L.off
    BY DEF Capture
  <1> HIDE DEF limit
  <1>4. CASE UNCHANGED offVars
    BY <1>1, <1>4, ListsFields DEF offVars
  <1>5. ASSUME NEW n \in 1..limit, NEW one \in {Round(Lists, d, n)},
               NEW L \in {one} \cup IF hw[d] - one.hw[d] < n THEN {}
                                  ELSE {Round(one, d, Smaller(limit - n, one.hw[d]))},
               hw' = L.hw /\ devoff' = L.devoff /\ off' = L.off
        PROVE  HasRoom(L, CheckedShm(d))
    <2>0. hw[d] \in Nat
      <3>1. hw \in [Devs -> 0..HwSize] BY <1>1, ListsFields DEF HasRoom, DevsOK, DevState
      <3> QED BY <3>1, ConstFacts
    <2>1. n \in Nat /\ n <= Lists.hw[d] BY <1>2, <2>0, ListsFields
    <2> DEFINE K == Lists
    <2>2. HasRoom(K, CheckedShm(d)) /\ CheckedFor(CheckedShm(d), d) /\ n <= K.hw[d] BY <1>1, <2>1
    <2>3. one = Round(K, d, n) OBVIOUS
    <2> HIDE DEF K
    <2>4. HasRoom(one, CheckedShm(d)) BY <2>1, <2>2, <2>3, RoundOK
    <2> DEFINE m == Smaller(limit - n, one.hw[d])
    <2>5. m \in Nat /\ m <= one.hw[d]
      <3>1. one.hw[d] \in Nat
        <4>1. one.hw \in [Devs -> 0..HwSize] BY <2>4 DEF HasRoom, DevsOK, DevState
        <4>2. one.hw[d] \in 0..HwSize BY <4>1
        <4> QED BY <4>2, ConstFacts
      <3>2. limit - n \in Nat BY <1>2
      <3> QED BY <3>1, <3>2, SmallerFacts
    <2>6. L = one \/ L = Round(one, d, m) OBVIOUS
    <2> HIDE DEF m
    <2>7. HasRoom(Round(one, d, m), CheckedShm(d)) BY <2>2, <2>4, <2>5, RoundOK
    <2> QED BY <2>4, <2>6, <2>7
  <1> QED BY <1>3, <1>4, <1>5

\* Capture keeps the invariant.
LEMMA CaptureStep ==
  ASSUME IInv, NEW d \in Devs, Capture(d)
  PROVE  IInv'
  <1> DEFINE sh == CheckedShm(d)
  <1>1. /\ ToCapture # <<>> /\ d = Head(ToCapture) /\ shm' = sh /\ pass' = AfterCapture
        /\ open' = open /\ list' = list /\ live' = live /\ budget' = budget /\ capped' = capped
        /\ late' = late /\ frames' = frames /\ sock' = sock /\ client' = client
    BY DEF Capture, devVars, clientVars
  <1>2. /\ CheckedFor(sh, d) /\ HasRoom(Lists, sh)
        /\ \A s \in Streams : StreamOK(s, sh[s], client[s], frames[s], sock[s], off[s])
        /\ \A s \in Streams : Begun(shm[s]) => Begun(sh[s])
        /\ \A s \in Streams \ live : sh[s] = shm[s]
    BY CheckedFacts
  <1>3. PICK L : HasRoom(L, sh) /\ hw' = L.hw /\ devoff' = L.devoff /\ off' = L.off
    BY CapturedLists
  <1> HIDE DEF sh
  <1>4. DevsOK(Lists', live', Range(open'))
    <2>1. L \in DevState(live) /\ L.list = list /\ L.capped = capped BY <1>3 DEF HasRoom, DevsOK
    <2>2. Lists' = L BY <1>1, <1>3, <2>1, ListsAre
    <2> QED BY <1>1, <1>3, <2>2 DEF HasRoom
  <1>5. ASSUME NEW s \in Streams
        PROVE  StreamOK(s, shm'[s], client'[s], frames'[s], sock'[s], off'[s])
    <2>1. StreamOK(s, sh[s], client[s], frames[s], sock[s], off[s]) /\ Fits(s, sh[s], off'[s])
      BY <1>2, <1>3 DEF HasRoom
    <2> QED BY <1>1, <2>1 DEF StreamOK
  <1>6. shm' \in [Streams -> Header] BY <1>1, <1>2 DEF CheckedFor
  <1>7. \A s \in Streams \ live' : Fresh(shm'[s], client'[s], frames'[s], sock'[s])
    BY <1>1, <1>2 DEF IInv
  <1>8. /\ ToCapture \in Seq(Devs)
        /\ \A e \in Range(open) \ Range(ToCapture) : \A s \in On(e) : Begun(shm[s])
    BY <1>1, ToCaptureFacts
  <1> DEFINE q == ToCapture
  <1>9. /\ Range(q) = {Head(q)} \cup Range(Tail(q)) /\ Tail(q) \in Seq(Devs)
        /\ Len(q) <= 1 => Range(q) = {Head(q)}
        /\ Len(q) \in Nat
    <2>1. q \in Seq(Devs) /\ q # <<>> BY <1>1, <1>8
    <2> HIDE DEF q
    <2> QED BY <2>1, HeadTailRange, TailFacts
  <1>10. open \in Seq(Devs) BY DEF IInv
  <1>11. PassTypes'
    <2>1. pass' \in [phase : {"idle", "capture", "send"}, todo : Seq(Devs), drop : BOOLEAN]
      BY <1>1, <1>9, <1>10 DEF AfterCapture
    <2> QED BY <2>1 DEF PassTypes
  <1>12. \A e \in Range(open) \ (Range(q) \ {d}) : \A s \in On(e) : Begun(sh[s])
    <2> SUFFICES ASSUME NEW e \in Range(open), e \notin Range(q) \/ e = d, NEW s \in On(e)
                 PROVE  Begun(sh[s])
      OBVIOUS
    <2>1. e \in Devs BY <1>10, RangeOfSeq
    <2>2. s \in Streams BY <2>1, OnFacts
    <2>3. CASE e = d BY <1>2, <2>3 DEF CheckedFor
    <2>4. CASE e \notin Range(q) BY <1>2, <1>8, <2>2, <2>4
    <2> QED BY <2>3, <2>4
  <1>13. \A e \in Devs : On(e)' = On(e) BY <1>1 DEF On
  <1>14. PassOK'
    <2>1. CASE Len(q) > 1
      <3>1. pass' = [phase |-> "capture", todo |-> Tail(q), drop |-> FALSE]
        BY <1>1, <2>1 DEF AfterCapture
      <3>2. ASSUME NEW e \in Range(open) \ Range(Tail(q)), NEW s \in On(e) PROVE Begun(sh[s])
        <4>1. e \notin Range(q) \ {d} BY <1>1, <1>9, <3>2
        <4> QED BY <1>12, <3>2, <4>1
      <3>3. \A e \in Range(open) : e \in Devs BY <1>10, RangeOfSeq
      <3>4. pass'.phase = "capture" /\ pass'.todo = Tail(q) BY <3>1
      <3>5. \A e \in Range(open') \ Range(pass'.todo) : \A s \in On(e)' : Begun(shm'[s])
        BY <1>1, <1>13, <3>2, <3>3, <3>4
      <3> QED BY <3>4, <3>5 DEF PassOK
    <2>2. CASE ~(Len(q) > 1)
      <3>1. pass'.phase = "send" /\ ~pass'.drop BY <1>1, <2>2 DEF AfterCapture
      <3>2. Range(q) = {d} BY <1>1, <1>9, <2>2
      <3>3. \A e \in Devs : \A s \in On(e) : e \in Range(open)
        <4> SUFFICES ASSUME NEW e \in Devs, NEW s \in On(e) PROVE e \in Range(open) OBVIOUS
        <4>1. DevOK(Lists, e, Range(open)) BY DEF IInv, DevsOK
        <4>2. list[e] # <<>>
          <5> SUFFICES ASSUME list[e] = <<>> PROVE FALSE OBVIOUS
          <5> QED BY DEF On, Range
        <4> QED BY <4>1, <4>2, ListsFields DEF DevOK
      <3>4. \A e \in Devs : \A s \in On(e)' : Begun(shm'[s]) BY <1>1, <1>12, <1>13, <3>2, <3>3
      <3> QED BY <3>1, <3>4 DEF PassOK
    <2> QED BY <2>1, <2>2
  <1> QED BY <1>1, <1>4, <1>5, <1>6, <1>7, <1>11, <1>14 DEF IInv

-----------------------------------------------------------------------------
(* Captured frames are committed and sent.                                 *)

\* What a stream commits is what the device furthest behind has written.
LEMMA NewFramesFacts ==
  ASSUME IInv, NEW d \in Devs, NEW s \in On(d)
  PROVE  /\ s \in Streams /\ NewFrames(s) \in Nat
         /\ \A e \in Att(s) : e \in Devs /\ off[s][e] \in Nat /\ NewFrames(s) <= off[s][e]
         /\ \E e \in Att(s) : NewFrames(s) = off[s][e]
  <1> DEFINE S == {off[s][e] : e \in Att(s)}
  <1>1. s \in Streams /\ d \in Att(s) BY OnFacts DEF Att
  <1>2. off \in [Streams -> [Devs -> Nat]] BY ListsFields DEF IInv, DevsOK, DevState
  <1>3. \A e \in Att(s) : e \in Devs /\ off[s][e] \in Nat BY <1>1, <1>2 DEF Att
  <1>4. S \in SUBSET Nat /\ S # {} BY <1>1, <1>3
  <1>5. NewFrames(s) = Least(S) BY DEF NewFrames
  <1>6. \A e \in Att(s) : off[s][e] \in S OBVIOUS
  <1>7. \A x \in S : \E e \in Att(s) : x = off[s][e] OBVIOUS
  <1> HIDE DEF S
  <1>8. Least(S) \in S /\ \A x \in S : Least(S) <= x BY <1>4, LeastFacts
  <1> QED BY <1>1, <1>3, <1>4, <1>5, <1>6, <1>7, <1>8

\* The offsets of s after its frames were committed.
Behind(s) == [e \in Devs |-> IF e \in Att(s) THEN off[s][e] - NewFrames(s) ELSE 0]

\* The commit moves frames from the offsets to the half: their sum is the same.
LEMMA BehindFacts ==
  ASSUME IInv, NEW d \in Devs, NEW s \in On(d), Begun(shm[s])
  PROVE  LET w == shm[s].woff[shm[s].widx]
         IN /\ Behind(s) \in [Devs -> Nat] /\ w \in Nat /\ NewFrames(s) + w <= Cb[s]
            /\ \A e \in Devs : Behind(s)[e] + (w + NewFrames(s)) <= Cb[s]
            /\ \A e \in Devs : e \notin Att(s) => Behind(s)[e] = 0
  <1> DEFINE h == shm[s]
             w == h.woff[h.widx]
             n == NewFrames(s)
             b == Cb[s]
             p == Behind(s)
  <1>1. /\ s \in Streams /\ n \in Nat
        /\ \A e \in Att(s) : e \in Devs /\ off[s][e] \in Nat /\ n <= off[s][e]
        /\ \E e \in Att(s) : n = off[s][e]
    BY NewFramesFacts
  <1>2. h \in Header /\ Fits(s, h, off[s]) BY <1>1 DEF IInv, StreamOK
  <1>3. w \in Nat /\ Filled(h) = w
    <2> HIDE DEF h
    <2>1. Begun(h) BY DEF h
    <2> QED BY <1>2, <2>1 DEF Header, Filled, Begun
  <1>4. \A e \in Devs : off[s][e] + w <= b BY <1>2, <1>3 DEF Fits
  <1>5. b \in Nat BY <1>1, ConstFacts
  <1>6. \A e \in Devs : p[e] = IF e \in Att(s) THEN off[s][e] - n ELSE 0 BY DEF Behind
  <1>7. p = [e \in Devs |-> p[e]] BY DEF Behind
  <1> HIDE DEF h, w, n, b, p
  <1>8. n + w <= b BY <1>1, <1>3, <1>4, <1>5
  <1>9. \A e \in Devs : p[e] \in Nat /\ p[e] + (w + n) <= b
    BY <1>1, <1>3, <1>4, <1>5, <1>6, <1>8
  <1>10. p \in [Devs -> Nat] BY <1>7, <1>9
  <1> QED BY <1>3, <1>6, <1>8, <1>9, <1>10 DEF h, w, n, b, p

\* The numbers of a new stream.
LEMMA FreshNumbers == ASSUME NEW s \in Streams PROVE FreshFrames \in Numbers
  <1>1. FrameIds \in Nat \ {0} BY ConstFacts
  <1>2. 0 \in 0..FrameIds - 1 BY <1>1
  <1> QED BY <1>2 DEF FreshFrames, Numbers

\* The numbers after n frames were added.
LEMMA NumberFacts ==
  ASSUME NEW s \in Streams, NEW fr \in Numbers, NEW n \in Nat, NEW k \in Nat, NEW w \in Halves
  PROVE  LET x == (fr.next + n) % FrameIds
             y == (x - k) % FrameIds
         IN /\ [next |-> x, first |-> fr.first] \in Numbers
            /\ [next |-> x, first |-> [fr.first EXCEPT ![w] = y]] \in Numbers
  <1> DEFINE x == (fr.next + n) % FrameIds
             y == (x - k) % FrameIds
             F == FrameIds
  <1>1. F \in Nat \ {0} BY ConstFacts
  <1>2. fr.next \in Nat /\ fr.first \in [Halves -> 0..FrameIds - 1] BY <1>1 DEF Numbers
  <1>3. \A a \in Int : a % F \in 0..F - 1 /\ a % F \in Int
    <2> HIDE DEF F
    <2> QED BY <1>1
  <1>4. x \in 0..FrameIds - 1 /\ x \in Int BY <1>2, <1>3
  <1>5. y \in 0..FrameIds - 1 BY <1>3, <1>4
  <1> HIDE DEF x, y
  <1>6. [fr.first EXCEPT ![w] = y] \in [Halves -> 0..FrameIds - 1] BY <1>2, <1>5
  <1>7. [next |-> x, first |-> fr.first] \in Numbers BY <1>2, <1>4 DEF Numbers
  <1>8. [next |-> x, first |-> [fr.first EXCEPT ![w] = y]] \in Numbers BY <1>4, <1>6 DEF Numbers
  <1> QED BY <1>7, <1>8 DEF x, y

\* The messages on their way after d was served.
Mail(s) == IF s \notin ServerOnly /\ Sent(s) THEN Append(sock[s], PostCount(s)) ELSE sock[s]

\* One stream of the device, whether or not its half is posted.
LEMMA SendStreamOK ==
  ASSUME IInv, NEW d \in Devs, NEW s \in On(d), Begun(shm[s])
  PROVE  LET f == cras_shm_check_write_overrun(UpdatedShm(s))
         IN StreamOK(s, f, client[s], NumberedFrames(s), Mail(s), Behind(s)) /\ Begun(f)
  <1> DEFINE h == shm[s]
             c == client[s]
             fr == frames[s]
             q == sock[s]
             o == off[s]
             n == NewFrames(s)
             p == Behind(s)
             g == Committed(s)
             N == NumberedFrames(s)
             x == (fr.next + n) % FrameIds
             first == [next |-> x, first |-> fr.first]
             posted == [next |-> x,
                        first |-> [fr.first EXCEPT ![h.widx] = (x - g.woff[g.widx]) % FrameIds]]
             skip == s \in ServerOnly \/ h.overrun
             ft == IF skip THEN FreshFrames ELSE first
  <1>1. s \in Streams /\ n \in Nat BY NewFramesFacts
  <1>2. StreamOK(s, h, c, fr, q, o) /\ o \in [Devs -> Nat]
    <2>1. off \in [Streams -> [Devs -> Nat]] BY ListsFields DEF IInv, DevsOK, DevState
    <2> QED BY <1>1, <2>1 DEF IInv
  <1>3. h \in Header /\ fr \in Numbers /\ h.widx \in Halves
    <2>1. h \in Header /\ fr \in Numbers BY <1>2 DEF StreamOK
    <2> QED BY <2>1 DEF Header
  <1>4. /\ p \in [Devs -> Nat] /\ h.woff[h.widx] \in Nat /\ n + h.woff[h.widx] <= Cb[s]
        /\ \A e \in Devs : p[e] + (h.woff[h.widx] + n) <= Cb[s]
    BY BehindFacts
  <1>5. N = IF skip THEN FreshFrames ELSE IF Posts(s) THEN posted ELSE first
    BY DEF NumberedFrames, cras_shm_frames_written
  <1>6. g = cras_shm_buffer_written(h, n) BY DEF Committed
  <1>7. Begun(h) OBVIOUS
  <1>8. first \in Numbers
    <2> HIDE DEF n, fr
    <2> QED BY <1>1, <1>3, NumberFacts
  <1>9. /\ ft \in Numbers
        /\ s \in Clients /\ ~h.overrun => ft.next = (fr.next + n) % FrameIds /\ ft.first = fr.first
    <2>1. FreshFrames \in Numbers BY <1>1, FreshNumbers
    <2>2. s \in Clients => s \notin ServerOnly BY DEF Clients
    <2> QED BY <1>8, <2>1, <2>2
  <1> HIDE DEF h, c, fr, q, o, n, p, g, N, ft
  <1>10. /\ StreamOK(s, g, c, ft, q, p) /\ Begun(g) /\ g.overrun = h.overrun /\ g.widx = h.widx
         /\ g.woff[g.widx] = h.woff[h.widx] + n
    BY <1>1, <1>2, <1>4, <1>6, <1>7, <1>9, CommitOK
  <1>11. Posts(s) => g.woff[g.widx] >= Cb[s] BY DEF Posts, cras_shm_frames_written, g
  <1>12. CASE ~Posts(s)
    <2>1. UpdatedShm(s) = g BY <1>12 DEF UpdatedShm, g
    <2>2. Mail(s) = q BY <1>12 DEF Mail, Sent, q
    <2>3. N = ft BY <1>5, <1>12 DEF ft
    <2>4. LET f == cras_shm_check_write_overrun(g)
          IN StreamOK(s, f, c, ft, q, p) /\ Begun(f) /\ Filled(f) = Filled(g)
      BY <1>1, <1>4, <1>10, CheckOK
    <2> QED BY <2>1, <2>2, <2>3, <2>4 DEF c, p, N
  <1>13. ASSUME Posts(s)
         PROVE  /\ g.woff[g.widx] = Cb[s] /\ PostCount(s) = Cb[s]
    <2>1. g.woff[g.widx] = Cb[s] BY <1>1, <1>10, <1>11, <1>13, FullHalf
    <2> QED BY <2>1 DEF PostCount, cras_shm_frames_written, g
  <1>14. N \in Numbers
    <2>1. FreshFrames \in Numbers BY <1>1, FreshNumbers
    <2>2. CASE Posts(s)
      <3> DEFINE k == g.woff[g.widx]
                 w == h.widx
      <3>1. k \in Nat /\ w \in Halves /\ k = g.woff[g.widx] /\ w = h.widx
        BY <1>1, <1>3, <1>13, <2>2, ConstFacts
      <3> HIDE DEF k, w
      <3>2. [next |-> (fr.next + n) % FrameIds,
             first |-> [fr.first EXCEPT ![w] = (((fr.next + n) % FrameIds) - k) % FrameIds]]
              \in Numbers
        BY <1>1, <1>3, <3>1, NumberFacts DEF n
      <3>3. posted \in Numbers BY <3>1, <3>2
      <3> QED BY <1>5, <2>1, <2>2, <3>3
    <2>3. CASE ~Posts(s) BY <1>5, <1>8, <2>1, <2>3
    <2> QED BY <2>2, <2>3
  <1>15. CASE Posts(s) /\ s \in ServerOnly
    <2>1. UpdatedShm(s) = cras_shm_buffer_read_current(cras_shm_buffer_write_complete(g), Cb[s])
      BY <1>13, <1>15 DEF UpdatedShm, ReadyShm, g
    <2>2. Mail(s) = q BY <1>15 DEF Mail, q
    <2>3. LET e == cras_shm_buffer_read_current(cras_shm_buffer_write_complete(g), Cb[s])
              f == cras_shm_check_write_overrun(e)
          IN StreamOK(s, f, c, N, q, p) /\ Begun(f)
      BY <1>1, <1>4, <1>10, <1>11, <1>14, <1>15, PostServerOnlyOK
    <2> QED BY <2>1, <2>2, <2>3 DEF c, p, N
  <1>16. CASE Posts(s) /\ s \notin ServerOnly
    <2>1. UpdatedShm(s) = cras_shm_buffer_write_complete(g)
      BY <1>16 DEF UpdatedShm, ReadyShm, g
    <2> DEFINE m == Mail(s)
    <2>2. s \in Clients BY <1>1, <1>16 DEF Clients
    <2>3. /\ m = q \/ m = Append(q, Cb[s])
          /\ Len(m) <= SockSize
      <3>1. q \in Seq(1..BufFrames) /\ Len(q) <= SockSize BY <1>2 DEF StreamOK
      <3>2. CASE ~Sent(s)
        <4>1. m = q BY <3>2 DEF Mail, q
        <4> QED BY <3>1, <4>1
      <3>3. CASE Sent(s)
        <4>1. m = Append(q, Cb[s]) BY <1>13, <1>16, <3>3 DEF Mail, q
        <4>2. Len(q) < SockSize BY <1>16, <3>3 DEF Sent, q
        <4>3. Len(m) = Len(q) + 1 /\ Len(q) \in Nat
          <5> DEFINE B == 1..BufFrames
          <5>1. q \in Seq(B) BY <3>1
          <5> HIDE DEF B
          <5> QED BY <4>1, <5>1
        <4> QED BY <4>1, <4>2, <4>3, ConstFacts
      <3> QED BY <3>2, <3>3
    <2>4. ~g.overrun => /\ N.next = ft.next
                        /\ N.first[g.widx] = (ft.next - Cb[s]) % FrameIds
      <3> SUFFICES ASSUME ~g.overrun
                   PROVE  /\ N.next = ft.next
                          /\ N.first[g.widx] = (ft.next - Cb[s]) % FrameIds
        OBVIOUS
      <3>1. ~skip BY <1>10, <1>16
      <3>2. N = posted BY <1>5, <1>16, <3>1
      <3>3. ft = first BY <3>1 DEF ft
      <3>4. ft.next = x /\ ft.first = fr.first BY <3>3
      <3>5. N.next = x /\ N.first = [fr.first EXCEPT ![h.widx] = (x - g.woff[g.widx]) % FrameIds]
        BY <3>2
      <3>6. fr.first \in [Halves -> 0..FrameIds - 1] BY <1>3 DEF Numbers
      <3> HIDE DEF x
      <3> QED BY <1>3, <1>10, <1>13, <1>16, <3>4, <3>5, <3>6
    <2> HIDE DEF m
    <2>5. LET e == cras_shm_buffer_write_complete(g)
              f == cras_shm_check_write_overrun(e)
          IN StreamOK(s, f, c, N, m, p) /\ Begun(f)
      BY <1>4, <1>10, <1>11, <1>14, <1>16, <2>2, <2>3, <2>4, PostOK
    <2> QED BY <2>1, <2>5 DEF c, p, N, m
  <1> QED BY <1>12, <1>15, <1>16

\* A device is never asked to drop more than it has.
LEMMA DropFacts ==
  ASSUME IInv, NEW D, D = {e \in Devs : input_devices_can_drop_samples(e)}, D # {}
  PROVE  DropCount(D) \in Nat /\ \A e \in D : DropCount(D) <= hw[e]
  <1>1. hw \in [Devs -> 0..HwSize] BY ListsFields DEF IInv, DevsOK, DevState
  <1>2. \A e \in D : e \in Devs /\ hw[e] \in Nat BY <1>1, ConstFacts
  <1>3. ASSUME NEW e \in D PROVE min_cb_level(e) \in Nat
    <2> DEFINE S == {HwSize \div 2} \cup {Cb[s] : s \in On(e)}
    <2>1. HwSize \div 2 \in Nat
      <3>1. \A n \in Nat : n \div 2 \in Nat OBVIOUS
      <3> QED BY <3>1, ConstFacts
    <2>2. \A s \in On(e) : s \in Streams BY <1>2, <1>3, OnFacts
    <2>3. S \in SUBSET Nat /\ S # {} BY <2>1, <2>2, ConstFacts
    <2>4. min_cb_level(e) = Least(S) BY DEF min_cb_level
    <2> HIDE DEF S
    <2> QED BY <2>3, <2>4, LeastFacts
  <1>4. CASE \E e \in D : hw[e] <= min_cb_level(e)
    BY <1>2, <1>4 DEF DropCount
  <1>5. CASE ~ \E e \in D : hw[e] <= min_cb_level(e)
    <2> DEFINE S == {hw[e] - min_cb_level(e) : e \in D}
    <2>1. \A e \in D : hw[e] - min_cb_level(e) \in Nat /\ hw[e] - min_cb_level(e) <= hw[e]
      BY <1>2, <1>3, <1>5
    <2>2. S \in SUBSET Nat /\ S # {} BY <2>1
    <2>3. DropCount(D) = Least(S) BY <1>5 DEF DropCount
    <2>4. \A e \in D : hw[e] - min_cb_level(e) \in S OBVIOUS
    <2> HIDE DEF S
    <2>5. Least(S) \in S /\ \A x \in S : Least(S) <= x BY <2>2, LeastFacts
    <2>6. Least(S) \in Nat BY <2>2, <2>5
    <2>7. ASSUME NEW e \in D PROVE Least(S) <= hw[e]
      <3> DEFINE y == hw[e] - min_cb_level(e)
      <3>1. y \in Nat /\ y <= hw[e] /\ hw[e] \in Nat BY <1>2, <2>1
      <3>2. y \in S BY <2>4
      <3> HIDE DEF y
      <3>3. Least(S) <= y BY <2>5, <3>2
      <3> QED BY <2>6, <3>1, <3>3
    <2> QED BY <2>3, <2>6, <2>7
  <1> QED BY <1>4, <1>5

\* Levels and offsets after k frames were dropped everywhere.
LEMMA DroppedOK ==
  ASSUME IInv, NEW k \in Nat, \A e \in Devs : input_devices_can_drop_samples(e) => k <= hw[e],
         Dropped(k)
  PROVE  /\ hw' \in [Devs -> 0..HwSize] /\ devoff' \in [Devs -> [Streams -> 0..HwSize]]
         /\ \A e \in Devs, s \in Streams : /\ devoff'[e][s] <= hw'[e]
                                           /\ s \notin On(e) => devoff'[e][s] = 0
  <1> DEFINE can(e) == input_devices_can_drop_samples(e)
             low(e) == IF can(e) THEN hw[e] - k ELSE hw[e]
             rest(e, s) == IF devoff[e][s] >= k THEN devoff[e][s] - k ELSE 0
             less(e, s) == IF can(e) THEN rest(e, s) ELSE devoff[e][s]
  <1>1. /\ hw \in [Devs -> 0..HwSize] /\ devoff \in [Devs -> [Streams -> 0..HwSize]]
    BY ListsFields DEF IInv, DevsOK, DevState
  <1>2. /\ hw' = [e \in Devs |-> low(e)]
        /\ devoff' = [e \in Devs |-> [s \in Streams |-> less(e, s)]]
    <2>1. /\ hw' = [e \in Devs |-> low(e)]
          /\ devoff' = [e \in Devs |-> IF can(e) THEN [s \in Streams |-> rest(e, s)]
                                      ELSE devoff[e]]
      BY DEF Dropped
    <2>2. \A e \in Devs : (IF can(e) THEN [s \in Streams |-> rest(e, s)] ELSE devoff[e])
                          = [s \in Streams |-> less(e, s)]
      <3> SUFFICES ASSUME NEW e \in Devs
                   PROVE  (IF can(e) THEN [s \in Streams |-> rest(e, s)] ELSE devoff[e])
                            = [s \in Streams |-> less(e, s)]
        OBVIOUS
      <3>1. devoff[e] = [s \in Streams |-> devoff[e][s]] BY <1>1
      <3>2. CASE can(e)
        <4> HIDE DEF can, rest
        <4> QED BY <3>2
      <3>3. CASE ~can(e)
        <4> HIDE DEF can, rest
        <4> QED BY <3>1, <3>3
      <3> QED BY <3>2, <3>3
    <2> QED BY <2>1, <2>2
  <1>3. ASSUME NEW e \in Devs
        PROVE  low(e) \in 0..HwSize
    <2>1. hw[e] \in 0..HwSize BY <1>1
    <2>2. can(e) => k <= hw[e] OBVIOUS
    <2> HIDE DEF can
    <2> QED BY <2>1, <2>2, ConstFacts
  <1>4. ASSUME NEW e \in Devs, NEW s \in Streams
        PROVE  /\ less(e, s) \in 0..HwSize /\ less(e, s) <= low(e)
               /\ (s \notin On(e) => less(e, s) = 0)
    <2> DEFINE u == devoff[e][s]
               y == hw[e]
    <2>1. DevOK(Lists, e, Range(open)) BY DEF IInv, DevsOK
    <2>2. u \in 0..HwSize /\ y \in 0..HwSize /\ u <= y /\ (s \notin On(e) => u = 0)
      BY <1>1, <2>1, ListsFields DEF DevOK, On
    <2>3. HwSize \in Nat BY ConstFacts
    <2>4. can(e) => k <= y OBVIOUS
    <2> HIDE DEF u, y, can
    <2>5. CASE can(e)
      <3> DEFINE l == IF u >= k THEN u - k ELSE 0
      <3>1. l \in 0..HwSize /\ l <= y - k /\ (s \notin On(e) => l = 0) BY <2>2, <2>3, <2>4, <2>5
      <3>2. less(e, s) = l /\ low(e) = y - k BY <2>5 DEF u, y
      <3> QED BY <3>1, <3>2
    <2>6. CASE ~can(e)
      <3>1. less(e, s) = u /\ low(e) = y BY <2>6 DEF u, y
      <3> QED BY <2>2, <3>1
    <2> QED BY <2>5, <2>6
  <1> HIDE DEF can, low, rest, less
  <1>5. hw' \in [Devs -> 0..HwSize] BY <1>2, <1>3
  <1>6. devoff' \in [Devs -> [Streams -> 0..HwSize]] BY <1>2, <1>4
  <1>7. \A e \in Devs, s \in Streams : devoff'[e][s] = less(e, s) /\ hw'[e] = low(e) BY <1>2
  <1> QED BY <1>4, <1>5, <1>6, <1>7

\* Send keeps the invariant.
LEMMA SendStep ==
  ASSUME IInv, NEW d \in Devs, Send(d)
  PROVE  IInv'
  <1>1. /\ pass.phase = "send" /\ d = Head(pass.todo)
        /\ off' = [s \in Streams |-> IF s \in On(d) THEN Behind(s) ELSE off[s]]
        /\ shm' = [s \in Streams |-> IF s \in On(d)
                     THEN cras_shm_check_write_overrun(UpdatedShm(s)) ELSE shm[s]]
        /\ frames' = [s \in Streams |-> IF s \in On(d) THEN NumberedFrames(s) ELSE frames[s]]
        /\ late' = [s \in Streams |-> late[s] /\ ~(s \in On(d) /\ Sent(s))]
        /\ open' = open /\ list' = list /\ live' = live /\ budget' = budget /\ capped' = capped
        /\ client' = client
    BY DEF Send, Behind, devVars
  <1>2. sock' = [s \in Streams |-> IF s \in On(d) THEN Mail(s) ELSE sock[s]]
    <2>1. sock' = [s \in Streams |-> IF s \in On(d) \ ServerOnly /\ Sent(s)
                     THEN Append(sock[s], PostCount(s)) ELSE sock[s]]
      BY DEF Send
    <2>2. \A s \in Streams : (IF s \in On(d) \ ServerOnly /\ Sent(s)
                              THEN Append(sock[s], PostCount(s)) ELSE sock[s])
                             = IF s \in On(d) THEN Mail(s) ELSE sock[s]
      BY DEF Mail
    <2> QED BY <2>1, <2>2
  <1>3. PICK drop \in {pass.drop, pass.drop \/ MayDrop(d)} :
          /\ pass' = AfterSend(drop)
          /\ IF drop /\ Len(pass.todo) = 1
             THEN Dropped(DropCount({e \in Devs : input_devices_can_drop_samples(e)}))
             ELSE UNCHANGED <<hw, devoff>>
    BY DEF Send
  <1>4. /\ \A e \in Devs : \A s \in On(e) : Begun(shm[s])
        /\ pass.drop => \E e \in Devs : input_devices_can_drop_samples(e)
    BY <1>1 DEF IInv, PassOK, Idle
  <1>5. drop \in BOOLEAN /\ (drop => \E e \in Devs : input_devices_can_drop_samples(e))
    <2>1. pass.drop \in BOOLEAN BY DEF IInv, PassTypes
    <2>2. MayDrop(d) => input_devices_can_drop_samples(d) BY DEF MayDrop
    <2>3. MayDrop(d) \in BOOLEAN BY DEF MayDrop
    <2>4. CASE drop = pass.drop BY <1>4, <2>1, <2>4
    <2>5. CASE drop = (pass.drop \/ MayDrop(d)) BY <1>4, <2>1, <2>2, <2>3, <2>5
    <2> QED BY <2>4, <2>5
  <1>6. /\ hw' \in [Devs -> 0..HwSize] /\ devoff' \in [Devs -> [Streams -> 0..HwSize]]
        /\ \A e \in Devs, s \in Streams : /\ devoff'[e][s] <= hw'[e]
                                          /\ s \notin On(e) => devoff'[e][s] = 0
    <2>1. CASE drop /\ Len(pass.todo) = 1
      <3> DEFINE D == {e \in Devs : input_devices_can_drop_samples(e)}
                 k == DropCount(D)
      <3>1. Dropped(k) BY <1>3, <2>1
      <3>2. D # {} BY <1>5, <2>1
      <3>3. \A e \in Devs : input_devices_can_drop_samples(e) => e \in D OBVIOUS
      <3>4. k \in Nat /\ \A e \in D : k <= hw[e]
        <4>1. D = {e \in Devs : input_devices_can_drop_samples(e)} OBVIOUS
        <4> HIDE DEF D
        <4> QED BY <3>2, <4>1, DropFacts
      <3> HIDE DEF D, k
      <3> QED BY <3>1, <3>3, <3>4, DroppedOK
    <2>2. CASE ~(drop /\ Len(pass.todo) = 1)
      <3>1. hw' = hw /\ devoff' = devoff BY <1>3, <2>2
      <3>2. /\ hw \in [Devs -> 0..HwSize] /\ devoff \in [Devs -> [Streams -> 0..HwSize]]
            /\ \A e \in Devs : DevOK(Lists, e, Range(open))
        BY ListsFields DEF IInv, DevsOK, DevState
      <3> QED BY <3>1, <3>2, ListsFields DEF DevOK, On
    <2> QED BY <2>1, <2>2
  <1>7. ASSUME NEW s \in On(d), s \in Streams
        PROVE  /\ StreamOK(s, shm'[s], client[s], frames'[s], sock'[s], off'[s]) /\ Begun(shm'[s])
               /\ off'[s] \in [Devs -> Nat] /\ \A e \in Devs : s \notin On(e) => off'[s][e] = 0
    <2>1. Begun(shm[s]) BY <1>4
    <2>2. LET f == cras_shm_check_write_overrun(UpdatedShm(s))
          IN StreamOK(s, f, client[s], NumberedFrames(s), Mail(s), Behind(s)) /\ Begun(f)
      BY <2>1, SendStreamOK
    <2>3. Behind(s) \in [Devs -> Nat] /\ \A e \in Devs : e \notin Att(s) => Behind(s)[e] = 0
      BY <2>1, BehindFacts
    <2>4. \A e \in Devs : s \notin On(e) => e \notin Att(s) BY DEF Att
    <2>5. /\ shm'[s] = cras_shm_check_write_overrun(UpdatedShm(s)) /\ off'[s] = Behind(s)
          /\ frames'[s] = NumberedFrames(s) /\ sock'[s] = Mail(s)
      BY <1>1, <1>2, <1>7
    <2> QED BY <2>2, <2>3, <2>4, <2>5
  <1>8. ASSUME NEW s \in Streams, s \notin On(d)
        PROVE  shm'[s] = shm[s] /\ frames'[s] = frames[s] /\ sock'[s] = sock[s] /\ off'[s] = off[s]
    BY <1>1, <1>2, <1>8
  <1>9. On(d) \subseteq live /\ On(d) \subseteq Streams BY OnFacts
  <1>10. /\ off \in [Streams -> [Devs -> Nat]] /\ list \in [Devs -> Seq(live)] /\ capped \in BOOLEAN
         /\ \A e \in Devs : DevOK(Lists, e, Range(open))
    BY ListsFields DEF IInv, DevsOK, DevState
  <1>11. \A s \in Streams : StreamOK(s, shm'[s], client'[s], frames'[s], sock'[s], off'[s])
    BY <1>1, <1>7, <1>8 DEF IInv
  <1>12. off' \in [Streams -> [Devs -> Nat]]
    <2>1. \A s \in Streams : off'[s] \in [Devs -> Nat] BY <1>7, <1>8, <1>10
    <2>2. off' = [s \in Streams |-> off'[s]] BY <1>1
    <2> QED BY <2>1, <2>2
  <1>13. DevsOK(Lists', live', Range(open'))
    <2>1. Lists' \in DevState(live')
      BY <1>1, <1>6, <1>10, <1>12 DEF Lists, DevState
    <2>2. ASSUME NEW e \in Devs PROVE DevOK(Lists', e, Range(open'))
      <3>1. ASSUME NEW s \in Streams, s \notin On(e) PROVE off'[s][e] = 0
        <4>1. DevOK(Lists, e, Range(open)) BY <1>10
        <4>2. off[s][e] = 0 BY <3>1, <4>1, ListsFields DEF DevOK, On
        <4> QED BY <1>7, <1>8, <3>1, <4>2
      <3>2. IsInjective(list[e]) /\ (list[e] # <<>> => e \in Range(open))
        BY <1>10, ListsFields DEF DevOK
      <3> QED BY <1>1, <1>6, <3>1, <3>2, ListsPrime DEF DevOK, On
    <2> QED BY <2>1, <2>2 DEF DevsOK
  <1>14. late' \in [Streams -> BOOLEAN] BY <1>1
  <1>15. shm' \in [Streams -> Header] /\ frames' \in [Streams -> Numbers]
         /\ sock' \in [Streams -> Seq(1..BufFrames)]
    <2>1. \A s \in Streams :
            shm'[s] \in Header /\ frames'[s] \in Numbers /\ sock'[s] \in Seq(1..BufFrames)
      BY <1>11 DEF StreamOK
    <2>2. shm' = [s \in Streams |-> shm'[s]] /\ frames' = [s \in Streams |-> frames'[s]]
          /\ sock' = [s \in Streams |-> sock'[s]]
      BY <1>1, <1>2
    <2> QED BY <2>1, <2>2
  <1>16. \A s \in Streams \ live' : Fresh(shm'[s], client'[s], frames'[s], sock'[s])
    BY <1>1, <1>8, <1>9 DEF IInv
  <1>17. \A e \in Devs : On(e)' = On(e) BY <1>1 DEF On
  <1>18. \A e \in Devs : \A s \in On(e)' : Begun(shm'[s])
    <2> SUFFICES ASSUME NEW e \in Devs, NEW s \in On(e) PROVE Begun(shm'[s]) BY <1>17
    <2>1. s \in Streams BY OnFacts
    <2> QED BY <1>4, <1>7, <1>8, <2>1
  <1>19. PassTypes' /\ PassOK'
    <2>1. CASE Len(pass.todo) > 1
      <3> DEFINE t == pass.todo
      <3>1. pass \in [phase : {"idle", "capture", "send"}, todo : Seq(Devs), drop : BOOLEAN]
        BY DEF IInv, PassTypes
      <3>2. t \in Seq(Devs) BY <3>1
      <3>3. Tail(t) \in Seq(Devs)
        <4> HIDE DEF t
        <4>1. t # <<>> BY <2>1 DEF t
        <4> QED BY <3>2, <4>1, TailFacts
      <3>4. pass' = [pass EXCEPT !.todo = Tail(t), !.drop = drop] BY <1>3, <2>1 DEF AfterSend
      <3> HIDE DEF t
      <3>5. /\ pass' \in [phase : {"idle", "capture", "send"}, todo : Seq(Devs), drop : BOOLEAN]
            /\ pass'.phase = "send" /\ pass'.drop = drop
        BY <1>1, <1>5, <3>1, <3>3, <3>4
      <3>6. pass'.drop => \E e \in Devs : input_devices_can_drop_samples(e)'
        BY <1>1, <1>5, <1>17, <3>5 DEF input_devices_can_drop_samples
      <3> QED BY <1>18, <3>5, <3>6 DEF PassTypes, PassOK
    <2>2. CASE ~(Len(pass.todo) > 1)
      <3>1. pass' = Idle BY <1>3, <2>2 DEF AfterSend
      <3>2. Idle \in [phase : {"idle", "capture", "send"}, todo : Seq(Devs), drop : BOOLEAN]
        BY DEF Idle
      <3> QED BY <3>1, <3>2 DEF PassTypes, PassOK, Idle
    <2> QED BY <2>1, <2>2
  <1> QED BY <1>1, <1>11, <1>13, <1>14, <1>15, <1>16, <1>19 DEF IInv

-----------------------------------------------------------------------------
(* The client's steps, and that they change nothing else.                  *)

\* A step of the client of s that keeps s in order keeps the invariant.
LEMMA ClientStepOK ==
  ASSUME IInv, NEW s \in Clients, s \in live, NEW h, NEW c, NEW q,
         StreamOK(s, h, c, frames[s], q, off[s]),
         h.prog = shm[s].prog, h.widx = shm[s].widx,
         shm' = [shm EXCEPT ![s] = h], client' = [client EXCEPT ![s] = c],
         sock' = [sock EXCEPT ![s] = q],
         UNCHANGED <<devVars, offVars, late, frames, pass>>
  PROVE  IInv'
  <1>1. /\ open' = open /\ list' = list /\ live' = live /\ budget' = budget /\ capped' = capped
        /\ hw' = hw /\ devoff' = devoff /\ off' = off /\ late' = late /\ frames' = frames
        /\ pass' = pass
    BY DEF devVars, offVars
  <1>2. s \in Streams /\ h \in Header /\ c \in ClientState /\ q \in Seq(1..BufFrames)
    BY DEF Clients, StreamOK
  <1>3. shm \in [Streams -> Header] /\ client \in [Streams -> ClientState]
        /\ sock \in [Streams -> Seq(1..BufFrames)]
    BY DEF IInv
  <1>4. /\ shm'[s] = h /\ client'[s] = c /\ sock'[s] = q
        /\ \A t \in Streams : t # s => /\ shm'[t] = shm[t] /\ client'[t] = client[t]
                                       /\ sock'[t] = sock[t]
    BY <1>2, <1>3
  <1>5. shm' \in [Streams -> Header] /\ client' \in [Streams -> ClientState]
        /\ sock' \in [Streams -> Seq(1..BufFrames)]
    <2> DEFINE Q == Seq(1..BufFrames)
    <2>1. q \in Q /\ sock \in [Streams -> Q] BY <1>2, <1>3
    <2> HIDE DEF Q
    <2>2. sock' \in [Streams -> Q] BY <2>1
    <2> QED BY <1>2, <1>3, <2>2 DEF Q
  <1>6. \A t \in Streams : StreamOK(t, shm'[t], client'[t], frames'[t], sock'[t], off'[t])
    BY <1>1, <1>4 DEF IInv
  <1>7. \A t \in Streams \ live' : Fresh(shm'[t], client'[t], frames'[t], sock'[t])
    BY <1>1, <1>4 DEF IInv
  <1>8. Lists' = Lists BY <1>1 DEF Lists
  <1>9. \A e \in Devs : On(e)' = On(e) BY <1>1 DEF On
  <1>10. \A t \in Streams : Begun(shm'[t]) = Begun(shm[t]) BY <1>4 DEF Begun
  <1>11. PassTypes' BY <1>1 DEF IInv, PassTypes
  <1>12. \A e \in Devs : On(e) \subseteq Streams BY OnFacts
  <1>13. Range(open) \in SUBSET Devs BY RangeOfSeq DEF IInv
  <1>14. PassOK'
    <2>1. CASE pass = Idle BY <1>1, <2>1 DEF PassOK, Idle
    <2>2. CASE /\ pass.phase = "capture"
               /\ \A e \in Range(open) \ Range(pass.todo) : \A t \in On(e) : Begun(shm[t])
      <3>1. \A e \in Range(open') \ Range(pass'.todo) : \A t \in On(e)' : Begun(shm'[t])
        BY <1>1, <1>9, <1>10, <1>12, <1>13, <2>2
      <3> QED BY <1>1, <2>2, <3>1 DEF PassOK
    <2>3. CASE /\ pass.phase = "send"
               /\ \A e \in Devs : \A t \in On(e) : Begun(shm[t])
               /\ pass.drop => \E e \in Devs : input_devices_can_drop_samples(e)
      <3>1. \A e \in Devs : \A t \in On(e)' : Begun(shm'[t])
        BY <1>9, <1>10, <1>12, <2>3
      <3>2. pass'.drop => \E e \in Devs : input_devices_can_drop_samples(e)'
        BY <1>1, <1>9, <2>3 DEF input_devices_can_drop_samples
      <3> QED BY <1>1, <2>3, <3>1, <3>2 DEF PassOK
    <2> QED BY <2>1, <2>2, <2>3 DEF IInv, PassOK
  <1> QED BY <1>1, <1>5, <1>6, <1>7, <1>8, <1>11, <1>14 DEF IInv

\* The invariant for one client.
LEMMA ClientFacts ==
  ASSUME IInv, NEW s \in Clients
  PROVE  /\ s \in Streams /\ StreamOK(s, shm[s], client[s], frames[s], sock[s], off[s])
         /\ off[s] \in [Devs -> Nat] /\ shm[s] \in Header
         /\ shm = [shm EXCEPT ![s] = shm[s]] /\ client = [client EXCEPT ![s] = client[s]]
         /\ sock = [sock EXCEPT ![s] = sock[s]]
         /\ shm \in [Streams -> Header] /\ client \in [Streams -> ClientState]
  <1>1. s \in Streams BY DEF Clients
  <1>2. off \in [Streams -> [Devs -> Nat]] BY ListsFields DEF IInv, DevsOK, DevState
  <1>3. shm \in [Streams -> Header] /\ client \in [Streams -> ClientState]
        /\ sock \in [Streams -> Seq(1..BufFrames)]
    BY DEF IInv
  <1>4. StreamOK(s, shm[s], client[s], frames[s], sock[s], off[s]) BY <1>1 DEF IInv
  <1>5. sock = [sock EXCEPT ![s] = sock[s]]
    <2> DEFINE Q == Seq(1..BufFrames)
    <2>1. sock \in [Streams -> Q] BY <1>3
    <2> HIDE DEF Q
    <2> QED BY <2>1
  <1> QED BY <1>1, <1>2, <1>3, <1>4, <1>5

\* A client that has something to do has a stream on the list.
LEMMA IsLive ==
  ASSUME IInv, NEW s \in Clients, sock[s] # <<>> \/ client[s].pc # "wait"
  PROVE  s \in live
  BY DEF IInv, Clients, Fresh, FreshClient

\* DataReady keeps the invariant.
LEMMA DataReadyStep ==
  ASSUME IInv, NEW s \in Clients, DataReady(s)
  PROVE  IInv'
  <1> DEFINE h == shm[s]
             c == client[s]
             fr == frames[s]
             q == sock[s]
             n == Smaller(Head(q), max_write_frames(s))
             e == IF cras_shm_get_curr_read_frames(h) < n THEN c
                  ELSE [c EXCEPT !.pc = "callback", !.n = n, !.first = fr.first[h.ridx]]
  <1>1. /\ c.pc = "wait" /\ q # <<>> /\ sock' = [sock EXCEPT ![s] = Tail(q)] /\ shm' = shm
        /\ UNCHANGED <<devVars, offVars, late, frames, pass>>
    BY DEF DataReady
  <1>2. /\ s \in Streams /\ StreamOK(s, h, c, fr, q, off[s])
        /\ shm = [shm EXCEPT ![s] = h] /\ client = [client EXCEPT ![s] = c]
        /\ client \in [Streams -> ClientState]
    BY ClientFacts
  <1>3. client' = [client EXCEPT ![s] = e]
    <2>1. client' = IF cras_shm_get_curr_read_frames(h) < n THEN client
                    ELSE [client EXCEPT ![s].pc = "callback", ![s].n = n,
                                        ![s].first = fr.first[h.ridx]]
      BY DEF DataReady
    <2>2. CASE cras_shm_get_curr_read_frames(h) < n BY <1>2, <2>1, <2>2
    <2>3. CASE ~(cras_shm_get_curr_read_frames(h) < n)
      <3> DEFINE y == fr.first[h.ridx]
      <3>1. client' = [client EXCEPT ![s].pc = "callback", ![s].n = n, ![s].first = y]
        BY <2>1, <2>3
      <3>2. e = [c EXCEPT !.pc = "callback", !.n = n, !.first = y] BY <2>3
      <3> HIDE DEF n, y, e
      <3> QED BY <1>2, <3>1, <3>2
    <2> QED BY <2>2, <2>3
  <1>4. \/ e = c
        \/ e = [c EXCEPT !.pc = "callback", !.n = Smaller(Head(q), max_write_frames(s)),
                         !.first = fr.first[h.ridx]]
    OBVIOUS
  <1>5. s \in live BY <1>1, IsLive
  <1> DEFINE o == off[s]
  <1>6. StreamOK(s, h, c, fr, q, o) BY <1>2
  <1>7. shm' = [shm EXCEPT ![s] = h] BY <1>1, <1>2
  <1>8. h.prog = shm[s].prog /\ h.widx = shm[s].widx OBVIOUS
  <1> HIDE DEF h, c, fr, q, e, o
  <1>9. StreamOK(s, h, e, fr, Tail(q), o) BY <1>1, <1>4, <1>6, DataReadyOK
  <1> DEFINE t == Tail(q)
  <1>10. StreamOK(s, h, e, frames[s], t, off[s]) /\ sock' = [sock EXCEPT ![s] = t]
    BY <1>1, <1>9 DEF fr, o
  <1> HIDE DEF t
  <1> QED BY <1>1, <1>3, <1>5, <1>7, <1>8, <1>10, ClientStepOK

\* Callback keeps the invariant.
LEMMA CallbackStep ==
  ASSUME IInv, NEW s \in Clients, Callback(s)
  PROVE  IInv'
  <1> DEFINE h == shm[s]
             c == client[s]
             fr == frames[s]
             q == sock[s]
             o == off[s]
             intact == ~h.prog[h.ridx] /\ fr.first[h.ridx] = c.first
  <1>1. PICK k \in 0..c.n :
          /\ shm' = IF k = 0 THEN shm
                    ELSE [shm EXCEPT ![s].roff[h.ridx] =
                            IF h.roff[h.ridx] + k >= h.woff[h.ridx] THEN 0 ELSE @ + k]
          /\ client' = [client EXCEPT
               ![s] = [pc |-> IF k > 0 /\ h.roff[h.ridx] + k >= h.woff[h.ridx]
                             THEN "clear" ELSE "wait",
                       n |-> 0, first |-> 0,
                       want |-> IF h.overrun THEN 0 ELSE IF k = 0 THEN c.want
                                ELSE (c.first + k) % FrameIds,
                       broken |-> c.broken \/ ~intact \/ ~(c.first = c.want)]]
    BY DEF Callback, Intact
  <1>2. /\ c.pc = "callback" /\ sock' = sock
        /\ UNCHANGED <<devVars, offVars, late, frames, pass>>
    BY DEF Callback
  <1>3. /\ s \in Streams /\ StreamOK(s, h, c, fr, q, o) /\ h \in Header
        /\ shm = [shm EXCEPT ![s] = h] /\ sock = [sock EXCEPT ![s] = q]
        /\ shm \in [Streams -> Header]
    BY ClientFacts
  <1>4. s \in live BY <1>2, IsLive
  <1> DEFINE x == IF h.roff[h.ridx] + k >= h.woff[h.ridx] THEN 0 ELSE h.roff[h.ridx] + k
             g == IF k = 0 THEN h ELSE [h EXCEPT !.roff[h.ridx] = x]
             e == [pc |-> IF k > 0 /\ h.roff[h.ridx] + k >= h.woff[h.ridx] THEN "clear" ELSE "wait",
                   n |-> 0, first |-> 0,
                   want |-> IF h.overrun THEN 0 ELSE IF k = 0 THEN c.want
                            ELSE (c.first + k) % FrameIds,
                   broken |-> c.broken \/ ~intact \/ ~(c.first = c.want)]
  <1>5. client' = [client EXCEPT ![s] = e] BY <1>1
  <1>6. shm' = [shm EXCEPT ![s] = g]
    <2>1. CASE k = 0 BY <1>1, <1>3, <2>1
    <2>2. CASE k # 0
      <3>1. shm' = [shm EXCEPT ![s].roff[h.ridx] = x] BY <1>1, <2>2
      <3>2. g = [h EXCEPT !.roff[h.ridx] = x] BY <2>2
      <3> HIDE DEF x, g
      <3> QED BY <1>3, <3>1, <3>2
    <2> QED BY <2>1, <2>2
  <1>7. h.roff[h.ridx] \in Nat /\ h.woff[h.ridx] \in Nat /\ h.ridx \in Halves /\ k \in Nat
    <2> HIDE DEF h
    <2>1. k \in Nat
      <3>1. c \in ClientState BY <1>3 DEF StreamOK
      <3>2. c.n \in 0..BufFrames BY <3>1 DEF ClientState
      <3> QED BY <3>2, ConstFacts
    <2> QED BY <1>3, <2>1 DEF Header
  <1>8. x \in Nat BY <1>7
  <1>9. g.prog = h.prog /\ g.widx = h.widx
    <2>1. CASE k = 0 BY <2>1
    <2>2. CASE k # 0
      <3>1. g = [h EXCEPT !.roff[h.ridx] = x] BY <2>2
      <3> HIDE DEF x, g, h
      <3>2. LET f == [h EXCEPT !.roff[h.ridx] = x] IN f.prog = h.prog /\ f.widx = h.widx
        BY <1>3, <1>8, HeaderRoff
      <3> QED BY <3>1, <3>2
    <2> QED BY <2>1, <2>2
  <1>10. intact \in BOOLEAN /\ (intact <=> ~h.prog[h.ridx] /\ fr.first[h.ridx] = c.first)
    OBVIOUS
  <1>11. /\ g = IF k = 0 THEN h
                ELSE [h EXCEPT !.roff[h.ridx] =
                     IF h.roff[h.ridx] + k >= h.woff[h.ridx] THEN 0 ELSE @ + k]
         /\ e = [pc |-> IF k > 0 /\ h.roff[h.ridx] + k >= h.woff[h.ridx] THEN "clear" ELSE "wait",
                 n |-> 0, first |-> 0,
                 want |-> IF h.overrun THEN 0 ELSE IF k = 0 THEN c.want
                          ELSE (c.first + k) % FrameIds,
                 broken |-> c.broken \/ ~intact \/ ~(c.first = c.want)]
    OBVIOUS
  <1>12. h.prog = shm[s].prog /\ h.widx = shm[s].widx /\ sock' = [sock EXCEPT ![s] = q]
    BY <1>2, <1>3
  <1>13. k \in 0..c.n OBVIOUS
  <1> HIDE DEF h, c, fr, q, o, g, e, x, intact
  <1>14. StreamOK(s, g, e, fr, q, o)
    BY <1>2, <1>3, <1>10, <1>11, <1>13, CallbackOK
  <1>15. StreamOK(s, g, e, frames[s], q, off[s]) BY <1>14 DEF fr, o
  <1> QED BY <1>2, <1>4, <1>5, <1>6, <1>9, <1>12, <1>15, ClientStepOK

\* ClearWritten keeps the invariant.
LEMMA ClearStep ==
  ASSUME IInv, NEW s \in Clients, ClearWritten(s)
  PROVE  IInv'
  <1> DEFINE h == shm[s]
             c == client[s]
             fr == frames[s]
             q == sock[s]
             o == off[s]
             g == [h EXCEPT !.woff[h.ridx] = 0]
             e == [c EXCEPT !.pc = "advance"]
  <1>1. /\ c.pc = "clear" /\ sock' = sock /\ UNCHANGED <<devVars, offVars, late, frames, pass>>
        /\ shm' = [shm EXCEPT ![s].woff[h.ridx] = 0]
        /\ client' = [client EXCEPT ![s].pc = "advance"]
    BY DEF ClearWritten
  <1>2. /\ s \in Streams /\ StreamOK(s, h, c, fr, q, o) /\ h \in Header /\ o \in [Devs -> Nat]
        /\ sock = [sock EXCEPT ![s] = q]
        /\ shm \in [Streams -> Header] /\ client \in [Streams -> ClientState]
    BY ClientFacts
  <1>3. s \in live BY <1>1, IsLive
  <1>4. shm' = [shm EXCEPT ![s] = g] BY <1>1, <1>2
  <1>5. client' = [client EXCEPT ![s] = e] BY <1>1, <1>2
  <1>6. h.prog = shm[s].prog /\ h.widx = shm[s].widx /\ sock' = [sock EXCEPT ![s] = q]
    BY <1>1, <1>2
  <1> HIDE DEF h, c, fr, q, o
  <1>7. g.prog = h.prog /\ g.widx = h.widx BY <1>2, HeaderWoff
  <1>8. StreamOK(s, g, e, fr, q, o) BY <1>1, <1>2, ClearOK
  <1> HIDE DEF g, e
  <1>9. StreamOK(s, g, e, frames[s], q, off[s]) BY <1>8 DEF fr, o
  <1>10. UNCHANGED <<devVars, offVars, late, frames, pass>> BY <1>1
  <1>11. g.prog = shm[s].prog /\ g.widx = shm[s].widx BY <1>6, <1>7
  <1> QED BY <1>3, <1>4, <1>5, <1>6, <1>9, <1>10, <1>11, ClientStepOK

\* MoveOn keeps the invariant.
LEMMA MoveOnStep ==
  ASSUME IInv, NEW s \in Clients, MoveOn(s)
  PROVE  IInv'
  <1> DEFINE h == shm[s]
             c == client[s]
             fr == frames[s]
             q == sock[s]
             o == off[s]
             g == [h EXCEPT !.ridx = 1 - @]
             e == [c EXCEPT !.pc = "wait"]
  <1>1. /\ c.pc = "advance" /\ sock' = sock /\ UNCHANGED <<devVars, offVars, late, frames, pass>>
        /\ shm' = [shm EXCEPT ![s].ridx = 1 - @]
        /\ client' = [client EXCEPT ![s].pc = "wait"]
    BY DEF MoveOn
  <1>2. /\ s \in Streams /\ StreamOK(s, h, c, fr, q, o) /\ h \in Header /\ o \in [Devs -> Nat]
        /\ sock = [sock EXCEPT ![s] = q]
        /\ shm \in [Streams -> Header] /\ client \in [Streams -> ClientState]
    BY ClientFacts
  <1>3. s \in live BY <1>1, IsLive
  <1>4. shm' = [shm EXCEPT ![s] = g] BY <1>1, <1>2
  <1>5. client' = [client EXCEPT ![s] = e] BY <1>1, <1>2
  <1>6. h.prog = shm[s].prog /\ h.widx = shm[s].widx /\ sock' = [sock EXCEPT ![s] = q]
    BY <1>1, <1>2
  <1> HIDE DEF h, c, fr, q, o
  <1>7. g.prog = h.prog /\ g.widx = h.widx BY <1>2 DEF Header
  <1>8. StreamOK(s, g, e, fr, q, o) BY <1>1, <1>2, MoveOnOK
  <1> HIDE DEF g, e
  <1>9. StreamOK(s, g, e, frames[s], q, off[s]) BY <1>8 DEF fr, o
  <1>10. UNCHANGED <<devVars, offVars, late, frames, pass>> BY <1>1
  <1>11. g.prog = shm[s].prog /\ g.widx = shm[s].widx BY <1>6, <1>7
  <1> QED BY <1>3, <1>4, <1>5, <1>6, <1>9, <1>10, <1>11, ClientStepOK

-----------------------------------------------------------------------------
(* What happens between two runs.                                          *)

\* A step between two runs leaves the audio thread idle.
LEMMA IdleStep ==
  ASSUME IInv, pass = Idle, pass' = pass
  PROVE  PassTypes' /\ PassOK'
  BY DEF IInv, PassTypes, PassOK, Idle

\* The offsets of a stream may shrink.
LEMMA SmallerOffsets ==
  ASSUME NEW s \in Streams, NEW h, NEW c, NEW fr, NEW q, NEW o \in [Devs -> Nat],
         StreamOK(s, h, c, fr, q, o), NEW p, \A d \in Devs : p[d] = 0 \/ p[d] = o[d]
  PROVE  StreamOK(s, h, c, fr, q, p)
  <1>1. h \in Header BY DEF StreamOK
  <1>2. Filled(h) \in Nat BY <1>1 DEF Header, Filled
  <1>3. Fits(s, h, p) BY <1>2, ConstFacts DEF StreamOK, Fits
  <1> QED BY <1>3 DEF StreamOK

\* A new stream is in order, whatever the offsets it was aligned to.
LEMMA FreshOK ==
  ASSUME NEW s \in Streams, NEW o \in [Devs -> Nat], \A d \in Devs : o[d] <= Cb[s]
  PROVE  StreamOK(s, FreshShm, FreshClient, FreshFrames, <<>>, o)
  <1> DEFINE h == FreshShm
             c == FreshClient
             fr == FreshFrames
             e == <<>>
             Z == 1..BufFrames
  <1>1. /\ h \in Header /\ ~h.prog[h.widx] /\ ~h.prog[1 - h.widx]
        /\ Filled(h) = 0 /\ ~h.overrun
        /\ h.widx = 0 /\ h.ridx = 0
        /\ \A i \in Halves : h.woff[i] = 0 /\ h.roff[i] = 0
    BY FreshHeader
  <1>2. Cb[s] \in Nat /\ FrameIds \in Nat \ {0} /\ BufFrames \in Nat /\ SockSize \in Nat
    BY ConstFacts
  <1>3. c \in ClientState /\ c.pc = "wait" /\ ~c.broken /\ c.want = 0
    <2>1. 0 \in 0..FrameIds - 1 /\ 0 \in 0..BufFrames BY <1>2
    <2> QED BY <2>1 DEF FreshClient, ClientState
  <1>4. fr \in Numbers /\ fr.next = 0 BY FreshNumbers DEF FreshFrames
  <1>5. e \in Seq(Z) /\ Len(e) = 0 /\ e = <<>> OBVIOUS
  <1>6. 0 \in Halves /\ 1 - 0 \in Halves BY DEF Halves
  <1> HIDE DEF h, c, fr, e, Z
  <1>7. Fits(s, h, o) BY <1>1, <1>2 DEF Fits
  <1>8. h.woff[h.widx] = 0 /\ h.roff[h.widx] = 0 /\ h.woff[1 - h.widx] = 0 /\ h.roff[1 - h.widx] = 0
    BY <1>1, <1>6
  <1>9. Start(h, fr) = 0
    <2>1. (0 - 0) % FrameIds = 0 BY <1>2
    <2> QED BY <1>4, <1>8, <2>1 DEF Start
  <1>10. AtWait(s, h, c, fr, e) BY <1>1, <1>3, <1>5, <1>8, <1>9 DEF AtWait, Waits
  <1>11. \A i \in 1..Len(e) : e[i] = Cb[s]
    <2>1. \A i \in 1..0 : FALSE OBVIOUS
    <2> QED BY <1>5, <2>1
  <1>12. InStep(s, h, c, fr, e) BY <1>3, <1>8, <1>10, <1>11 DEF InStep
  <1>13. StreamOK(s, h, c, fr, e, o) BY <1>1, <1>2, <1>3, <1>4, <1>5, <1>7, <1>12 DEF StreamOK, Z
  <1> QED BY <1>13 DEF h, c, fr, e

\* Record keeps the invariant.
LEMMA RecordStep ==
  ASSUME IInv, NEW d \in Devs, Record(d)
  PROVE  IInv'
  <1>1. /\ open' = open /\ list' = list /\ live' = live /\ budget' = budget /\ capped' = capped
        /\ devoff' = devoff /\ off' = off /\ late' = late /\ frames' = frames /\ shm' = shm
        /\ sock' = sock /\ client' = client /\ pass' = pass /\ pass = Idle
        /\ hw[d] < HwSize /\ hw' = [hw EXCEPT ![d] = hw[d] + 1]
    BY DEF Record, devVars, clientVars
  <1>2. PassTypes' /\ PassOK' BY <1>1, IdleStep
  <1>3. /\ list \in [Devs -> Seq(live)] /\ hw \in [Devs -> 0..HwSize]
        /\ devoff \in [Devs -> [Streams -> 0..HwSize]] /\ off \in [Streams -> [Devs -> Nat]]
        /\ capped \in BOOLEAN /\ \A e \in Devs : DevOK(Lists, e, Range(open))
    BY ListsFields DEF IInv, DevsOK, DevState
  <1>4. hw[d] \in Nat /\ HwSize \in Nat /\ hw[d] + 1 \in 0..HwSize BY <1>1, <1>3, ConstFacts
  <1>5. hw' \in [Devs -> 0..HwSize] /\ hw'[d] = hw[d] + 1 /\ \A e \in Devs : e # d => hw'[e] = hw[e]
    BY <1>1, <1>3, <1>4
  <1>6. Lists' \in DevState(live') BY <1>1, <1>3, <1>5 DEF Lists, DevState
  <1>7. ASSUME NEW e \in Devs PROVE DevOK(Lists', e, Range(open'))
    <2>1. DevOK(Lists, e, Range(open)) BY <1>3
    <2>2. \A s \in Streams : devoff[e][s] <= hw'[e]
      <3> SUFFICES ASSUME NEW s \in Streams PROVE devoff[e][s] <= hw'[e] OBVIOUS
      <3>1. devoff[e][s] \in 0..HwSize /\ hw[e] \in 0..HwSize /\ devoff[e][s] <= hw[e]
        BY <1>3, <2>1, ListsFields DEF DevOK
      <3>2. hw'[e] = hw[e] \/ hw'[e] = hw[e] + 1 BY <1>5
      <3> DEFINE u == devoff[e][s]
                 y == hw[e]
                 z == hw'[e]
      <3>3. u \in 0..HwSize /\ y \in 0..HwSize /\ u <= y /\ (z = y \/ z = y + 1) BY <3>1, <3>2
      <3> HIDE DEF u, y, z
      <3>4. u <= z BY <3>3, <1>4
      <3> QED BY <3>4 DEF u, z
    <2> QED BY <1>1, <2>1, <2>2, ListsFields, ListsPrime DEF DevOK
  <1>8. DevsOK(Lists', live', Range(open')) BY <1>6, <1>7 DEF DevsOK
  <1> QED BY <1>1, <1>2, <1>8 DEF IInv

\* TimePasses keeps the invariant.
LEMMA TimePassesStep ==
  ASSUME IInv, NEW s \in Streams, TimePasses(s)
  PROVE  IInv'
  <1> DEFINE yes == TRUE
  <1>1. /\ open' = open /\ list' = list /\ live' = live /\ budget' = budget /\ capped' = capped
        /\ hw' = hw /\ devoff' = devoff /\ off' = off /\ frames' = frames /\ shm' = shm
        /\ sock' = sock /\ client' = client /\ pass' = pass /\ pass = Idle
        /\ late' = [late EXCEPT ![s] = yes]
    BY DEF TimePasses, devVars, offVars, clientVars
  <1>2. PassTypes' /\ PassOK' BY <1>1, IdleStep
  <1>3. Lists' = Lists BY <1>1 DEF Lists
  <1>4. yes \in BOOLEAN OBVIOUS
  <1> HIDE DEF yes
  <1>5. late' \in [Streams -> BOOLEAN] BY <1>1, <1>4 DEF IInv
  <1> QED BY <1>1, <1>2, <1>3, <1>5 DEF IInv

\* Nothing of the streams but their offsets changes.
LEMMA ListStep ==
  ASSUME IInv, pass = Idle, pass' = pass, open' \in Seq(Devs), IsInjective(open'),
         live' \subseteq Streams, live \subseteq live',
         DevsOK(Lists', live', Range(open')),
         UNCHANGED <<shm, late, frames, sock, client>>,
         \A s \in Streams : StreamOK(s, shm[s], client[s], frames[s], sock[s], off'[s]),
         budget' \in Budget
  PROVE  IInv'
  <1>1. PassTypes' /\ PassOK' BY IdleStep
  <1> QED BY <1>1 DEF IInv

\* The budgets stay natural numbers.
LEMMA BudgetFacts ==
  ASSUME IInv
  PROVE  /\ \A s \in Streams : budget.adds[s] > 0 =>
               [budget EXCEPT !.adds[s] = @ - 1] \in Budget
         /\ budget.opens > 0 =>
               [budget EXCEPT !.opens = @ - 1] \in Budget
  <1>1. budget \in Budget BY DEF IInv
  <1>2. ASSUME NEW s \in Streams, budget.adds[s] > 0
        PROVE  [budget EXCEPT !.adds[s] = @ - 1] \in Budget
    <2> DEFINE a == [budget.adds EXCEPT ![s] = @ - 1]
    <2>1. budget.adds \in [Streams -> Nat] BY <1>1 DEF Budget
    <2>2. budget.adds[s] - 1 \in Nat BY <1>2, <2>1
    <2>3. a \in [Streams -> Nat] BY <2>1, <2>2
    <2>4. [budget EXCEPT !.adds[s] = @ - 1] = [budget EXCEPT !.adds = a] OBVIOUS
    <2> HIDE DEF a
    <2> QED BY <1>1, <2>3, <2>4 DEF Budget
  <1>3. ASSUME budget.opens > 0
        PROVE  [budget EXCEPT !.opens = @ - 1] \in Budget
    <2>1. budget.opens - 1 \in Nat BY <1>1, <1>3 DEF Budget
    <2> QED BY <1>1, <2>1 DEF Budget
  <1> QED BY <1>2, <1>3

\* The invariant for one stream.
LEMMA StreamsFacts ==
  ASSUME IInv, NEW s \in Streams
  PROVE  off[s] \in [Devs -> Nat] /\ StreamOK(s, shm[s], client[s], frames[s], sock[s], off[s])
  <1>1. off \in [Streams -> [Devs -> Nat]] BY ListsFields DEF IInv, DevsOK, DevState
  <1> QED BY <1>1 DEF IInv

\* AddStream keeps the invariant, also when the attachment fails.
LEMMA AddStreamStep ==
  ASSUME IInv, NEW s \in Streams, AddStream(s)
  PROVE  IInv'
  <1> DEFINE D == Route[s] \cap Range(open)
  <1>1. /\ pass = Idle /\ s \notin live /\ budget.adds[s] > 0
        /\ budget' = [budget EXCEPT !.adds[s] = @ - 1]
        /\ open' = open /\ shm' = shm /\ late' = late /\ frames' = frames /\ sock' = sock
        /\ client' = client /\ pass' = pass
    BY DEF AddStream, clientVars
  <1>2. budget' \in Budget BY <1>1, BudgetFacts
  <1>3. live \subseteq Streams /\ DevsOK(Lists, live, Range(open)) /\ open \in Seq(Devs)
        /\ IsInjective(open)
    BY DEF IInv
  <1>4. D \in SUBSET Devs /\ D \subseteq Range(open)
    <2>1. Range(open) \in SUBSET Devs BY <1>3, RangeOfSeq
    <2> QED BY <2>1
  <1>5. CASE /\ live' = live \cup {s}
             /\ Becomes(dev_io_append_stream(s, D))
    <2> DEFINE M == dev_io_append_stream(s, D)
    <2>1. /\ DevsOK(M, live \cup {s}, Range(open))
          /\ \A t \in Streams : t # s => M.off[t] = off[t]
          /\ \A d \in Devs : M.off[s][d] <= Cb[s]
      <3> HIDE DEF D
      <3> QED BY <1>1, <1>3, <1>4, AppendStreamOK
    <2>2. list' = M.list /\ hw' = M.hw /\ devoff' = M.devoff /\ off' = M.off /\ capped' = M.capped
      BY <1>5 DEF Becomes
    <2> HIDE DEF M
    <2>3. M \in DevState(live \cup {s}) BY <2>1 DEF DevsOK
    <2>4. Lists' = M BY <2>2, <2>3, ListsAre
    <2>5. DevsOK(Lists', live', Range(open')) BY <1>1, <1>5, <2>1, <2>4
    <2>6. ASSUME NEW t \in Streams
          PROVE  StreamOK(t, shm[t], client[t], frames[t], sock[t], off'[t])
      <3>1. CASE t # s BY <2>1, <2>2, <3>1, StreamsFacts
      <3>2. CASE t = s
        <4>1. M.off[s] \in [Devs -> Nat] BY <2>3 DEF DevState
        <4>2. Fresh(shm[s], client[s], frames[s], sock[s]) BY <1>1 DEF IInv
        <4>3. StreamOK(s, FreshShm, FreshClient, FreshFrames, <<>>, M.off[s])
          BY <2>1, <4>1, FreshOK
        <4> QED BY <2>2, <3>2, <4>2, <4>3 DEF Fresh
      <3> QED BY <3>1, <3>2
    <2> QED BY <1>1, <1>2, <1>3, <1>5, <2>5, <2>6, ListStep
  <1>6. ASSUME NEW F \in SUBSET {d \in D : list[d] = <<>>},
               hw' = [d \in Devs |-> IF d \in F THEN 0 ELSE hw[d]],
               UNCHANGED <<live, list, devoff, off, capped>>
        PROVE  IInv'
    <2>1. live' = live /\ list' = list /\ devoff' = devoff /\ off' = off /\ capped' = capped
      BY <1>6
    <2>2. /\ list \in [Devs -> Seq(live)] /\ hw \in [Devs -> 0..HwSize]
          /\ devoff \in [Devs -> [Streams -> 0..HwSize]] /\ off \in [Streams -> [Devs -> Nat]]
          /\ capped \in BOOLEAN /\ \A e \in Devs : DevOK(Lists, e, Range(open))
      BY <1>3, ListsFields DEF DevsOK, DevState
    <2>3. hw' \in [Devs -> 0..HwSize] BY <1>6, <2>2, ConstFacts
    <2>4. Lists' \in DevState(live') BY <2>1, <2>2, <2>3 DEF Lists, DevState
    <2>5. ASSUME NEW e \in Devs PROVE DevOK(Lists', e, Range(open'))
      <3>1. DevOK(Lists, e, Range(open)) BY <2>2
      <3>2. CASE e \notin F
        <4>1. hw'[e] = hw[e] BY <1>6, <3>2
        <4> QED BY <1>1, <2>1, <3>1, <4>1, ListsFields, ListsPrime DEF DevOK
      <3>3. CASE e \in F
        <4>1. hw'[e] = 0 /\ list[e] = <<>> BY <1>6, <3>3
        <4>2. Range(list[e]) = {} BY <4>1 DEF Range
        <4>3. \A t \in Streams : devoff[e][t] = 0 BY <3>1, <4>2, ListsFields DEF DevOK
        <4> QED BY <1>1, <2>1, <3>1, <4>1, <4>3, ListsFields, ListsPrime DEF DevOK
      <3> QED BY <3>2, <3>3
    <2>6. DevsOK(Lists', live', Range(open')) BY <2>4, <2>5 DEF DevsOK
    <2>7. \A t \in Streams : StreamOK(t, shm[t], client[t], frames[t], sock[t], off'[t])
      BY <2>1, StreamsFacts
    <2> QED BY <1>1, <1>2, <1>3, <2>1, <2>6, <2>7, ListStep
  <1>7. \/ live' = live \cup {s} /\ Becomes(dev_io_append_stream(s, D))
        \/ \E F \in SUBSET {d \in D : list[d] = <<>>} :
             /\ D # {}
             /\ hw' = [d \in Devs |-> IF d \in F THEN 0 ELSE hw[d]]
             /\ UNCHANGED <<live, list, devoff, off, capped>>
    BY DEF AddStream
  <1> QED BY <1>5, <1>6, <1>7

\* OpenDev keeps the invariant, also when a stream cannot be attached.
LEMMA OpenDevStep ==
  ASSUME IInv, NEW d \in Devs, OpenDev(d)
  PROVE  IInv'
  <1> DEFINE O == Range(open) \cup {d}
             n == Len(Order)
  <1>1. /\ pass = Idle /\ d \notin Range(open) /\ budget.opens > 0
        /\ budget' = [budget EXCEPT !.opens = @ - 1] /\ open' = Append(open, d)
        /\ live' = live /\ shm' = shm /\ late' = late /\ frames' = frames /\ sock' = sock
        /\ client' = client /\ pass' = pass
    BY DEF OpenDev, clientVars
  <1>2. budget' \in Budget BY <1>1, BudgetFacts
  <1>3. live \subseteq Streams /\ DevsOK(Lists, live, Range(open)) /\ open \in Seq(Devs)
        /\ IsInjective(open)
    BY DEF IInv
  <1>4. open' \in Seq(Devs) /\ IsInjective(open') /\ Range(open') = O
    <2> DEFINE a == Append(open, d)
    <2>1. a \in Seq(Devs) /\ Range(a) = Range(open) \cup {d} /\ IsInjective(a)
      BY <1>1, <1>3, AppendRange
    <2> QED BY <1>1, <2>1
  <1>5. \A k \in 0..n : AttachedTo(Attached(d)[k], d, k, Range(open))
    BY <1>1, <1>3, AttachedOK
  <1>6. n \in Nat BY ConstFacts
  <1>7. ASSUME NEW M, DevsOK(M, live, O), Becomes(M),
               \A t \in Streams : \A e \in Devs : M.off[t][e] = 0 \/ M.off[t][e] = off[t][e]
        PROVE  IInv'
    <2>1. list' = M.list /\ hw' = M.hw /\ devoff' = M.devoff /\ off' = M.off /\ capped' = M.capped
      BY <1>7 DEF Becomes
    <2>2. M \in DevState(live) BY <1>7 DEF DevsOK
    <2>3. Lists' = M BY <2>1, <2>2, ListsAre
    <2>4. DevsOK(Lists', live', Range(open')) BY <1>1, <1>4, <1>7, <2>3
    <2>5. ASSUME NEW t \in Streams
          PROVE  StreamOK(t, shm[t], client[t], frames[t], sock[t], off'[t])
      <3> DEFINE o == off[t]
                 p == off'[t]
      <3>1. o \in [Devs -> Nat] /\ StreamOK(t, shm[t], client[t], frames[t], sock[t], o)
        BY StreamsFacts
      <3>2. \A e \in Devs : p[e] = 0 \/ p[e] = o[e] BY <1>7, <2>1
      <3> HIDE DEF o, p
      <3>3. StreamOK(t, shm[t], client[t], frames[t], sock[t], p) BY <3>1, <3>2, SmallerOffsets
      <3> QED BY <3>3 DEF p
    <2> QED BY <1>1, <1>2, <1>3, <1>4, <2>4, <2>5, ListStep
  <1>8. CASE Becomes(Attached(d)[n])
    <2> DEFINE M == Attached(d)[n]
    <2>1. AttachedTo(M, d, n, Range(open)) BY <1>5, <1>6
    <2> HIDE DEF M
    <2>2. DevsOK(M, live, O) /\ M.off = off BY <2>1 DEF AttachedTo
    <2>3. Becomes(M) BY <1>8 DEF M
    <2> HIDE DEF O
    <2> QED BY <1>7, <2>2, <2>3
  <1>9. ASSUME NEW k \in DOMAIN Order, Becomes(Removed(Attached(d)[k - 1], Order[k]))
        PROVE  IInv'
    <2> DEFINE L == Attached(d)[k - 1]
               s == Order[k]
               M == Removed(L, s)
    <2>1. k \in 1..n /\ k - 1 \in 0..n /\ s \in Streams BY <1>6, ConstFacts
    <2>2. AttachedTo(L, d, k - 1, Range(open)) BY <1>5, <2>1
    <2> HIDE DEF L, s
    <2>3. DevsOK(L, live, O) /\ L.off = off BY <2>2 DEF AttachedTo
    <2> HIDE DEF O
    <2>4. /\ DevsOK(M, live \ {s}, O)
          /\ \A t \in Streams : t # s => M.off[t] = L.off[t]
          /\ \A e \in Devs : M.off[s][e] = 0
      <3>1. s \in Streams /\ DevsOK(L, live, O) BY <2>1, <2>3
      <3> HIDE DEF n
      <3>2. Left(L, Removed(L, s), s, live, O) BY <3>1, RemovedOK
      <3> QED BY <3>2 DEF Left
    <2> HIDE DEF M
    <2>5. DevsOK(M, live, O)
      <3> DEFINE W == live \ {s}
      <3>1. W \subseteq live /\ DevsOK(M, W, O) BY <2>4
      <3> HIDE DEF W
      <3> QED BY <3>1, MoreOK
    <2>6. \A t \in Streams : \A e \in Devs : M.off[t][e] = 0 \/ M.off[t][e] = off[t][e]
      BY <2>3, <2>4
    <2>7. Becomes(M) BY <1>9 DEF M, L, s
    <2> QED BY <1>7, <2>5, <2>6, <2>7
  <1> QED BY <1>8, <1>9 DEF OpenDev

\* RemoveStream keeps the invariant.
LEMMA RemoveStreamStep ==
  ASSUME IInv, NEW s \in Streams, RemoveStream(s)
  PROVE  IInv'
  <1> DEFINE M == Removed(Lists, s)
             yes == TRUE
             K == Lists
  <1>1. /\ pass = Idle /\ s \in live /\ live' = live \ {s} /\ Becomes(M)
        /\ shm' = [shm EXCEPT ![s] = FreshShm] /\ late' = [late EXCEPT ![s] = yes]
        /\ frames' = [frames EXCEPT ![s] = FreshFrames] /\ sock' = [sock EXCEPT ![s] = <<>>]
        /\ client' = [client EXCEPT ![s] = FreshClient]
        /\ open' = open /\ pass' = pass /\ budget' = budget
    BY DEF RemoveStream
  <1>2. live \in SUBSET Streams /\ DevsOK(K, live, Range(open)) BY DEF IInv
  <1>3. M = Removed(K, s) OBVIOUS
  <1>4. yes \in BOOLEAN OBVIOUS
  <1>5. list' = M.list /\ hw' = M.hw /\ devoff' = M.devoff /\ off' = M.off /\ capped' = M.capped
    BY <1>1 DEF Becomes
  <1>6. K.off = off BY ListsFields
  <1> HIDE DEF K, M, yes
  <1>7. /\ DevsOK(M, live \ {s}, Range(open))
        /\ \A t \in Streams : t # s => M.off[t] = K.off[t]
        /\ \A d \in Devs : M.off[s][d] = 0
    <2> DEFINE O == Range(open)
    <2>1. DevsOK(K, live, O) BY <1>2
    <2> HIDE DEF O
    <2>2. Left(K, M, s, live, O) BY <1>3, <2>1, RemovedOK
    <2> QED BY <2>2 DEF Left, O
  <1>8. M \in DevState(live \ {s}) BY <1>7 DEF DevsOK
  <1>9. Lists' = M BY <1>5, <1>8, ListsAre
  <1>10. DevsOK(Lists', live', Range(open')) BY <1>1, <1>7, <1>9
  <1>11. /\ shm \in [Streams -> Header] /\ client \in [Streams -> ClientState]
         /\ frames \in [Streams -> Numbers] /\ sock \in [Streams -> Seq(1..BufFrames)]
         /\ late \in [Streams -> BOOLEAN]
    BY DEF IInv
  <1>12. M.off[s] \in [Devs -> Nat] /\ \A d \in Devs : M.off[s][d] <= Cb[s]
    BY <1>7, <1>8, ConstFacts DEF DevState
  <1> DEFINE e == <<>>
  <1>13. StreamOK(s, FreshShm, FreshClient, FreshFrames, e, M.off[s]) BY <1>12, FreshOK
  <1>14. sock' = [sock EXCEPT ![s] = e] BY <1>1
  <1>15. FreshShm \in Header /\ FreshClient \in ClientState /\ FreshFrames \in Numbers
         /\ e \in Seq(1..BufFrames)
    BY <1>13 DEF StreamOK
  <1>16. e = <<>> OBVIOUS
  <1> DEFINE Q == Seq(1..BufFrames)
             fs == FreshShm
             fc == FreshClient
             ff == FreshFrames
  <1>17. /\ fs \in Header /\ fc \in ClientState /\ ff \in Numbers /\ e \in Q
         /\ sock \in [Streams -> Q]
         /\ shm' = [shm EXCEPT ![s] = fs] /\ client' = [client EXCEPT ![s] = fc]
         /\ frames' = [frames EXCEPT ![s] = ff]
    BY <1>1, <1>11, <1>15
  <1> HIDE DEF e, Q, fs, fc, ff
  <1>18. /\ shm' \in [Streams -> Header] /\ client' \in [Streams -> ClientState]
         /\ frames' \in [Streams -> Numbers] /\ sock' \in [Streams -> Q]
         /\ late' \in [Streams -> BOOLEAN]
    BY <1>1, <1>4, <1>11, <1>14, <1>17
  <1>19. /\ shm'[s] = fs /\ client'[s] = fc /\ frames'[s] = ff /\ sock'[s] = e
         /\ \A t \in Streams : t # s => /\ shm'[t] = shm[t] /\ client'[t] = client[t]
                                        /\ frames'[t] = frames[t] /\ sock'[t] = sock[t]
    BY <1>11, <1>14, <1>17
  <1>20. ASSUME NEW t \in Streams
         PROVE  StreamOK(t, shm'[t], client'[t], frames'[t], sock'[t], off'[t])
    <2>1. CASE t = s BY <1>5, <1>13, <1>19, <2>1 DEF fs, fc, ff
    <2>2. CASE t # s BY <1>5, <1>6, <1>7, <1>19, <2>2, StreamsFacts
    <2> QED BY <2>1, <2>2
  <1>21. ASSUME NEW t \in Streams \ live'
         PROVE  Fresh(shm'[t], client'[t], frames'[t], sock'[t])
    <2>1. CASE t = s BY <1>16, <1>19, <2>1 DEF Fresh, fs, fc, ff
    <2>2. CASE t # s
      <3>1. t \in Streams \ live BY <1>1, <1>21, <2>2
      <3> QED BY <1>19, <2>2, <3>1 DEF IInv
    <2> QED BY <2>1, <2>2
  <1>22. PassTypes' /\ PassOK' BY <1>1, IdleStep
  <1>23. sock' \in [Streams -> Seq(1..BufFrames)] BY <1>18 DEF Q
  <1> QED BY <1>1, <1>10, <1>18, <1>20, <1>21, <1>22, <1>23 DEF IInv

\* dev_io_rm_open_dev keeps the invariant.
LEMMA CloseDevStep ==
  ASSUME IInv, NEW d \in Devs, dev_io_rm_open_dev(d)
  PROVE  IInv'
  <1> DEFINE e == <<>>
             z == [s \in Streams |-> 0]
             n == Without(open, d)
  <1>1. /\ pass = Idle /\ d \in Range(open) /\ open' = n
        /\ list' = [list EXCEPT ![d] = e] /\ hw' = [hw EXCEPT ![d] = 0]
        /\ devoff' = [devoff EXCEPT ![d] = z]
        /\ off' = [s \in Streams |-> [off[s] EXCEPT ![d] = 0]]
        /\ live' = live /\ budget' = budget /\ capped' = capped /\ shm' = shm /\ late' = late
        /\ frames' = frames /\ sock' = sock /\ client' = client /\ pass' = pass
    BY DEF dev_io_rm_open_dev, clientVars
  <1>2. /\ open \in Seq(Devs) /\ IsInjective(open) /\ live \subseteq Streams
        /\ budget \in Budget
    BY DEF IInv
  <1>3. n \in Seq(Devs) /\ IsInjective(n) /\ Range(n) = Range(open) \ {d}
    BY <1>2, WithoutFacts
  <1>4. /\ list \in [Devs -> Seq(live)] /\ hw \in [Devs -> 0..HwSize]
        /\ devoff \in [Devs -> [Streams -> 0..HwSize]] /\ off \in [Streams -> [Devs -> Nat]]
        /\ capped \in BOOLEAN /\ \A f \in Devs : DevOK(Lists, f, Range(open))
    BY ListsFields DEF IInv, DevsOK, DevState
  <1>5. e \in Seq(live) /\ IsInjective(e) /\ Range(e) = {} /\ e = <<>> BY DEF IsInjective, Range
  <1>6. z \in [Streams -> 0..HwSize] /\ \A s \in Streams : z[s] = 0 BY ConstFacts
  <1>7. 0 \in 0..HwSize BY ConstFacts
  <1> HIDE DEF e, z, n
  <1>8. list' \in [Devs -> Seq(live)] /\ list'[d] = e /\ \A f \in Devs : f # d => list'[f] = list[f]
    BY <1>1, <1>4, <1>5
  <1>9. hw' \in [Devs -> 0..HwSize] /\ hw'[d] = 0 /\ \A f \in Devs : f # d => hw'[f] = hw[f]
    BY <1>1, <1>4, <1>7
  <1>10. /\ devoff' \in [Devs -> [Streams -> 0..HwSize]] /\ devoff'[d] = z
         /\ \A f \in Devs : f # d => devoff'[f] = devoff[f]
    BY <1>1, <1>4, <1>6
  <1>11. /\ off' \in [Streams -> [Devs -> Nat]]
         /\ \A s \in Streams : \A f \in Devs : off'[s][f] = IF f = d THEN 0 ELSE off[s][f]
    BY <1>1, <1>4
  <1>12. Lists' \in DevState(live') BY <1>1, <1>4, <1>8, <1>9, <1>10, <1>11 DEF Lists, DevState
  <1>13. ASSUME NEW f \in Devs PROVE DevOK(Lists', f, Range(open'))
    <2>1. CASE f = d
      <3>1. \A s \in Streams : devoff'[d][s] = 0 /\ off'[s][d] = 0 BY <1>6, <1>10, <1>11
      <3> QED BY <1>5, <1>8, <1>9, <2>1, <3>1, ListsPrime DEF DevOK
    <2>2. CASE f # d
      <3>1. DevOK(Lists, f, Range(open)) BY <1>4
      <3>2. \A s \in Streams : off'[s][f] = off[s][f] BY <1>11, <2>2
      <3>3. f \in Range(open) => f \in Range(open') BY <1>1, <1>3, <2>2
      <3>4. list'[f] = list[f] /\ hw'[f] = hw[f] /\ devoff'[f] = devoff[f]
        BY <1>8, <1>9, <1>10, <2>2
      <3> QED BY <3>1, <3>2, <3>3, <3>4, ListsFields, ListsPrime DEF DevOK
    <2> QED BY <2>1, <2>2
  <1>14. DevsOK(Lists', live', Range(open')) BY <1>12, <1>13 DEF DevsOK
  <1>15. ASSUME NEW t \in Streams
         PROVE  StreamOK(t, shm[t], client[t], frames[t], sock[t], off'[t])
    <2> DEFINE o == off[t]
               p == off'[t]
    <2>1. o \in [Devs -> Nat] /\ StreamOK(t, shm[t], client[t], frames[t], sock[t], o)
        BY StreamsFacts
    <2>2. \A f \in Devs : p[f] = 0 \/ p[f] = o[f] BY <1>11
    <2> HIDE DEF o, p
    <2>3. StreamOK(t, shm[t], client[t], frames[t], sock[t], p) BY <2>1, <2>2, SmallerOffsets
    <2> QED BY <2>3 DEF p
  <1> QED BY <1>1, <1>2, <1>3, <1>14, <1>15, ListStep

-----------------------------------------------------------------------------
(* The invariant holds.                                                    *)

\* Initially no device is open and no stream is there.
LEMMA InitOK == Init => IInv
  <1> SUFFICES ASSUME Init PROVE IInv OBVIOUS
  <1> DEFINE e == <<>>
             no == FALSE
             yes == TRUE
             z == [s \in Streams |-> 0]
             zd == [d \in Devs |-> 0]
             fs == FreshShm
             fc == FreshClient
             ff == FreshFrames
  <1>1. /\ open = e /\ hw = [d \in Devs |-> 0] /\ list = [d \in Devs |-> e]
        /\ devoff = [d \in Devs |-> z] /\ off = [s \in Streams |-> zd] /\ live = {}
        /\ shm = [s \in Streams |-> fs] /\ late = [s \in Streams |-> yes]
        /\ frames = [s \in Streams |-> ff] /\ sock = [s \in Streams |-> e]
        /\ client = [s \in Streams |-> fc] /\ pass = Idle /\ budget \in Budgets /\ capped = no
    BY DEF Init
  <1>2. /\ no \in BOOLEAN /\ yes \in BOOLEAN /\ 0 \in 0..HwSize
        /\ z \in [Streams -> 0..HwSize] /\ \A s \in Streams : z[s] = 0
        /\ zd \in [Devs -> Nat] /\ \A d \in Devs : zd[d] = 0
    BY ConstFacts
  <1>3. /\ e = <<>> /\ IsInjective(e) /\ e \in Seq(Devs) /\ e \in Seq(live)
        /\ e \in Seq(1..BufFrames) /\ Range(e) = {}
    BY DEF IsInjective, Range
  <1>4. ASSUME NEW s \in Streams PROVE StreamOK(s, fs, fc, ff, e, zd)
    <2>1. Cb[s] \in Nat BY ConstFacts
    <2>2. \A d \in Devs : zd[d] <= Cb[s] BY <1>2, <2>1
    <2> HIDE DEF zd
    <2> QED BY <1>2, <2>2, FreshOK
  <1>5. ASSUME NEW s \in Streams
        PROVE  fs \in Header /\ fc \in ClientState /\ ff \in Numbers
    BY <1>4 DEF StreamOK
  <1> HIDE DEF e, no, yes, z, zd, fs, fc, ff
  <1>6. /\ shm \in [Streams -> Header] /\ client \in [Streams -> ClientState]
        /\ frames \in [Streams -> Numbers] /\ late \in [Streams -> BOOLEAN]
    BY <1>1, <1>2, <1>5
  <1>7. sock \in [Streams -> Seq(1..BufFrames)] BY <1>1, <1>3
  <1>8. \A s \in Streams : StreamOK(s, shm[s], client[s], frames[s], sock[s], off[s])
    BY <1>1, <1>4
  <1>9. \A s \in Streams \ live : Fresh(shm[s], client[s], frames[s], sock[s])
    BY <1>1, <1>3 DEF Fresh, fs, fc, ff
  <1>10. DevsOK(Lists, live, Range(open))
    <2>1. list \in [Devs -> Seq(live)] BY <1>1, <1>3
    <2>2. hw \in [Devs -> 0..HwSize] /\ devoff \in [Devs -> [Streams -> 0..HwSize]]
      BY <1>1, <1>2
    <2>3. off \in [Streams -> [Devs -> Nat]] /\ capped \in BOOLEAN BY <1>1, <1>2
    <2>4. Lists \in DevState(live) BY <2>1, <2>2, <2>3 DEF Lists, DevState
    <2>5. ASSUME NEW d \in Devs PROVE DevOK(Lists, d, Range(open))
      <3>1. list[d] = e /\ hw[d] = 0 BY <1>1
      <3>2. \A s \in Streams : devoff[d][s] = 0 /\ off[s][d] = 0 BY <1>1, <1>2
      <3> QED BY <1>3, <3>1, <3>2, ListsFields DEF DevOK
    <2> QED BY <2>4, <2>5 DEF DevsOK
  <1>11. PassTypes /\ PassOK BY <1>1 DEF PassTypes, PassOK, Idle
  <1>12. open \in Seq(Devs) /\ IsInjective(open) BY <1>1, <1>3
  <1>13. live \subseteq Streams BY <1>1
  <1>14. budget \in Budget BY <1>1, CaptureAssumption DEF Budget
  <1> QED BY <1>6, <1>7, <1>8, <1>9, <1>10, <1>11, <1>12, <1>13, <1>14 DEF IInv

\* Every step keeps it.
LEMMA NextOK == IInv /\ [Next]_vars => IInv'
  <1> SUFFICES ASSUME IInv, [Next]_vars PROVE IInv' OBVIOUS
  <1>1. ASSUME NEW d \in Devs, Capture(d) PROVE IInv' BY <1>1, CaptureStep
  <1>2. ASSUME NEW d \in Devs, Send(d) PROVE IInv' BY <1>2, SendStep
  <1>3. ASSUME NEW s \in Streams, AddStream(s) PROVE IInv' BY <1>3, AddStreamStep
  <1>4. ASSUME NEW s \in Streams, RemoveStream(s) PROVE IInv' BY <1>4, RemoveStreamStep
  <1>5. ASSUME NEW s \in Streams, TimePasses(s) PROVE IInv' BY <1>5, TimePassesStep
  <1>6. ASSUME NEW d \in Devs, OpenDev(d) PROVE IInv' BY <1>6, OpenDevStep
  <1>7. ASSUME NEW d \in Devs, dev_io_rm_open_dev(d) PROVE IInv' BY <1>7, CloseDevStep
  <1>8. ASSUME NEW d \in Devs, Record(d) PROVE IInv' BY <1>8, RecordStep
  <1>9. ASSUME NEW s \in Clients, DataReady(s) PROVE IInv' BY <1>9, DataReadyStep
  <1>10. ASSUME NEW s \in Clients, Callback(s) PROVE IInv' BY <1>10, CallbackStep
  <1>11. ASSUME NEW s \in Clients, ClearWritten(s) PROVE IInv' BY <1>11, ClearStep
  <1>12. ASSUME NEW s \in Clients, MoveOn(s) PROVE IInv' BY <1>12, MoveOnStep
  <1>13. CASE UNCHANGED vars
    BY <1>13 DEF vars, IInv, Lists, PassTypes, PassOK, On, input_devices_can_drop_samples
  <1> QED
    BY <1>1, <1>2, <1>3, <1>4, <1>5, <1>6, <1>7, <1>8, <1>9, <1>10, <1>11, <1>12, <1>13
    DEF Next, AudioThread

\* The inductive invariant holds in every reachable state of the capture path.
THEOREM CaptureInvariant == Spec => []IInv
  BY InitOK, NextOK, PTL DEF Spec

\* Every variable keeps its type: the offsets of streams and devices stay
\* between 0 and the size of the device's buffer, no socket holds more than it
\* can, and a message never promises more than half a buffer.
THEOREM CaptureTypeCorrect == Spec => []TypeOK
  <1>1. IInv => TypeOK
    <2> SUFFICES ASSUME IInv PROVE TypeOK OBVIOUS
    <2>1. /\ list \in [Devs -> Seq(live)] /\ hw \in [Devs -> 0..HwSize]
          /\ devoff \in [Devs -> [Streams -> 0..HwSize]]
          /\ off \in [Streams -> [Devs -> Nat]] /\ capped \in BOOLEAN
      BY ListsFields DEF IInv, DevsOK, DevState
    <2>2. \A s \in Streams : sock[s] \in Seq(1..BufFrames) /\ Len(sock[s]) <= SockSize
      BY DEF IInv, StreamOK
    <2>3. /\ open \in Seq(Devs) /\ live \subseteq Streams /\ late \in [Streams -> BOOLEAN]
          /\ shm \in [Streams -> Header] /\ client \in [Streams -> ClientState]
          /\ frames \in [Streams -> Numbers]
          /\ budget \in Budget
          /\ PassTypes
      BY DEF IInv
    <2> QED BY <2>1, <2>2, <2>3 DEF TypeOK, Header, ClientState, Numbers, PassTypes, Budget
  <1> QED BY <1>1, CaptureInvariant, PTL

\* What is committed to a half of a stream's buffer and what any device has
\* written past it fit one callback (dev_stream_capture,
\* cras_rstream_update_input_write_pointer).
THEOREM HalfHoldsOneCallback == Spec => []FitsOneCallback
  <1>1. IInv => FitsOneCallback
    <2> SUFFICES ASSUME IInv, NEW s \in Streams, NEW d \in Att(s),
                        shm[s].prog[shm[s].widx]
                 PROVE  off[s][d] + cras_shm_frames_written(shm[s]) <= Cb[s]
      BY DEF FitsOneCallback
    <2>1. d \in Devs BY DEF Att
    <2>2. Fits(s, shm[s], off[s]) BY DEF IInv, StreamOK
    <2> QED BY <2>1, <2>2 DEF Fits, Filled, cras_shm_frames_written
  <1> QED BY <1>1, CaptureInvariant, PTL

\* A client whose buffer was not overrun hears every frame once and in order,
\* and no half changes under its callback (cras_shm_check_write_overrun,
\* handle_capture_data_ready).
THEOREM NoFrameLostSilently == Spec => []NoSilentLoss
  <1>1. IInv => NoSilentLoss
    <2> SUFFICES ASSUME IInv, NEW s \in Clients, client[s].broken PROVE shm[s].overrun
      BY DEF NoSilentLoss
    <2>1. s \in Streams BY DEF Clients
    <2>2. shm[s].overrun \/ ~client[s].broken BY <2>1 DEF IInv, StreamOK, InStep
    <2> QED BY <2>2
  <1> QED BY <1>1, CaptureInvariant, PTL
=============================================================================
