----------------------------- MODULE MCPlayback -----------------------------
(* Instances of Playback for TLC. *)
EXTENDS Playback

CONSTANTS d1, d2,
          big,          \* a stream with callbacks of two frames
          small, small2 \* streams with callbacks of one frame

AllDevs == [s \in Streams |-> Devs]
ListOrder == <<big, small, small2>>
Cbs == [s \in Streams |-> IF s = big THEN 2 ELSE 1]

Adds(S) == [s \in Streams |-> IF s \in S THEN 1 ELSE 0]

\* A stream on two devices that come and go, with a client that is interrupted
\* and may answer with nothing, then one that is interrupted and may die; two
\* streams on one device, either of which may answer with less than it is asked
\* for, end or be removed; two streams on one device that may fail to tell its
\* time; two streams on two devices.
Scenarios ==
    {[opens |-> 2, adds |-> Adds({big}), leaves |-> 2, deaths |-> 0,
      slow |-> {big}, answers |-> {0, 2}, late |-> {}],
     [opens |-> 2, adds |-> Adds({big}), leaves |-> 2, deaths |-> 1,
      slow |-> {big}, answers |-> {2}, late |-> {}],
     [opens |-> 1, adds |-> Adds({big, small}), leaves |-> 1, deaths |-> 0,
      slow |-> {}, answers |-> {-1, 1, 2}, late |-> {}],
     [opens |-> 1, adds |-> Adds({big, small}), leaves |-> 0, deaths |-> 0,
      slow |-> {}, answers |-> {2}, late |-> {d1}],
     [opens |-> 2, adds |-> Adds({small, small2}), leaves |-> 0, deaths |-> 0,
      slow |-> {}, answers |-> {2}, late |-> {}]}
=============================================================================
