------------------------------ MODULE MCCapture -----------------------------
(* Instances of Capture for TLC. *)
EXTENDS Capture

CONSTANTS d1, d2,
          app,        \* a stream with a client
          srv, srv2,  \* streams of the server itself
          bulk        \* one of them with BULK_AUDIO_OK

AllDevs == [s \in Streams |-> Devs]
ListOrder == <<app, srv, srv2, bulk>>

Adds(S, n) == [s \in Streams |-> IF s \in S THEN n ELSE 0]

\* A client on one device; two streams on two that can drop samples; a stream and
\* a bulk stream on two, of which one can.
Scenarios == {[opens |-> 1, adds |-> Adds({app}, 1), drops |-> Devs],
              [opens |-> 2, adds |-> Adds({srv, srv2}, 1), drops |-> Devs],
              [opens |-> 2, adds |-> Adds({srv, bulk}, 1), drops |-> {d1}]}

\* srv2 has larger callbacks than the others.
Cbs == [s \in Streams |-> IF s = srv2 THEN 3 ELSE 2]

\* A large stream, and a small one that comes later.
LargeAndSmall == [s \in Streams |-> IF s = srv THEN 3 ELSE 1]
TwoOnTwo == {[opens |-> 2, adds |-> Adds({srv, srv2}, 1), drops |-> Devs]}
=============================================================================
