---------------------------- MODULE SharedBuffer ----------------------------
(***************************************************************************)
(* What a buffer_share object promises (buffer_share.h): a set of users,   *)
(* each with an offset, the number of frames by which it is ahead of the   *)
(* common write point.  There are no slots here; BufferShare.tla, which    *)
(* models the slot array of buffer_share.c, implements this module.        *)
(***************************************************************************)
EXTENDS Integers

CONSTANTS
  Ids,      \* the ids a user may have (stream ids, or device ids)
  BufSz,    \* frames in the shared buffer
  Modulus   \* 2^32 in the code: offsets are unsigned ints

VARIABLES
  off,      \* offset of each current user; its domain is the set of users
  ret       \* what the last operation returned

svars == <<off, ret>>

Users   == DOMAIN off
Offsets == 0 .. Modulus - 1

\* Error returns; every other return value is a frame count or 0.
EEXIST == -17
ENOENT == -2
EINVAL == -22

Init == off = [u \in {} |-> 0] /\ ret = 0

AddUser(u) ==
  IF u \in Users
  THEN ret' = EEXIST /\ UNCHANGED off
  ELSE /\ off' = [v \in Users \cup {u} |-> IF v = u THEN 0 ELSE off[v]]
       /\ ret' = 0

RemoveUser(u) ==
  IF u \in Users
  THEN off' = [v \in Users \ {u} |-> off[v]] /\ ret' = 0
  ELSE ret' = ENOENT /\ UNCHANGED off

\* One user moves; no other one does, and a stranger moves nobody.
Advance(u, delta) ==
  /\ ret' = 0
  /\ off' = [v \in Users |-> IF v = u THEN (off[v] + delta) % Modulus
                                      ELSE off[v]]

\* The whole group moves by n frames, or not at all when some user is not
\* that far ahead.
MovePoint(n, value) ==
  IF \A u \in Users : off[u] >= n
  THEN off' = [u \in Users |-> off[u] - n] /\ ret' = value
  ELSE UNCHANGED off /\ ret' = EINVAL

\* The write point moves as far as the slowest user allows.  Users that all
\* ran past the end of the buffer do not move it.
CatchUp ==
  LET slowest == {m \in 0 .. BufSz : /\ \E u \in Users : off[u] = m
                                     /\ \A u \in Users : m <= off[u]}
  IN  \/ slowest = {} /\ UNCHANGED off /\ ret' = 0
      \/ \E m \in slowest : MovePoint(m, m)

Restart == off' = [u \in Users |-> 0] /\ ret' = 0

Next ==
  \/ \E u \in Ids : AddUser(u) \/ RemoveUser(u)
  \/ \E u \in Ids, d \in Offsets : Advance(u, d)
  \/ \E n \in Offsets : MovePoint(n, 0)
  \/ CatchUp
  \/ Restart

Spec == Init /\ [][Next]_svars
=============================================================================
