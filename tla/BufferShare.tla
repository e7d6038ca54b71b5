---------------------------- MODULE BufferShare -----------------------------
(***************************************************************************)
(* The slot array of cras/src/server/buffer_share.c.  A device keeps one   *)
(* (its users are the attached streams) and so does every stream (its      *)
(* users are the devices it is attached to).  Only the audio thread uses   *)
(* it, so one call is one step.                                            *)
(*                                                                         *)
(* Two things make it subtle.  buffer_share_offset_update looks for the id *)
(* without looking at `used', and buffer_share_update_write_point moves    *)
(* the offsets of unused slots too, wrapping them below zero.  The slots   *)
(* that alloc_more_ids adds keep whatever id and offset the memory held.   *)
(***************************************************************************)
EXTENDS Integers

CONSTANTS
  Ids,              \* possible values of id_offset.id
  ZeroId,           \* the id 0, which calloc leaves in the first slots
  InitialIdSize,    \* INITIAL_ID_SIZE
  BufSz,            \* buffer_share.buf_sz
  Modulus           \* 2^32: the offsets are unsigned int

ASSUME ConstantsAssumption ==
  /\ ZeroId \in Ids
  /\ InitialIdSize \in Nat \ {0}
  /\ BufSz \in Nat
  /\ Modulus \in Nat
  /\ BufSz + 1 < Modulus

VARIABLES
  id_sz,    \* number of slots
  wr_idx,   \* the slots
  ret       \* what the last call returned

vars == <<id_sz, wr_idx, ret>>

Slots   == 0 .. id_sz - 1
Offsets == 0 .. Modulus - 1
Slot    == [used : BOOLEAN, id : Ids, offset : Offsets]

EEXIST == -17
ENOENT == -2
EINVAL == -22

TypeOK ==
  /\ id_sz \in Nat \ {0}
  /\ wr_idx \in [Slots -> Slot]
  /\ ret \in Offsets \cup {EEXIST, ENOENT, EINVAL}

Used == {i \in Slots : wr_idx[i].used}

\* The slot a loop over the array that stops at the first hit returns.
First(S) == CHOOSE i \in S : \A j \in S : i <= j

-----------------------------------------------------------------------------
(* The searches.  Each returns the slots that match; the code stops at the *)
(* first one.                                                              *)

find_unused == Slots \ Used

find_id(id) == {i \in Used : wr_idx[i].id = id}

\* The arrays alloc_more_ids may leave: twice the slots, of which it writes
\* only `used'; realloc leaves the rest of the new half uninitialized.
alloc_more_ids ==
  {[i \in 0 .. 2 * id_sz - 1 |->
      IF i \in Slots THEN wr_idx[i]
      ELSE [used |-> FALSE, id |-> junk[i].id, offset |-> junk[i].offset]] :
     junk \in [id_sz .. 2 * id_sz - 1 -> [id : Ids, offset : Offsets]]}

Taken(id) == [used |-> TRUE, id |-> id, offset |-> 0]

-----------------------------------------------------------------------------
Init ==   \* buffer_share_create
  /\ id_sz = InitialIdSize
  /\ wr_idx = [i \in Slots |-> [used |-> FALSE, id |-> ZeroId, offset |-> 0]]
  /\ ret = 0

\* Mutant: reuses the last unused slot instead of the first.
MutAddToLastUnused(id) ==
  IF find_id(id) = {} /\ find_unused # {}
  THEN /\ wr_idx' = [wr_idx EXCEPT
                       ![CHOOSE i \in find_unused : \A j \in find_unused : i >= j]
                         = Taken(id)]
       /\ ret' = 0
       /\ UNCHANGED id_sz
  ELSE UNCHANGED vars

buffer_share_add_id(id) ==
  \/ /\ find_id(id) # {}
     /\ ret' = EEXIST
     /\ UNCHANGED <<id_sz, wr_idx>>
  \/ /\ find_id(id) = {}
     /\ find_unused # {}
     /\ wr_idx' = [wr_idx EXCEPT ![First(find_unused)] = Taken(id)]
     /\ ret' = 0
     /\ UNCHANGED id_sz
  \/ /\ find_id(id) = {}
     /\ find_unused = {}
     /\ \E grown \in alloc_more_ids :
          wr_idx' = [grown EXCEPT ![id_sz] = Taken(id)]
     /\ id_sz' = 2 * id_sz
     /\ ret' = 0

\* The slot keeps its id and its offset: it is only marked unused.
buffer_share_rm_id(id) ==
  /\ IF find_id(id) = {}
     THEN ret' = ENOENT /\ UNCHANGED wr_idx
     ELSE /\ wr_idx' = [wr_idx EXCEPT ![First(find_id(id))].used = FALSE]
          /\ ret' = 0
  /\ UNCHANGED id_sz

\* The search does not look at `used'.
buffer_share_offset_update(id, delta) ==
  LET hits == {i \in Slots : wr_idx[i].id = id}
  IN  /\ wr_idx' = IF hits = {} THEN wr_idx
                   ELSE [wr_idx EXCEPT ![First(hits)].offset =
                           (@ + delta) % Modulus]
      /\ ret' = 0
      /\ UNCHANGED id_sz

\* The least used offset, or 0 when there is none up to buf_sz.
buffer_share_get_minimum_offset ==
  LET offsets == {wr_idx[i].offset : i \in Used} \cap 0 .. BufSz
  IN  IF offsets = {} THEN 0 ELSE First(offsets)

\* Mutant: off by one.
MutCanWriteOneMore(written) == \A i \in Used : wr_idx[i].offset + 1 >= written

CanWrite(written) == \A i \in Used : wr_idx[i].offset >= written

\* Mutant: the subtraction does not wrap.
MutSubtractSigned(written) ==
  wr_idx' = [i \in Slots |-> [wr_idx[i] EXCEPT !.offset = @ - written]]

\* The second loop of buffer_share_update_write_point: every slot, used or not.
Subtract(written) ==
  wr_idx' = [i \in Slots |->
               [wr_idx[i] EXCEPT !.offset = (@ - written) % Modulus]]

buffer_share_update_write_point(written) ==
  /\ IF CanWrite(written)
     THEN Subtract(written) /\ ret' = 0
     ELSE UNCHANGED wr_idx /\ ret' = EINVAL
  /\ UNCHANGED id_sz

buffer_share_get_new_write_point ==
  LET minimum_offset == buffer_share_get_minimum_offset
  IN  /\ IF CanWrite(minimum_offset)
         THEN Subtract(minimum_offset) /\ ret' = minimum_offset
         ELSE UNCHANGED wr_idx /\ ret' = 0
      /\ UNCHANGED id_sz

buffer_share_reset_write_point ==
  /\ wr_idx' = [i \in Slots |->
                  IF wr_idx[i].used THEN [wr_idx[i] EXCEPT !.offset = 0]
                                    ELSE wr_idx[i]]
  /\ ret' = 0
  /\ UNCHANGED id_sz

\* What a caller sees of one user.
buffer_share_id_offset(id) ==
  IF find_id(id) = {} THEN 0 ELSE wr_idx[First(find_id(id))].offset

Next ==
  \/ \E id \in Ids : buffer_share_add_id(id) \/ buffer_share_rm_id(id)
  \/ \E id \in Ids, delta \in Offsets : buffer_share_offset_update(id, delta)
  \/ \E written \in Offsets : buffer_share_update_write_point(written)
  \/ buffer_share_get_new_write_point
  \/ buffer_share_reset_write_point

Spec == Init /\ [][Next]_vars

-----------------------------------------------------------------------------
(* Properties.                                                             *)

\* No slot before a used one carries its id, used or not.  This is what lets
\* buffer_share_offset_update search by id alone: the first slot with the id
\* of a user is that user's slot.
UsedIsFirst ==
  \A i \in Slots, j \in Used : i < j => wr_idx[i].id # wr_idx[j].id

\* The users of the array and their offsets, without the slots.
Users  == {wr_idx[i].id : i \in Used}
UserOffsets == [u \in Users |-> buffer_share_id_offset(u)]

Abstract == INSTANCE SharedBuffer WITH off <- UserOffsets

\* buffer_share.c implements SharedBuffer, return values included: the array
\* behaves as a set of users with their offsets, whichever slots the users
\* were given and whatever the unused slots hold.
ImplementsSharedBuffer == Abstract!Spec
=============================================================================
