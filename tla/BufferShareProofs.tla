------------------------- MODULE BufferShareProofs --------------------------
(***************************************************************************)
(* Proofs about BufferShare for every set of ids, every initial size,      *)
(* every buffer size and every modulus.                                    *)
(***************************************************************************)
EXTENDS BufferShare, WellFoundedInduction, TLAPS

\* A search that stops at the first hit returns a hit, and none before it.
LEMMA FirstIsLeast ==
  ASSUME NEW S \in SUBSET Nat, S # {}
  PROVE  First(S) \in S /\ \A j \in S : First(S) <= j
  <1> DEFINE R == {p \in Nat \X Nat : p[1] < p[2]}
  <1>1. IsWellFoundedOn(R, Nat)
    BY NatLessThanWellFounded DEF OpToRel
  <1>2. PICK m \in S : \A j \in S : ~(<<j, m>> \in R)
    <2> HIDE DEF R
    <2> QED  BY <1>1, WFMin
  <1>3. ASSUME NEW j \in S  PROVE m <= j
    <2>1. <<j, m>> \in Nat \X Nat /\ ~(<<j, m>> \in R)
      BY <1>2
    <2>2. ~(<<j, m>>[1] < <<j, m>>[2])
      BY <2>1
    <2>3. QED  BY <2>2
  <1>4. QED
    BY <1>3 DEF First

LEMMA ModInOffsets ==
  ASSUME NEW n \in Int
  PROVE  n % Modulus \in Offsets
  BY ConstantsAssumption DEF Offsets

\* Writing one field of a slot leaves a slot, and the other fields alone.
LEMMA SlotUpdate ==
  ASSUME NEW s \in Slot, NEW n \in Offsets
  PROVE  /\ [s EXCEPT !.offset = n] \in Slot
         /\ [s EXCEPT !.offset = n].used = s.used
         /\ [s EXCEPT !.offset = n].id = s.id
         /\ [s EXCEPT !.offset = n].offset = n
         /\ [s EXCEPT !.used = FALSE] \in Slot
         /\ ~[s EXCEPT !.used = FALSE].used
         /\ [s EXCEPT !.used = FALSE].id = s.id
         /\ [s EXCEPT !.used = FALSE].offset = s.offset
  BY DEF Slot

-----------------------------------------------------------------------------
LEMMA InitType == Init => TypeOK
  BY ConstantsAssumption DEF Init, TypeOK, Slots, Slot, Offsets

LEMMA FreeSlot ==
  ASSUME TypeOK, find_unused # {}
  PROVE  /\ First(find_unused) \in find_unused
         /\ \A j \in find_unused : First(find_unused) <= j
  <1>1. find_unused \in SUBSET Nat
    BY DEF TypeOK, find_unused, Slots
  <1>2. QED
    BY <1>1, FirstIsLeast

LEMMA FoundSlot ==
  ASSUME TypeOK, NEW id, find_id(id) # {}
  PROVE  First(find_id(id)) \in find_id(id)
  <1>1. find_id(id) \in SUBSET Nat
    BY DEF TypeOK, find_id, Used, Slots
  <1>2. QED
    BY <1>1, FirstIsLeast

\* What alloc_more_ids returns, slot by slot.
LEMMA Grown ==
  ASSUME TypeOK, NEW grown \in alloc_more_ids
  PROVE  /\ grown \in [0 .. 2 * id_sz - 1 -> Slot]
         /\ \A i \in Slots : grown[i] = wr_idx[i]
         /\ \A i \in id_sz .. 2 * id_sz - 1 : ~grown[i].used
  <1> PICK junk \in [id_sz .. 2 * id_sz - 1 -> [id : Ids, offset : Offsets]] :
        grown = [i \in 0 .. 2 * id_sz - 1 |->
                   IF i \in Slots THEN wr_idx[i]
                   ELSE [used |-> FALSE, id |-> junk[i].id,
                         offset |-> junk[i].offset]]
    BY DEF alloc_more_ids
  <1>1. ASSUME NEW i \in 0 .. 2 * id_sz - 1, i \notin Slots
        PROVE  /\ i \in id_sz .. 2 * id_sz - 1
               /\ junk[i].id \in Ids /\ junk[i].offset \in Offsets
    <2>1. i \in id_sz .. 2 * id_sz - 1
      BY <1>1 DEF Slots, TypeOK
    <2>2. QED  BY <2>1
  <1>2. grown \in [0 .. 2 * id_sz - 1 -> Slot]
    BY <1>1 DEF TypeOK, Slot
  <1>3. \A i \in Slots : grown[i] = wr_idx[i]
    BY DEF TypeOK, Slots
  <1>4. \A i \in id_sz .. 2 * id_sz - 1 : ~grown[i].used
    BY DEF TypeOK, Slots
  <1> QED  BY <1>2, <1>3, <1>4

LEMMA MinimumOffset ==
  ASSUME TypeOK
  PROVE  /\ buffer_share_get_minimum_offset \in 0 .. BufSz
         /\ buffer_share_get_minimum_offset \in Offsets
         /\ CanWrite(buffer_share_get_minimum_offset)
  <1> DEFINE offsets == {wr_idx[i].offset : i \in Used} \cap 0 .. BufSz
             m == buffer_share_get_minimum_offset
  <1>1. m = IF offsets = {} THEN 0 ELSE First(offsets)
    BY DEF buffer_share_get_minimum_offset
  <1>2. \A i \in Used : wr_idx[i].offset \in Offsets
    BY DEF TypeOK, Used, Slot
  <1>3. offsets \in SUBSET Nat
    BY ConstantsAssumption
  <1>4. CASE offsets = {}
    BY <1>1, <1>2, <1>4, ConstantsAssumption DEF CanWrite, Offsets
  <1>5. CASE offsets # {}
    <2>1. m \in offsets /\ \A j \in offsets : m <= j
      <3> HIDE DEF m, offsets
      <3> QED  BY <1>1, <1>3, <1>5, FirstIsLeast
    <2>2. m \in 0 .. BufSz
      BY <2>1
    <2>3. ASSUME NEW i \in Used  PROVE wr_idx[i].offset >= m
      <3>1. CASE wr_idx[i].offset \in 0 .. BufSz
        BY <2>1, <3>1, <2>2, ConstantsAssumption
      <3>2. CASE wr_idx[i].offset \notin 0 .. BufSz
        BY <3>2, <1>2, <2>2, ConstantsAssumption DEF Offsets
      <3> QED  BY <3>1, <3>2
    <2> QED  BY <2>2, <2>3, ConstantsAssumption DEF CanWrite, Offsets
  <1> QED  BY <1>4, <1>5

-----------------------------------------------------------------------------
\* The step of type correctness, one operation at a time.
LEMMA NextType == TypeOK /\ [Next]_vars => TypeOK'
  <1> SUFFICES ASSUME TypeOK, [Next]_vars  PROVE TypeOK'
    OBVIOUS
  <1> USE ConstantsAssumption
  <1>1. ASSUME NEW id \in Ids, buffer_share_add_id(id)  PROVE TypeOK'
    <2>1. Taken(id) \in Slot
      BY DEF Taken, Slot, Offsets
    <2>2. CASE find_id(id) # {}
      BY <1>1, <2>2 DEF buffer_share_add_id, TypeOK, Slots
    <2>3. CASE find_id(id) = {} /\ find_unused # {}
      <3>1. First(find_unused) \in Slots
        BY <2>3, FreeSlot DEF find_unused
      <3>2. /\ wr_idx' = [wr_idx EXCEPT ![First(find_unused)] = Taken(id)]
            /\ ret' = 0 /\ id_sz' = id_sz
        BY <1>1, <2>3 DEF buffer_share_add_id
      <3>3. QED  BY <2>1, <3>1, <3>2 DEF TypeOK, Slots, Offsets
    <2>4. CASE find_id(id) = {} /\ find_unused = {}
      <3>1. PICK grown \in alloc_more_ids :
               wr_idx' = [grown EXCEPT ![id_sz] = Taken(id)]
        BY <1>1, <2>4 DEF buffer_share_add_id
      <3>2. id_sz' = 2 * id_sz /\ ret' = 0
        BY <1>1, <2>4 DEF buffer_share_add_id
      <3>3. grown \in [0 .. 2 * id_sz - 1 -> Slot]
        BY Grown
      <3>4. QED  BY <2>1, <3>1, <3>2, <3>3 DEF TypeOK, Slots, Offsets
    <2>5. QED  BY <2>2, <2>3, <2>4
  <1>2. ASSUME NEW id \in Ids, buffer_share_rm_id(id)  PROVE TypeOK'
    <2>1. CASE find_id(id) = {}
      BY <1>2, <2>1 DEF buffer_share_rm_id, TypeOK, Slots
    <2>2. CASE find_id(id) # {}
      <3> DEFINE k == First(find_id(id))
      <3>1. k \in Slots
        BY <2>2, FoundSlot DEF find_id, Used
      <3>2. /\ wr_idx' = [wr_idx EXCEPT ![k].used = FALSE]
            /\ ret' = 0 /\ id_sz' = id_sz
        BY <1>2, <2>2 DEF buffer_share_rm_id
      <3>3. wr_idx' = [wr_idx EXCEPT ![k] = [wr_idx[k] EXCEPT !.used = FALSE]]
        BY <3>2
      <3>4. 0 \in Offsets /\ wr_idx[k] \in Slot
        BY <3>1 DEF TypeOK, Offsets
      <3>5. [wr_idx[k] EXCEPT !.used = FALSE] \in Slot
        BY <3>4, SlotUpdate
      <3> HIDE DEF k
      <3>6. QED  BY <3>1, <3>2, <3>3, <3>4, <3>5 DEF TypeOK, Slots
    <2>3. QED  BY <2>1, <2>2
  <1>3. ASSUME NEW id \in Ids, NEW delta \in Offsets,
               buffer_share_offset_update(id, delta)
        PROVE  TypeOK'
    <2> DEFINE hits == {i \in Slots : wr_idx[i].id = id}
               k == First(hits)
    <2>1. /\ wr_idx' = IF hits = {} THEN wr_idx
                       ELSE [wr_idx EXCEPT ![k].offset = (@ + delta) % Modulus]
          /\ ret' = 0 /\ id_sz' = id_sz
      BY <1>3 DEF buffer_share_offset_update
    <2>2. CASE hits = {}
      BY <2>1, <2>2 DEF TypeOK, Slots, Offsets
    <2>3. CASE hits # {}
      <3>1. k \in Slots
        <4>1. hits \in SUBSET Nat
          BY DEF TypeOK, Slots
        <4>2. QED  BY <2>3, <4>1, FirstIsLeast
      <3>2. (wr_idx[k].offset + delta) % Modulus \in Offsets
        BY <3>1, ModInOffsets DEF TypeOK, Slot, Offsets
      <3> DEFINE n == (wr_idx[k].offset + delta) % Modulus
      <3>3. wr_idx' = [wr_idx EXCEPT ![k] = [wr_idx[k] EXCEPT !.offset = n]]
        BY <2>1, <2>3
      <3>4. [wr_idx[k] EXCEPT !.offset = n] \in Slot
        BY <3>1, <3>2, SlotUpdate DEF TypeOK
      <3>5. 0 \in Offsets
        BY DEF Offsets
      <3> HIDE DEF n, k, hits
      <3>6. QED  BY <2>1, <3>1, <3>3, <3>4, <3>5 DEF TypeOK, Slots
    <2>4. QED  BY <2>2, <2>3
  <1>4. ASSUME NEW written \in Offsets, Subtract(written), id_sz' = id_sz
        PROVE  wr_idx' \in [Slots' -> Slot]
    <2>1. ASSUME NEW i \in Slots
          PROVE  [wr_idx[i] EXCEPT !.offset = (@ - written) % Modulus] \in Slot
      <3>1. (wr_idx[i].offset - written) % Modulus \in Offsets
        BY ModInOffsets DEF TypeOK, Slot, Offsets
      <3>2. QED  BY <3>1 DEF TypeOK, Slot
    <2>2. QED  BY <1>4, <2>1 DEF Subtract, Slots
  <1>5. ASSUME NEW written \in Offsets, buffer_share_update_write_point(written)
        PROVE  TypeOK'
    <2>1. CASE CanWrite(written)
      BY <1>4, <1>5, <2>1 DEF buffer_share_update_write_point, TypeOK, Offsets
    <2>2. CASE ~CanWrite(written)
      BY <1>5, <2>2 DEF buffer_share_update_write_point, TypeOK, Slots
    <2>3. QED  BY <2>1, <2>2
  <1>6. ASSUME buffer_share_get_new_write_point  PROVE TypeOK'
    BY <1>4, <1>6, MinimumOffset DEF buffer_share_get_new_write_point, TypeOK
  <1>7. ASSUME buffer_share_reset_write_point  PROVE TypeOK'
    <2>1. 0 \in Offsets
      BY DEF Offsets
    <2>2. ASSUME NEW i \in Slots
          PROVE  /\ wr_idx[i] \in Slot
                 /\ [wr_idx[i] EXCEPT !.offset = 0] \in Slot
      BY <2>1, SlotUpdate DEF TypeOK
    <2>3. QED
      BY <1>7, <2>1, <2>2 DEF buffer_share_reset_write_point, TypeOK, Slots
  <1>8. CASE UNCHANGED vars
    BY <1>8 DEF vars, TypeOK, Slots
  <1>9. QED
    BY <1>1, <1>2, <1>3, <1>5, <1>6, <1>7, <1>8 DEF Next

\* Every state of the slot array is well typed: the offsets stay unsigned
\* ints through buffer_share_update_write_point's subtraction and the array
\* always has its id_sz slots.
THEOREM TypeCorrect == Spec => []TypeOK
  BY InitType, NextType, PTL DEF Spec

-----------------------------------------------------------------------------
LEMMA InitUsedIsFirst == Init => UsedIsFirst
  BY DEF Init, UsedIsFirst, Used, Slots

\* A step that keeps every id and turns no slot into a used one.
LEMMA SameIds ==
  ASSUME UsedIsFirst, id_sz' = id_sz,
         \A i \in Slots : wr_idx'[i].id = wr_idx[i].id,
         \A i \in Slots : wr_idx'[i].used => wr_idx[i].used
  PROVE  UsedIsFirst'
  BY DEF UsedIsFirst, Used, Slots

LEMMA NextUsedIsFirst == TypeOK /\ UsedIsFirst /\ [Next]_vars => UsedIsFirst'
  <1> SUFFICES ASSUME TypeOK, UsedIsFirst, [Next]_vars  PROVE UsedIsFirst'
    OBVIOUS
  <1> USE ConstantsAssumption
  <1>1. ASSUME NEW id \in Ids, buffer_share_add_id(id)  PROVE UsedIsFirst'
    <2>1. Taken(id) \in Slot /\ Taken(id).used /\ Taken(id).id = id
      BY DEF Taken, Slot, Offsets
    <2>2. CASE find_id(id) # {}
      BY <1>1, <2>2, SameIds DEF buffer_share_add_id
    <2>3. CASE find_id(id) = {} /\ find_unused # {}
      <3> DEFINE k == First(find_unused)
      <3>1. k \in Slots /\ ~wr_idx[k].used
        BY <2>3, FreeSlot DEF find_unused, Used
      <3>2. \A j \in Slots : j < k => wr_idx[j].used
        BY <2>3, FreeSlot DEF find_unused, Used, Slots, TypeOK
      <3>3. wr_idx' = [wr_idx EXCEPT ![k] = Taken(id)] /\ id_sz' = id_sz
        BY <1>1, <2>3 DEF buffer_share_add_id
      <3>4. \A i \in Slots : wr_idx[i].used => wr_idx[i].id # id
        BY <2>3 DEF find_id, Used
      <3> HIDE DEF k
      <3>5. QED
        BY <2>1, <3>1, <3>2, <3>3, <3>4 DEF UsedIsFirst, Used, Slots, TypeOK
    <2>4. CASE find_id(id) = {} /\ find_unused = {}
      <3>1. PICK grown \in alloc_more_ids :
               wr_idx' = [grown EXCEPT ![id_sz] = Taken(id)]
        BY <1>1, <2>4 DEF buffer_share_add_id
      <3>2. id_sz' = 2 * id_sz
        BY <1>1, <2>4 DEF buffer_share_add_id
      <3>3. /\ grown \in [0 .. 2 * id_sz - 1 -> Slot]
            /\ \A i \in Slots : grown[i] = wr_idx[i]
            /\ \A i \in id_sz .. 2 * id_sz - 1 : ~grown[i].used
        BY Grown
      <3>4. \A i \in Slots : wr_idx[i].used /\ wr_idx[i].id # id
        BY <2>4 DEF find_id, find_unused, Used
      <3>5. ASSUME NEW i \in Slots', NEW j \in Used', i < j
            PROVE  wr_idx'[i].id # wr_idx'[j].id
        <4>1. j \in Slots \/ j = id_sz
          BY <3>1, <3>2, <3>3, <3>5 DEF Used, Slots, TypeOK
        <4>2. i \in Slots
          BY <4>1, <3>5, <3>2 DEF Slots, TypeOK
        <4>3. wr_idx'[i] = wr_idx[i]
          BY <4>2, <3>1, <3>3 DEF Slots, TypeOK
        <4>4. CASE j \in Slots
          <5>1. wr_idx'[j] = wr_idx[j]
            BY <4>4, <3>1, <3>3 DEF Slots, TypeOK
          <5>2. QED  BY <4>2, <4>3, <4>4, <5>1, <3>4, <3>5 DEF UsedIsFirst, Used
        <4>5. CASE j = id_sz
          <5>1. wr_idx'[j] = Taken(id)
            BY <4>5, <3>1, <3>3 DEF TypeOK
          <5>2. QED  BY <5>1, <2>1, <3>4, <4>2, <4>3
        <4>6. QED  BY <4>1, <4>4, <4>5
      <3>6. QED  BY <3>5 DEF UsedIsFirst
    <2>5. QED  BY <2>2, <2>3, <2>4
  <1>2. ASSUME NEW id \in Ids, buffer_share_rm_id(id)  PROVE UsedIsFirst'
    <2>1. CASE find_id(id) = {}
      BY <1>2, <2>1, SameIds DEF buffer_share_rm_id
    <2>2. CASE find_id(id) # {}
      <3> DEFINE k == First(find_id(id))
      <3>1. /\ wr_idx' = [wr_idx EXCEPT ![k].used = FALSE]
            /\ id_sz' = id_sz
        BY <1>2, <2>2 DEF buffer_share_rm_id
      <3> HIDE DEF k
      <3>2. \A i \in Slots : /\ wr_idx'[i].id = wr_idx[i].id
                             /\ wr_idx'[i].used => wr_idx[i].used
        BY <3>1 DEF TypeOK, Slot
      <3>3. QED  BY <3>1, <3>2, SameIds
    <2>3. QED  BY <2>1, <2>2
  <1>3. ASSUME NEW id \in Ids, NEW delta \in Offsets,
               buffer_share_offset_update(id, delta)
        PROVE  UsedIsFirst'
    <2> DEFINE hits == {i \in Slots : wr_idx[i].id = id}
               k == First(hits)
    <2>1. /\ wr_idx' = IF hits = {} THEN wr_idx
                       ELSE [wr_idx EXCEPT ![k].offset = (@ + delta) % Modulus]
          /\ id_sz' = id_sz
      BY <1>3 DEF buffer_share_offset_update
    <2> HIDE DEF k, hits
    <2>2. \A i \in Slots : /\ wr_idx'[i].id = wr_idx[i].id
                           /\ wr_idx'[i].used => wr_idx[i].used
      BY <2>1 DEF TypeOK, Slot
    <2>3. QED  BY <2>1, <2>2, SameIds
  <1>4. ASSUME NEW written, Subtract(written), id_sz' = id_sz  PROVE UsedIsFirst'
    <2>1. \A i \in Slots : /\ wr_idx'[i].id = wr_idx[i].id
                           /\ wr_idx'[i].used => wr_idx[i].used
      BY <1>4 DEF Subtract, TypeOK, Slot
    <2>2. QED  BY <1>4, <2>1, SameIds
  <1>5. ASSUME UNCHANGED <<id_sz, wr_idx>>  PROVE UsedIsFirst'
    BY <1>5, SameIds
  <1>6. ASSUME NEW written \in Offsets, buffer_share_update_write_point(written)
        PROVE  UsedIsFirst'
    BY <1>4, <1>5, <1>6 DEF buffer_share_update_write_point
  <1>7. ASSUME buffer_share_get_new_write_point  PROVE UsedIsFirst'
    BY <1>4, <1>5, <1>7 DEF buffer_share_get_new_write_point
  <1>8. ASSUME buffer_share_reset_write_point  PROVE UsedIsFirst'
    <2>1. \A i \in Slots : /\ wr_idx'[i].id = wr_idx[i].id
                           /\ wr_idx'[i].used => wr_idx[i].used
      BY <1>8 DEF buffer_share_reset_write_point, TypeOK, Slot
    <2>2. QED  BY <1>8, <2>1, SameIds DEF buffer_share_reset_write_point
  <1>9. CASE UNCHANGED vars
    BY <1>5, <1>9 DEF vars
  <1>10. QED
    BY <1>1, <1>2, <1>3, <1>6, <1>7, <1>8, <1>9 DEF Next

\* The search of buffer_share_offset_update is safe: however the slots were
\* used, freed, reused and reallocated, the first slot with a user's id is
\* that user's slot.
THEOREM UsedIsFirstAlways == Spec => []UsedIsFirst
  BY InitUsedIsFirst, NextUsedIsFirst, TypeCorrect, PTL DEF Spec

-----------------------------------------------------------------------------
(* The refinement.  UserFacts says what the mapping is in terms of slots;  *)
(* every step is then compared with the abstract one user by user.         *)

UserFacts ==
  /\ UserOffsets = [u \in Users |-> UserOffsets[u]]
  /\ \A i \in Used : UserOffsets[wr_idx[i].id] = wr_idx[i].offset
  /\ \A i, j \in Used : wr_idx[i].id = wr_idx[j].id => i = j

LEMMA UserFactsHold == TypeOK /\ UsedIsFirst => UserFacts
  <1> SUFFICES ASSUME TypeOK, UsedIsFirst  PROVE UserFacts
    OBVIOUS
  <1>1. \A i, j \in Used : wr_idx[i].id = wr_idx[j].id => i = j
    BY DEF UsedIsFirst, Used, Slots, TypeOK
  <1>2. ASSUME NEW i \in Used
        PROVE  UserOffsets[wr_idx[i].id] = wr_idx[i].offset
    <2> DEFINE id == wr_idx[i].id
    <2>1. i \in find_id(id)
      BY DEF find_id
    <2>2. First(find_id(id)) \in find_id(id)
      BY <2>1, FoundSlot
    <2>3. First(find_id(id)) = i
      BY <1>1, <2>2 DEF find_id
    <2>4. buffer_share_id_offset(id) = wr_idx[i].offset
      BY <2>1, <2>3 DEF buffer_share_id_offset
    <2>5. id \in Users
      BY DEF Users
    <2>6. QED  BY <2>4, <2>5 DEF UserOffsets
  <1>3. QED
    BY <1>1, <1>2 DEF UserFacts, UserOffsets

LEMMA NextUserFacts ==
  TypeOK /\ UsedIsFirst /\ [Next]_vars => UserFacts /\ UserFacts'
  BY UserFactsHold, NextType, NextUsedIsFirst, PTL

LEMMA DomainOfUserOffsets == DOMAIN UserOffsets = Users
  BY DEF UserOffsets

\* Steps that touch neither the ids nor the set of used slots.
LEMMA SameUsers ==
  ASSUME id_sz' = id_sz,
         \A i \in Slots : /\ wr_idx'[i].id = wr_idx[i].id
                          /\ wr_idx'[i].used = wr_idx[i].used
  PROVE  Used' = Used /\ Users' = Users
  BY DEF Used, Users, Slots

LEMMA InitRefines == Init => Abstract!Init
  <1> SUFFICES ASSUME Init  PROVE Abstract!Init
    OBVIOUS
  <1>1. Users = {} /\ ret = 0
    BY DEF Init, Users, Used, Slots
  <1>2. QED
    BY <1>1 DEF Abstract!Init, UserOffsets

LEMMA AddRefines ==
  ASSUME TypeOK, UserFacts, UserFacts',
         NEW id \in Ids, buffer_share_add_id(id)
  PROVE  Abstract!AddUser(id)
  <1> USE ConstantsAssumption, DomainOfUserOffsets
  <1>0. Taken(id).used /\ Taken(id).id = id /\ Taken(id).offset = 0
    BY DEF Taken
  <1>1. id \in Users <=> find_id(id) # {}
    BY DEF Users, find_id
  <1>2. CASE find_id(id) # {}
    <2>1. UNCHANGED <<id_sz, wr_idx>> /\ ret' = EEXIST
      BY <1>1, <1>2 DEF buffer_share_add_id
    <2>2. UserOffsets' = UserOffsets
      BY <2>1 DEF UserOffsets, Users, Used, Slots, buffer_share_id_offset,
                  find_id, First
    <2>3. QED
      BY <1>1, <1>2, <2>1, <2>2
      DEF Abstract!AddUser, Abstract!Users, Abstract!EEXIST, EEXIST
  <1>3. CASE find_id(id) = {}
    <2>1. PICK k \in Slots' :
            /\ k \notin Used
            /\ Used' = Used \cup {k}
            /\ \A i \in Used : wr_idx'[i] = wr_idx[i]
            /\ wr_idx'[k] = Taken(id)
            /\ ret' = 0
      <3>1. CASE find_unused # {}
        <4> DEFINE k == First(find_unused)
        <4>1. k \in Slots /\ k \notin Used
          BY <3>1, FreeSlot DEF find_unused
        <4>2. /\ wr_idx' = [wr_idx EXCEPT ![k] = Taken(id)]
              /\ id_sz' = id_sz /\ ret' = 0
          BY <1>3, <3>1 DEF buffer_share_add_id
        <4> HIDE DEF k
        <4>3. Used' = Used \cup {k}
          BY <1>0, <4>1, <4>2 DEF Used, Slots, TypeOK
        <4>4. k \in Slots' /\ wr_idx'[k] = Taken(id)
          BY <4>1, <4>2 DEF TypeOK, Slots
        <4>5. \A i \in Used : wr_idx'[i] = wr_idx[i]
          BY <4>1, <4>2 DEF TypeOK, Used
        <4>6. QED  BY <4>1, <4>2, <4>3, <4>4, <4>5
      <3>2. CASE find_unused = {}
        <4>1. PICK grown \in alloc_more_ids :
                 wr_idx' = [grown EXCEPT ![id_sz] = Taken(id)]
          BY <1>3, <3>2 DEF buffer_share_add_id
        <4>2. id_sz' = 2 * id_sz /\ ret' = 0
          BY <1>3, <3>2 DEF buffer_share_add_id
        <4>3. /\ grown \in [0 .. 2 * id_sz - 1 -> Slot]
              /\ \A i \in Slots : grown[i] = wr_idx[i]
              /\ \A i \in id_sz .. 2 * id_sz - 1 : ~grown[i].used
          BY Grown
        <4>4. id_sz \in Slots' /\ id_sz \notin Used
          BY <4>2 DEF Slots, Used, TypeOK
        <4>5. wr_idx'[id_sz] = Taken(id)
          BY <4>1, <4>3 DEF TypeOK
        <4>6. \A i \in Slots' : i # id_sz => wr_idx'[i] = grown[i]
          BY <4>1, <4>2, <4>3 DEF Slots, TypeOK
        <4>7. \A i \in Slots : i \in Slots' /\ wr_idx'[i] = wr_idx[i]
          BY <4>2, <4>3, <4>6 DEF Slots, TypeOK
        <4>8. \A i \in Slots' : i \notin Slots /\ i # id_sz => ~wr_idx'[i].used
          BY <4>2, <4>3, <4>6 DEF Slots, TypeOK
        <4>9. Used' = Used \cup {id_sz}
          BY <1>0, <4>4, <4>5, <4>7, <4>8 DEF Used
        <4>10. QED  BY <4>2, <4>4, <4>5, <4>7, <4>9 DEF Used
      <3>3. QED  BY <3>1, <3>2
    <2>2. Users' = Users \cup {id}
      BY <1>0, <2>1 DEF Users
    <2>3. UserOffsets'[id] = 0
      BY <1>0, <2>1 DEF UserFacts
    <2>4. ASSUME NEW v \in Users  PROVE UserOffsets'[v] = UserOffsets[v]
      <3>1. PICK i \in Used : wr_idx[i].id = v
        BY DEF Users
      <3>2. i \in Used' /\ wr_idx'[i] = wr_idx[i]
        BY <2>1
      <3>3. QED  BY <3>1, <3>2 DEF UserFacts
    <2>5. UserOffsets' = [v \in Users \cup {id} |->
                            IF v = id THEN 0 ELSE UserOffsets[v]]
      BY <2>2, <2>3, <2>4 DEF UserFacts
    <2>6. QED
      BY <1>1, <1>3, <2>1, <2>5 DEF Abstract!AddUser, Abstract!Users
  <1>4. QED  BY <1>2, <1>3

LEMMA RemoveRefines ==
  ASSUME TypeOK, UserFacts, UserFacts',
         NEW id \in Ids, buffer_share_rm_id(id)
  PROVE  Abstract!RemoveUser(id)
  <1> USE DomainOfUserOffsets
  <1>1. id \in Users <=> find_id(id) # {}
    BY DEF Users, find_id
  <1>2. CASE find_id(id) = {}
    <2>1. UNCHANGED <<id_sz, wr_idx>> /\ ret' = ENOENT
      BY <1>2 DEF buffer_share_rm_id
    <2>2. UserOffsets' = UserOffsets
      BY <2>1 DEF UserOffsets, Users, Used, Slots, buffer_share_id_offset,
                  find_id, First
    <2>3. QED
      BY <1>1, <1>2, <2>1, <2>2
      DEF Abstract!RemoveUser, Abstract!Users, Abstract!ENOENT, ENOENT
  <1>3. CASE find_id(id) # {}
    <2> DEFINE k == First(find_id(id))
    <2>1. k \in Used /\ wr_idx[k].id = id
      BY <1>3, FoundSlot DEF find_id
    <2>2. /\ wr_idx' = [wr_idx EXCEPT ![k].used = FALSE]
          /\ id_sz' = id_sz /\ ret' = 0
      BY <1>3 DEF buffer_share_rm_id
    <2> HIDE DEF k
    <2>3. ~wr_idx'[k].used
      BY <2>1, <2>2 DEF TypeOK, Used, Slot
    <2>4. \A i \in Slots : i # k => wr_idx'[i] = wr_idx[i]
      BY <2>2 DEF TypeOK
    <2>5. Used' = Used \ {k}
      BY <2>2, <2>3, <2>4 DEF Used, Slots
    <2>6. Users' = Users \ {id}
      <3>1. ASSUME NEW i \in Used, i # k
            PROVE  wr_idx'[i].id = wr_idx[i].id /\ wr_idx[i].id # id
        BY <2>1, <2>4, <3>1 DEF UserFacts, Used
      <3>2. QED  BY <2>1, <2>5, <3>1 DEF Users
    <2>7. ASSUME NEW v \in Users \ {id}  PROVE UserOffsets'[v] = UserOffsets[v]
      <3>1. PICK i \in Used : wr_idx[i].id = v
        BY DEF Users
      <3>2. i # k
        BY <2>1, <3>1
      <3>3. i \in Used' /\ wr_idx'[i] = wr_idx[i]
        BY <2>4, <2>5, <3>2 DEF Used
      <3>4. QED  BY <3>1, <3>3 DEF UserFacts
    <2>8. UserOffsets' = [v \in Users \ {id} |-> UserOffsets[v]]
      BY <2>6, <2>7 DEF UserFacts
    <2>9. QED
      BY <1>1, <1>3, <2>2, <2>8 DEF Abstract!RemoveUser, Abstract!Users
  <1>4. QED  BY <1>2, <1>3

LEMMA AdvanceRefines ==
  ASSUME TypeOK, UsedIsFirst, UserFacts, UserFacts',
         NEW id \in Ids, NEW delta \in Offsets,
         buffer_share_offset_update(id, delta)
  PROVE  Abstract!Advance(id, delta)
  <1> USE ConstantsAssumption, DomainOfUserOffsets
  <1> DEFINE hits == {i \in Slots : wr_idx[i].id = id}
             k == First(hits)
  <1>1. /\ wr_idx' = IF hits = {} THEN wr_idx
                     ELSE [wr_idx EXCEPT ![k].offset = (@ + delta) % Modulus]
        /\ ret' = 0 /\ id_sz' = id_sz
    BY DEF buffer_share_offset_update
  <1>2. hits # {} => k \in hits /\ \A j \in hits : k <= j
    <2>1. hits \in SUBSET Nat
      BY DEF TypeOK, Slots
    <2>2. QED  BY <2>1, FirstIsLeast
  <1>3. \A i \in hits : i \in Slots /\ wr_idx[i].id = id
    OBVIOUS
  <1>4. \A i \in Used : wr_idx[i].id = id => i \in hits
    BY DEF Used
  \* The hit is the user's own slot, because nothing before it has its id.
  <1>5. ASSUME NEW i \in Used, wr_idx[i].id = id  PROVE i = k
    BY <1>2, <1>3, <1>4, <1>5 DEF UsedIsFirst, Used, Slots, TypeOK
  <1> HIDE DEF k, hits
  <1>6. \A i \in Slots : /\ wr_idx'[i].id = wr_idx[i].id
                         /\ wr_idx'[i].used = wr_idx[i].used
    BY <1>1 DEF TypeOK, Slot
  <1>7. Used' = Used /\ Users' = Users
    BY <1>1, <1>6, SameUsers
  <1>8. ASSUME NEW v \in Users
        PROVE  UserOffsets'[v] = IF v = id THEN (UserOffsets[v] + delta) % Modulus
                                 ELSE UserOffsets[v]
    <2>1. PICK i \in Used : wr_idx[i].id = v
      BY DEF Users
    <2>2. UserOffsets[v] = wr_idx[i].offset
      BY <2>1 DEF UserFacts
    <2>3. UserOffsets'[v] = wr_idx'[i].offset
      BY <2>1, <1>6, <1>7 DEF UserFacts, Used
    <2>4. CASE v = id
      <3>1. i = k /\ hits # {} /\ i \in Slots
        BY <1>4, <1>5, <2>1, <2>4 DEF Used
      <3>2. wr_idx'[i].offset = (wr_idx[i].offset + delta) % Modulus
        BY <1>1, <3>1 DEF TypeOK, Slot
      <3>3. QED  BY <2>2, <2>3, <2>4, <3>2
    <2>5. CASE v # id
      <3>1. hits = {} \/ i # k
        BY <1>2, <1>3, <2>1, <2>5
      <3>2. wr_idx'[i] = wr_idx[i]
        BY <1>1, <3>1 DEF TypeOK, Used
      <3>3. QED  BY <2>2, <2>3, <2>5, <3>2
    <2>6. QED  BY <2>4, <2>5
  <1>9. UserOffsets' = [v \in Users |->
                          IF v = id THEN (UserOffsets[v] + delta) % Modulus
                          ELSE UserOffsets[v]]
    BY <1>7, <1>8 DEF UserFacts
  <1>10. QED
    BY <1>1, <1>9 DEF Abstract!Advance, Abstract!Users

\* The test over slots is the test over users.
LEMMA CanWriteUsers ==
  ASSUME TypeOK, UserFacts, NEW n
  PROVE  CanWrite(n) <=> \A u \in Users : UserOffsets[u] >= n
  BY DEF UserFacts, Users, CanWrite

LEMMA MoveRefines ==
  ASSUME TypeOK, UserFacts, UserFacts', NEW n \in Offsets, NEW value,
         CanWrite(n), Subtract(n), id_sz' = id_sz, ret' = value
  PROVE  Abstract!MovePoint(n, value)
  <1> USE ConstantsAssumption, DomainOfUserOffsets
  <1>1. \A i \in Slots : /\ wr_idx'[i].id = wr_idx[i].id
                         /\ wr_idx'[i].used = wr_idx[i].used
                         /\ wr_idx'[i].offset = (wr_idx[i].offset - n) % Modulus
    BY DEF Subtract, TypeOK, Slot
  <1>2. Used' = Used /\ Users' = Users
    BY <1>1, SameUsers
  <1>3. ASSUME NEW v \in Users  PROVE UserOffsets'[v] = UserOffsets[v] - n
    <2>1. PICK i \in Used : wr_idx[i].id = v
      BY DEF Users
    <2>2. /\ UserOffsets[v] = wr_idx[i].offset
          /\ UserOffsets'[v] = (wr_idx[i].offset - n) % Modulus
      BY <1>1, <1>2, <2>1 DEF UserFacts, Used
    <2>3. wr_idx[i].offset \in Offsets /\ wr_idx[i].offset >= n
      BY DEF CanWrite, Used, TypeOK, Slot
    <2>4. (wr_idx[i].offset - n) % Modulus = wr_idx[i].offset - n
      BY <2>3 DEF Offsets
    <2>5. QED  BY <2>2, <2>4
  <1>4. UserOffsets' = [u \in Users |-> UserOffsets[u] - n]
    BY <1>2, <1>3 DEF UserFacts
  <1>5. QED
    BY <1>4, CanWriteUsers DEF Abstract!MovePoint, Abstract!Users

LEMMA UpdateRefines ==
  ASSUME TypeOK, UserFacts, UserFacts',
         NEW n \in Offsets, buffer_share_update_write_point(n)
  PROVE  Abstract!MovePoint(n, 0)
  <1>1. CASE CanWrite(n)
    BY <1>1, MoveRefines DEF buffer_share_update_write_point
  <1>2. CASE ~CanWrite(n)
    <2>1. UNCHANGED <<id_sz, wr_idx>> /\ ret' = EINVAL
      BY <1>2 DEF buffer_share_update_write_point
    <2>2. UserOffsets' = UserOffsets
      BY <2>1 DEF UserOffsets, Users, Used, Slots, buffer_share_id_offset,
                  find_id, First
    <2>3. QED
      BY <1>2, <2>1, <2>2, CanWriteUsers, DomainOfUserOffsets
      DEF Abstract!MovePoint, Abstract!Users, Abstract!EINVAL, EINVAL
  <1>3. QED  BY <1>1, <1>2

\* The minimum the loop computes is the slowest user's offset.
LEMMA MinimumIsSlowest ==
  ASSUME TypeOK, UserFacts
  PROVE  LET m == buffer_share_get_minimum_offset
         IN  \/ /\ m = 0
                /\ ~\E n \in 0 .. BufSz : /\ \E u \in Users : UserOffsets[u] = n
                                          /\ \A u \in Users : n <= UserOffsets[u]
             \/ /\ m \in 0 .. BufSz
                /\ \E u \in Users : UserOffsets[u] = m
                /\ \A u \in Users : m <= UserOffsets[u]
  <1> DEFINE offsets == {wr_idx[i].offset : i \in Used} \cap 0 .. BufSz
             m == buffer_share_get_minimum_offset
  <1>1. m = IF offsets = {} THEN 0 ELSE First(offsets)
    BY DEF buffer_share_get_minimum_offset
  <1>2. CASE offsets = {}
    <2>1. \A u \in Users : UserOffsets[u] \notin 0 .. BufSz
      BY <1>2 DEF UserFacts, Users
    <2>2. QED  BY <1>1, <1>2, <2>1
  <1>3. CASE offsets # {}
    <2>1. offsets \in SUBSET Nat
      BY ConstantsAssumption
    <2>2. m \in offsets
      <3> HIDE DEF m, offsets
      <3> QED  BY <1>1, <1>3, <2>1, FirstIsLeast
    <2>3. \E u \in Users : UserOffsets[u] = m
      BY <2>2 DEF UserFacts, Users
    <2>4. CanWrite(m)
      BY MinimumOffset
    <2>5. \A i \in Used : wr_idx[i].offset \in Nat
      BY ConstantsAssumption DEF TypeOK, Used, Slot, Offsets
    <2>6. m \in Nat
      BY <2>1, <2>2
    <2>7. \A u \in Users : m <= UserOffsets[u]
      <3> HIDE DEF m
      <3> QED  BY <2>4, <2>5, <2>6 DEF CanWrite, UserFacts, Users
    <2>8. QED  BY <2>2, <2>3, <2>7
  <1>4. QED  BY <1>2, <1>3

LEMMA CatchUpRefines ==
  ASSUME TypeOK, UserFacts, UserFacts', buffer_share_get_new_write_point
  PROVE  Abstract!CatchUp
  <1> DEFINE m == buffer_share_get_minimum_offset
  <1> USE ConstantsAssumption, DomainOfUserOffsets
  <1>1. m \in Offsets /\ CanWrite(m)
    BY MinimumOffset
  <1>2. Subtract(m) /\ ret' = m /\ id_sz' = id_sz
    BY <1>1 DEF buffer_share_get_new_write_point
  <1>3. Abstract!MovePoint(m, m)
    <2> HIDE DEF m
    <2> QED  BY <1>1, <1>2, MoveRefines
  <1>4. CASE /\ m = 0
             /\ ~\E n \in 0 .. BufSz : /\ \E u \in Users : UserOffsets[u] = n
                                       /\ \A u \in Users : n <= UserOffsets[u]
    <2>1. \A u \in Users : UserOffsets[u] \in Offsets
      BY DEF UserFacts, Users, TypeOK, Used, Slot
    <2>2. UserOffsets' = [u \in Users |-> UserOffsets[u] - 0]
      BY <1>1, <1>3, <1>4, CanWriteUsers DEF Abstract!MovePoint, Abstract!Users
    <2>3. UserOffsets' = UserOffsets
      BY <2>1, <2>2 DEF UserFacts, Offsets
    <2>4. QED
      BY <1>2, <1>4, <2>3 DEF Abstract!CatchUp, Abstract!Users
  <1>5. CASE /\ m \in 0 .. BufSz
             /\ \E u \in Users : UserOffsets[u] = m
             /\ \A u \in Users : m <= UserOffsets[u]
    <2> HIDE DEF m
    <2> QED  BY <1>3, <1>5 DEF Abstract!CatchUp, Abstract!Users
  <1>6. QED  BY <1>4, <1>5, MinimumIsSlowest

LEMMA RestartRefines ==
  ASSUME TypeOK, UserFacts, UserFacts', buffer_share_reset_write_point
  PROVE  Abstract!Restart
  <1>1. \A i \in Slots : /\ wr_idx'[i].id = wr_idx[i].id
                         /\ wr_idx'[i].used = wr_idx[i].used
                         /\ wr_idx[i].used => wr_idx'[i].offset = 0
    BY DEF buffer_share_reset_write_point, TypeOK, Slot
  <1>2. Used' = Used /\ Users' = Users
    BY <1>1, SameUsers DEF buffer_share_reset_write_point
  <1>3. \A v \in Users : UserOffsets'[v] = 0
    BY <1>1, <1>2 DEF UserFacts, Users, Used
  <1>4. UserOffsets' = [u \in Users |-> 0]
    BY <1>2, <1>3 DEF UserFacts
  <1>5. QED
    BY <1>4, DomainOfUserOffsets
    DEF Abstract!Restart, Abstract!Users, buffer_share_reset_write_point

LEMMA NextRefines ==
  TypeOK /\ UsedIsFirst /\ [Next]_vars => [Abstract!Next]_(Abstract!svars)
  <1> SUFFICES ASSUME TypeOK, UsedIsFirst, [Next]_vars
               PROVE  [Abstract!Next]_(Abstract!svars)
    OBVIOUS
  <1>0. UserFacts /\ UserFacts'
    BY NextUserFacts
  <1>1. ASSUME NEW id \in Ids, buffer_share_add_id(id)  PROVE Abstract!Next
    BY <1>0, <1>1, AddRefines DEF Abstract!Next
  <1>2. ASSUME NEW id \in Ids, buffer_share_rm_id(id)  PROVE Abstract!Next
    BY <1>0, <1>2, RemoveRefines DEF Abstract!Next
  <1>3. ASSUME NEW id \in Ids, NEW delta \in Offsets,
               buffer_share_offset_update(id, delta)
        PROVE  Abstract!Next
    BY <1>0, <1>3, AdvanceRefines DEF Abstract!Next, Abstract!Offsets, Offsets
  <1>4. ASSUME NEW n \in Offsets, buffer_share_update_write_point(n)
        PROVE  Abstract!Next
    BY <1>0, <1>4, UpdateRefines DEF Abstract!Next, Abstract!Offsets, Offsets
  <1>5. ASSUME buffer_share_get_new_write_point  PROVE Abstract!Next
    BY <1>0, <1>5, CatchUpRefines DEF Abstract!Next
  <1>6. ASSUME buffer_share_reset_write_point  PROVE Abstract!Next
    BY <1>0, <1>6, RestartRefines DEF Abstract!Next
  <1>7. CASE UNCHANGED vars
    BY <1>7 DEF vars, Abstract!svars, UserOffsets, Users, Used, Slots,
                buffer_share_id_offset, find_id, First
  <1>8. QED
    BY <1>1, <1>2, <1>3, <1>4, <1>5, <1>6, <1>7 DEF Next

\* buffer_share.c implements the set of users with offsets of SharedBuffer,
\* for any number of users, any reuse of slots and any junk in the memory
\* that alloc_more_ids obtains.
THEOREM Refinement == Spec => ImplementsSharedBuffer
  BY InitRefines, NextRefines, TypeCorrect, UsedIsFirstAlways, PTL
  DEF Spec, ImplementsSharedBuffer, Abstract!Spec
=============================================================================
