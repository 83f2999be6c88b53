----------------------------- MODULE PageProofs -----------------------------
(***************************************************************************)
(* Proofs about the slotted page of heapstore/src/page.rs (module Page),   *)
(* for every page size and every set of payloads.                          *)
(*                                                                         *)
(* TypeOK, DirectoryWellFormed and FreeSpaceSound are not inductive one by *)
(* one: the type of the offset add_value computes needs FreeSpaceSound     *)
(* (the record placed below the last slot does not underflow because that  *)
(* slot lies above the directory plus largest_free_space), the hole case   *)
(* needs every record to end inside the page, and id uniqueness needs the  *)
(* fact that ids are naturals.  IInv is their conjunction, and it is       *)
(* inductive.                                                              *)
(***************************************************************************)
EXTENDS Page, FiniteSetTheorems, TLAPS

(* Records end inside the page (the first conjunct of DirectoryWellFormed). *)
InBounds == \A k \in 1..Len(slots) : End(k) <= PAGE_SIZE

(* Slot ids are unique (the second conjunct of DirectoryWellFormed). *)
UniqueIds == \A j, k \in 1..Len(slots) : j # k => slots[j].slot_id # slots[k].slot_id

IInv == TypeOK /\ InBounds /\ UniqueIds /\ FreeSpaceSound

-----------------------------------------------------------------------------
(* Lemmas about the helpers.                                               *)

(* A nonempty set of naturals has a least element. *)
LEMMA NatSetHasMin ==
  ASSUME NEW T, T \subseteq Nat, T # {}
  PROVE  \E x \in T : \A y \in T : x <= y
<1>1. \E x \in T : \A y \in T : ~(<<y, x>> \in OpToRel(<, Nat))
  BY NatLessThanWellFounded, WFMin
<1>2. PICK x \in T : \A y \in T : ~(y < x)
  BY <1>1, Zenon DEF OpToRel
<1>. QED
  BY <1>2

(* Removing one entry of a sequence keeps the other entries, in order. *)
LEMMA RemoveAtProps ==
  ASSUME NEW S, NEW s \in Seq(S), NEW k \in 1..Len(s)
  PROVE  /\ RemoveAt(s, k) \in Seq(S)
         /\ Len(RemoveAt(s, k)) = Len(s) - 1
         /\ \A j \in 1..Len(RemoveAt(s, k)) :
              RemoveAt(s, k)[j] = s[IF j < k THEN j ELSE j + 1]
BY DEF RemoveAt

(* find_free always finds an unused id in 0..slot count: the directory has *)
(* only Len(slots) entries, so not all of the Len(slots) + 1 candidates    *)
(* can be taken, and the least free one satisfies the loop's condition.    *)
LEMMA NewSlotIdFresh ==
  ASSUME slots \in Seq(Slot)
  PROVE  NewSlotId \in 0..Len(slots) /\ NewSlotId \notin SlotIds
<1>. DEFINE L == Len(slots)
<1>1. \E i \in 0..L : i \notin SlotIds
  <2>1. [k \in 1..L |-> slots[k].slot_id] \in Surjection(1..L, SlotIds)
    BY DEF Surjection, SlotIds
  <2>2. IsFiniteSet(SlotIds) /\ Cardinality(SlotIds) <= L
    BY <2>1, FS_Surjection, FS_Interval
  <2>3. SUFFICES ASSUME 0..L \subseteq SlotIds PROVE FALSE
    OBVIOUS
  <2>4. L \in Nat
    OBVIOUS
  <2>5. Cardinality(0..L) = L + 1
    BY <2>4, FS_Interval
  <2>6. Cardinality(0..L) <= Cardinality(SlotIds)
    BY <2>2, <2>3, FS_Subset, Zenon
  <2>7. Cardinality(SlotIds) \in Nat
    BY <2>2, FS_CardinalityType
  <2>. QED
    BY <2>2, <2>4, <2>5, <2>6, <2>7
<1>. DEFINE U == {i \in 0..L : i \notin SlotIds}
<1>2. PICK m \in U : \A y \in U : m <= y
  <2>1. U \subseteq Nat /\ U # {}
    BY <1>1
  <2>. QED
    BY <2>1, NatSetHasMin
<1>3. m \in 0..L /\ m \notin SlotIds /\ \A j \in 0..(m - 1) : j \in SlotIds
  BY <1>2
<1>. QED
  BY <1>1, <1>3 DEF NewSlotId

(* Every offset find_free can return, on a page satisfying the invariant   *)
(* and for a value within largest_free_space, lies in the page, leaves     *)
(* room for the value, and lies above the directory plus the free space    *)
(* that will remain.                                                       *)
LEMMA StartIndexBounds ==
  ASSUME IInv, ~panicked, NEW len \in 1..PAGE_SIZE, len <= lfs
  PROVE  /\ StartIndex(len) \in 0..PAGE_SIZE
         /\ StartIndex(len) + len <= PAGE_SIZE
         /\ StartIndex(len) + len >= HeaderSize + lfs
<1>. USE PageSizeAssumption DEF HeaderSize, FixedHeader, PageIdSize, SlotCountSize, SlotSize
<1>0. /\ slots \in Seq(Slot)
      /\ lfs \in 0..PAGE_SIZE
      /\ HeaderSize + lfs <= PAGE_SIZE
      /\ \A k \in 1..Len(slots) : slots[k].slot_offset >= HeaderSize + lfs
  BY DEF IInv, TypeOK, FreeSpaceSound
<1>a. lfs \in 0..PAGE_SIZE /\ Len(slots) \in Nat
  BY <1>0
<1>1. CASE Len(slots) = 0
  BY <1>0, <1>1 DEF StartIndex
<1>2. CASE Len(slots) # 0 /\ FittingGaps(len) # {}
  <2>1. FittingGaps(len) \subseteq Nat
    BY DEF FittingGaps
  <2>2. FirstGap(len) \in FittingGaps(len)
    BY <1>2, <2>1, NatSetHasMin DEF FirstGap
  <2>3. PICK c \in 1..(Len(slots) - 1) :
              /\ GapFits(c, len)
              /\ StartIndex(len) = End(c + 1)
    BY <1>2, <2>2 DEF FittingGaps, StartIndex
  <2>4. StartIndex(len) = End(c + 1)
    BY <2>3
  <2>5. c \in 1..Len(slots) /\ c + 1 \in 1..Len(slots)
    BY <2>3
  <2>6. /\ slots[c].slot_offset \in 0..PAGE_SIZE
        /\ slots[c + 1].slot_offset \in 0..PAGE_SIZE
        /\ slots[c + 1].size \in 1..PAGE_SIZE
    <3>1. slots[c] \in Slot /\ slots[c + 1] \in Slot
      BY <1>0, <2>5
    <3>. QED
      BY <3>1 DEF Slot
  <2>7. slots[c + 1].slot_offset >= HeaderSize + lfs
    BY <1>0, <2>5
  <2>8. /\ End(c + 1) \in 0..PAGE_SIZE
        /\ End(c + 1) + len <= PAGE_SIZE
        /\ End(c + 1) >= HeaderSize + lfs
    <3>1. slots[c].slot_offset - End(c + 1) >= len
      BY <2>3 DEF GapFits
    <3>2. End(c + 1) = slots[c + 1].slot_offset + slots[c + 1].size
      BY DEF End
    <3>. QED
      BY <1>a, <2>6, <2>7, <3>1, <3>2
  <2>. DEFINE e == End(c + 1)
              h == HeaderSize + lfs
  <2>9. e \in Int /\ h \in Int
    BY <1>a, <2>8 DEF HeaderSize
  <2>. HIDE DEF e, h
  <2>. QED
    BY <1>a, <2>4, <2>8, <2>9
<1>3. CASE Len(slots) # 0 /\ FittingGaps(len) = {}
  <2>1. StartIndex(len) = slots[Len(slots)].slot_offset - len
    BY <1>3 DEF StartIndex
  <2>2. /\ slots[Len(slots)] \in Slot
        /\ slots[Len(slots)].slot_offset >= HeaderSize + lfs
    BY <1>0, <1>3
  <2>. QED
    BY <1>a, <2>1, <2>2 DEF Slot
<1>. QED
  BY <1>1, <1>2, <1>3
-----------------------------------------------------------------------------
(* The invariant holds initially and is kept by every operation.           *)

(* Page::new: an empty directory and PAGE_SIZE minus the fixed header free. *)
LEMMA InitIInv == Init => IInv
<1>. SUFFICES ASSUME Init PROVE IInv
  OBVIOUS
<1>1. TypeOK
  <2>1. slots \in Seq(Slot)
    BY DEF Init
  <2>2. lfs \in 0..PAGE_SIZE
    BY PageSizeAssumption DEF Init, FixedHeader, PageIdSize, SlotCountSize
  <2>3. data \in [Pos -> Byte]
    BY Zenon DEF Init, Byte
  <2>. QED
    BY <2>1, <2>2, <2>3 DEF Init, TypeOK
<1>2. InBounds /\ UniqueIds
  BY DEF Init, InBounds, UniqueIds
<1>3. FreeSpaceSound
  BY PageSizeAssumption
     DEF Init, FreeSpaceSound, HeaderSize, FixedHeader, PageIdSize, SlotCountSize, SlotSize
<1>. QED
  BY <1>1, <1>2, <1>3 DEF IInv

(* add_value's copy and push, for a value within largest_free_space on a  *)
(* live page: the new slot lies in the page, above the directory plus the  *)
(* free space left after the charge, and carries an id not yet used.       *)
LEMMA PlaceKeepsDirectory ==
  ASSUME IInv, ~panicked, NEW p \in Payloads, ValueLen[p] <= lfs, Place(p)
  PROVE  /\ slots' \in Seq(Slot)
         /\ Len(slots') = Len(slots) + 1
         /\ data' \in [Pos -> Byte]
         /\ InBounds' /\ UniqueIds'
         /\ \A k \in 1..Len(slots') :
              slots'[k].slot_offset >= HeaderSize + lfs - ValueLen[p]
<1>. DEFINE len == ValueLen[p]
            st  == StartIndex(len)
            ns  == [slot_id |-> NewSlotId, slot_offset |-> st, size |-> len]
            L   == Len(slots)
<1>. USE PageSizeAssumption DEF HeaderSize, FixedHeader, PageIdSize, SlotCountSize, SlotSize
<1>1. /\ slots \in Seq(Slot)
      /\ lfs \in 0..PAGE_SIZE
      /\ data \in [Pos -> Byte]
      /\ InBounds /\ UniqueIds
      /\ HeaderSize + lfs <= PAGE_SIZE
      /\ \A k \in 1..L : slots[k].slot_offset >= HeaderSize + lfs
  BY DEF IInv, TypeOK, FreeSpaceSound
<1>0. /\ L \in Nat /\ lfs \in Nat
      /\ \A k \in 1..L : /\ slots[k].slot_offset \in 0..PAGE_SIZE
                         /\ slots[k].size \in 1..PAGE_SIZE
  <2>1. \A k \in 1..L : slots[k] \in Slot
    BY <1>1
  <2>. QED
    BY <1>1, <2>1 DEF Slot
<1>2. /\ len \in 1..PAGE_SIZE
      /\ data' = WriteBytes(p, st)
      /\ slots' = Append(slots, ns)
  BY ValueLenAssumption DEF Place
<1>3. /\ st \in 0..PAGE_SIZE
      /\ st + len <= PAGE_SIZE
      /\ st + len >= HeaderSize + lfs
  BY <1>2, StartIndexBounds
<1>4. NewSlotId \in 0..L /\ NewSlotId \notin SlotIds
  BY <1>1, NewSlotIdFresh
<1>5. ns \in Slot
  BY <1>2, <1>3, <1>4 DEF Slot
<1>6. /\ slots' \in Seq(Slot)
      /\ Len(slots') = L + 1
      /\ \A k \in 1..L : slots'[k] = slots[k]
      /\ slots'[L + 1] = ns
  BY <1>1, <1>2, <1>5
<1>7. data' \in [Pos -> Byte]
  <2>1. \A i \in Pos : st <= i => <<p, i - st>> \in Payloads \X Pos
    BY <1>3 DEF Pos
  <2>2. \A i \in Pos : data[i] \in Byte
    BY <1>1
  <2>. QED
    BY <1>2, <2>1, <2>2 DEF WriteBytes, Byte
<1>8. InBounds'
  <2>1. SUFFICES ASSUME NEW k \in 1..(L + 1)
                 PROVE  slots'[k].slot_offset + slots'[k].size <= PAGE_SIZE
    BY <1>6 DEF InBounds, End
  <2>2. CASE k \in 1..L
    BY <1>1, <1>6, <2>2 DEF InBounds, End
  <2>3. CASE k = L + 1
    BY <1>3, <1>6, <2>3
  <2>. QED
    BY <2>2, <2>3
<1>9. UniqueIds'
  <2>1. SUFFICES ASSUME NEW j \in 1..(L + 1), NEW k \in 1..(L + 1), j # k
                 PROVE  slots'[j].slot_id # slots'[k].slot_id
    BY <1>6 DEF UniqueIds
  <2>2. \A i \in 1..L : slots'[i].slot_id # ns.slot_id
    BY <1>4, <1>6 DEF SlotIds
  <2>3. CASE j \in 1..L /\ k \in 1..L
    <3>1. slots'[j] = slots[j] /\ slots'[k] = slots[k]
      BY <1>6, <2>3
    <3>. QED
      BY <1>1, <2>1, <2>3, <3>1 DEF UniqueIds
  <2>4. CASE j = L + 1
    BY <1>6, <2>1, <2>2, <2>4
  <2>5. CASE k = L + 1
    BY <1>6, <2>1, <2>2, <2>5
  <2>. QED
    BY <2>1, <2>3, <2>4, <2>5
<1>10. ASSUME NEW k \in 1..(L + 1)
       PROVE  slots'[k].slot_offset >= HeaderSize + lfs - len
  <2>1. CASE k \in 1..L
    <3>1. slots'[k] = slots[k]
      BY <1>6, <2>1
    <3>2. slots[k].slot_offset >= HeaderSize + lfs
      BY <1>1, <2>1
    <3>. QED
      BY <1>0, <1>2, <2>1, <3>1, <3>2
  <2>2. CASE k = L + 1
    <3>1. slots'[k].slot_offset = st
      BY <1>6, <2>2
    <3>. QED
      BY <1>0, <1>2, <1>3, <3>1
  <2>. QED
    BY <2>1, <2>2
<1>. QED
  BY <1>6, <1>7, <1>8, <1>9, <1>10

(* add_value, success path: the charge of len + size_of::<Slot>() keeps    *)
(* the directory plus the free space below every record.                  *)
LEMMA AddValueIInv ==
  ASSUME IInv, NEW p \in Payloads, AddValue(p)
  PROVE  IInv'
<1>. DEFINE len == ValueLen[p]
<1>. USE PageSizeAssumption DEF HeaderSize, FixedHeader, PageIdSize, SlotCountSize, SlotSize
<1>1. /\ ~panicked /\ panicked' = panicked
      /\ len \in 1..PAGE_SIZE
      /\ len <= lfs /\ lfs >= len + SlotSize
      /\ lfs' = lfs - (len + SlotSize)
      /\ Place(p)
  BY ValueLenAssumption DEF AddValue
<1>2. /\ lfs \in 0..PAGE_SIZE /\ Len(slots) \in Nat
      /\ HeaderSize + lfs <= PAGE_SIZE
  BY <1>1 DEF IInv, TypeOK, FreeSpaceSound
<1>3. /\ slots' \in Seq(Slot)
      /\ Len(slots') = Len(slots) + 1
      /\ data' \in [Pos -> Byte]
      /\ InBounds' /\ UniqueIds'
      /\ \A k \in 1..Len(slots') : slots'[k].slot_offset >= HeaderSize + lfs - len
  BY <1>1, PlaceKeepsDirectory
<1>4. HeaderSize' + lfs' = HeaderSize + lfs - len
  BY <1>1, <1>2, <1>3
<1>5. TypeOK'
  BY <1>1, <1>2, <1>3 DEF TypeOK, IInv
<1>6. FreeSpaceSound'
  BY <1>1, <1>2, <1>3, <1>4 DEF FreeSpaceSound
<1>. QED
  BY <1>3, <1>5, <1>6 DEF IInv

(* add_value that panics in the charge has already copied the bytes and   *)
(* pushed the Slot: the directory stays well formed, and the free-space    *)
(* claim no longer applies to the dropped page.                            *)
LEMMA ChargePanicsIInv ==
  ASSUME IInv, NEW p \in Payloads, AddValueChargePanics(p)
  PROVE  IInv'
<1>1. /\ ~panicked /\ panicked' = TRUE /\ lfs' = lfs
      /\ ValueLen[p] <= lfs
      /\ Place(p)
  BY DEF AddValueChargePanics
<1>2. /\ slots' \in Seq(Slot)
      /\ data' \in [Pos -> Byte]
      /\ InBounds' /\ UniqueIds'
  BY <1>1, PlaceKeepsDirectory
<1>3. TypeOK'
  BY <1>1, <1>2 DEF IInv, TypeOK
<1>4. FreeSpaceSound'
  BY <1>1 DEF FreeSpaceSound
<1>. QED
  BY <1>2, <1>3, <1>4 DEF IInv

(* With unique ids, slot_vec.position finds the one entry of a live id. *)
LEMMA IndexOfLive ==
  ASSUME slots \in Seq(Slot), UniqueIds, NEW s \in SlotIds
  PROVE  IndexOf(s) \in 1..Len(slots) /\ slots[IndexOf(s)].slot_id = s
<1>1. PICK k0 \in 1..Len(slots) : slots[k0].slot_id = s
  BY DEF SlotIds
<1>2. \A j \in 1..(k0 - 1) : slots[j].slot_id # s
  BY <1>1 DEF UniqueIds
<1>. QED
  BY <1>1, <1>2 DEF IndexOf

(* delete_value of a live id: the remaining entries are entries of the old *)
(* directory, each once, and the directory shrinks by one Slot.            *)
LEMMA DeleteValueIInv ==
  ASSUME IInv, NEW s \in SlotIds, DeleteValue(s)
  PROVE  IInv'
<1>. DEFINE k  == IndexOf(s)
            L  == Len(slots)
            m(j) == IF j < k THEN j ELSE j + 1
<1>. USE PageSizeAssumption DEF HeaderSize, FixedHeader, PageIdSize, SlotCountSize, SlotSize
<1>1. /\ slots \in Seq(Slot)
      /\ lfs \in 0..PAGE_SIZE
      /\ data \in [Pos -> Byte]
      /\ InBounds /\ UniqueIds
      /\ HeaderSize + lfs <= PAGE_SIZE
      /\ \A j \in 1..L : slots[j].slot_offset >= HeaderSize + lfs
  <2>1. ~panicked
    BY DEF DeleteValue
  <2>. QED
    BY <2>1 DEF IInv, TypeOK, FreeSpaceSound
<1>2. k \in 1..L
  BY <1>1, IndexOfLive
<1>3. /\ slots' = RemoveAt(slots, k)
      /\ data' = IF s = 0 THEN ZeroRange(slots[1].slot_offset, PAGE_SIZE)
                          ELSE ZeroRange(slots[k].slot_offset, End(k))
      /\ lfs' = lfs /\ panicked' = panicked
  BY DEF DeleteValue
<1>4. /\ slots' \in Seq(Slot)
      /\ Len(slots') = L - 1
      /\ \A j \in 1..(L - 1) : m(j) \in 1..L /\ slots'[j] = slots[m(j)]
  <2>1. /\ RemoveAt(slots, k) \in Seq(Slot)
        /\ Len(RemoveAt(slots, k)) = L - 1
        /\ \A j \in 1..Len(RemoveAt(slots, k)) :
              RemoveAt(slots, k)[j] = slots[m(j)]
    BY <1>1, <1>2, RemoveAtProps
  <2>2. \A j \in 1..(L - 1) : m(j) \in 1..L
    BY <1>1, <1>2
  <2>. QED
    BY <1>3, <2>1, <2>2
<1>5. data' \in [Pos -> Byte]
  <2>1. \A lo, hi \in Int : ZeroRange(lo, hi) \in [Pos -> Byte]
    BY <1>1, Zenon DEF ZeroRange, Byte
  <2>2. slots[1].slot_offset \in Int /\ slots[k].slot_offset \in Int /\ End(k) \in Int
    <3>1. CASE L = 0
      BY <1>2, <3>1
    <3>2. CASE L # 0
      <4>1. slots[1] \in Slot /\ slots[k] \in Slot
        BY <1>1, <1>2, <3>2
      <4>. QED
        BY <4>1 DEF Slot, End
    <3>. QED
      BY <3>1, <3>2
  <2>. QED
    BY <1>3, <2>1, <2>2
<1>6. TypeOK'
  BY <1>1, <1>3, <1>4, <1>5 DEF TypeOK, IInv
<1>7. InBounds'
  BY <1>1, <1>4 DEF InBounds, End
<1>8. UniqueIds'
  <2>1. SUFFICES ASSUME NEW i \in 1..(L - 1), NEW j \in 1..(L - 1), i # j
                 PROVE  slots'[i].slot_id # slots'[j].slot_id
    BY <1>4 DEF UniqueIds
  <2>2. m(i) # m(j)
    BY <1>2, <2>1
  <2>. QED
    BY <1>1, <1>4, <2>1, <2>2 DEF UniqueIds
<1>9. FreeSpaceSound'
  <2>1. L \in Nat /\ L >= 1 /\ lfs \in Nat
    BY <1>1, <1>2
  <2>2. HeaderSize' = HeaderSize - SlotSize
    BY <1>4, <2>1
  <2>3. ASSUME NEW j \in 1..(L - 1)
        PROVE  slots'[j].slot_offset >= HeaderSize' + lfs'
    <3>1. m(j) \in 1..L /\ slots'[j] = slots[m(j)]
      BY <1>4
    <3>2. /\ slots[m(j)].slot_offset >= HeaderSize + lfs
          /\ slots[m(j)].slot_offset \in Nat
      <4>1. slots[m(j)] \in Slot
        BY <1>1, <3>1
      <4>2. slots[m(j)].slot_offset >= HeaderSize + lfs
        BY <1>1, <3>1
      <4>3. slots[m(j)].slot_offset \in Nat
        BY <4>1 DEF Slot
      <4>. QED
        BY <4>2, <4>3
    <3>. QED
      BY <1>3, <2>1, <2>2, <3>1, <3>2
  <2>. QED
    <3>1. ~panicked'
      BY <1>3 DEF DeleteValue
    <3>. QED
      BY <1>1, <1>3, <1>4, <2>1, <2>2, <2>3, <3>1 DEF FreeSpaceSound
<1>. QED
  BY <1>6, <1>7, <1>8, <1>9 DEF IInv
(* A panic in find_free leaves the page as it was. *)
LEMMA FindFreePanicsIInv ==
  ASSUME IInv, NEW p \in Payloads, AddValueFindFreePanics(p)
  PROVE  IInv'
<1>1. UNCHANGED <<slots, lfs, data>> /\ panicked' = TRUE
  BY DEF AddValueFindFreePanics
<1>. QED
  BY <1>1 DEF IInv, TypeOK, InBounds, UniqueIds, FreeSpaceSound, HeaderSize, End

LEMMA NextIInv == IInv /\ [Next]_vars => IInv'
<1>. SUFFICES ASSUME IInv, [Next]_vars PROVE IInv'
  OBVIOUS
<1>1. CASE \E p \in Payloads : AddValue(p)
  BY <1>1, AddValueIInv
<1>2. CASE \E p \in Payloads : AddValueFindFreePanics(p)
  BY <1>2, FindFreePanicsIInv
<1>5. CASE \E p \in Payloads : AddValueChargePanics(p)
  BY <1>5, ChargePanicsIInv
<1>3. CASE \E s \in SlotIds : DeleteValue(s)
  BY <1>3, DeleteValueIInv
<1>4. CASE UNCHANGED vars
  BY <1>4 DEF vars, IInv, TypeOK, InBounds, UniqueIds, FreeSpaceSound, HeaderSize, End
<1>. QED
  BY <1>1, <1>2, <1>3, <1>4, <1>5 DEF Next

-----------------------------------------------------------------------------
(* The page invariants, for every page size and payload set.               *)

(* Every reachable page state is well typed: offsets and sizes fit in the  *)
(* page, largest_free_space stays in 0..PAGE_SIZE (add_value's charge      *)
(* never goes below zero on the success path).                             *)
THEOREM TypeCorrect == Spec => []TypeOK
<1>1. IInv => TypeOK
  BY DEF IInv
<1>. QED
  BY InitIInv, NextIInv, <1>1, PTL DEF Spec

(* Every directory entry lies inside the page and no two entries share an  *)
(* id: find_free's id search always finds an unused id, and delete_value   *)
(* removes exactly the entry it looked up.                                 *)
THEOREM DirectoryWellFormedHolds == Spec => []DirectoryWellFormed
<1>1. IInv => DirectoryWellFormed
  BY DEF IInv, InBounds, UniqueIds, DirectoryWellFormed
<1>. QED
  BY InitIInv, NextIInv, <1>1, PTL DEF Spec

(* The header plus largest_free_space never reaches into a live record of  *)
(* an in-memory page: add_value's charge of len + size_of::<Slot>() pays   *)
(* for both the record and its directory entry.                            *)
THEOREM FreeSpaceSoundHolds == Spec => []FreeSpaceSound
<1>1. IInv => FreeSpaceSound
  BY DEF IInv
<1>. QED
  BY InitIInv, NextIInv, <1>1, PTL DEF Spec
=============================================================================
