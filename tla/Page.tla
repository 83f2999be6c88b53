-------------------------------- MODULE Page --------------------------------
(***************************************************************************)
(* The slotted page of the heap store (heapstore/src/page.rs), as one      *)
(* in-memory Page object driven through its mutating API.                  *)
(*                                                                         *)
(* State, as in `struct Page` / `struct Header`:                           *)
(*   slots  -- header.slots, the Vec<Slot> in insertion order; each entry  *)
(*             is [slot_id, slot_offset, size]                             *)
(*   lfs    -- header.largest_free_space (u16)                             *)
(*   data   -- the data array; a byte is Zero or <<p, k>>, byte k of      *)
(*             payload p                                                   *)
(*   panicked -- an arithmetic overflow panicked inside a call (tests and  *)
(*             the server run debug builds, where u16/usize underflow      *)
(*             panics); the page takes no further calls                    *)
(*                                                                         *)
(* Payloads are model values with a length; what a record holds is        *)
(* tracked byte by byte so that overlapping or zeroed records are visible  *)
(* to get_value.  get_bytes/from_bytes are used by the heap file and are   *)
(* modelled where pages are written and read back.                         *)
(***************************************************************************)
EXTENDS Naturals, Sequences, FiniteSets

CONSTANTS
  PAGE_SIZE,  \* common::PAGE_SIZE (4096 in the code, small here)
  Payloads,   \* the byte vectors callers insert, as model values
  ValueLen,   \* ValueLen[p] = bytes.len() of payload p
  Zero        \* a data byte that holds 0 (fresh page or zeroed by delete)

(* Sizes the code takes from mem::size_of. *)
PageIdSize    == 2   \* size_of::<PageId>()  (u16)
SlotCountSize == 2   \* size_of::<u16>()
SlotSize      == 6   \* size_of::<Slot>()    (three u16 fields)
FixedHeader   == PageIdSize + SlotCountSize

ASSUME PageSizeAssumption == PAGE_SIZE \in Nat /\ PAGE_SIZE > FixedHeader
ASSUME ValueLenAssumption == ValueLen \in [Payloads -> 1..PAGE_SIZE]
ASSUME ZeroAssumption     == Zero \notin Payloads \X Nat

Pos  == 0..(PAGE_SIZE - 1)
Byte == (Payloads \X Pos) \cup {Zero}
Slot == [slot_id : Nat, slot_offset : 0..PAGE_SIZE, size : 1..PAGE_SIZE]

VARIABLES slots, lfs, data, panicked

vars == <<slots, lfs, data, panicked>>

-----------------------------------------------------------------------------
(* Helpers over the slot directory.                                        *)

SlotIds == {slots[k].slot_id : k \in 1..Len(slots)}

End(k) == slots[k].slot_offset + slots[k].size

(* Header::get_size: page id, slot count, one Slot per live entry. *)
HeaderSize == FixedHeader + SlotSize * Len(slots)

(* Mutant of NewSlotId: the next id is the slot count, as if ids were    *)
(* never reused after a delete.                                            *)
NewSlotIdCount == Len(slots)

(* find_free, slot id part: walk the sorted ids and take the first i with  *)
(* id_vec[i] # i; when there is none the loop stops at i = id_vec.len().   *)
NewSlotId ==
  IF \E i \in 0..Len(slots) : i \notin SlotIds
  THEN CHOOSE i \in 0..Len(slots) :
         /\ i \notin SlotIds
         /\ \A j \in 0..(i - 1) : j \in SlotIds
  ELSE Len(slots)

(* find_free, offset part: a pair of neighbours in Vec order (not offset   *)
(* order) whose hole between slot c+1's end and slot c's start fits len.   *)
GapFits(c, len) ==
  /\ slots[c].slot_offset > End(c + 1)
  /\ slots[c].slot_offset - End(c + 1) >= len

FittingGaps(len) == {c \in 1..(Len(slots) - 1) : GapFits(c, len)}

FirstGap(len) == CHOOSE c \in FittingGaps(len) : \A d \in FittingGaps(len) : c <= d

(* With no fitting pair the record goes below the LAST slot of the Vec:    *)
(* `slot_offset - input_size as u16`, which underflows (and panics) when   *)
(* the value is longer than that offset.                                   *)
BelowLastUnderflows(len) ==
  /\ Len(slots) > 0
  /\ FittingGaps(len) = {}
  /\ slots[Len(slots)].slot_offset < len

StartIndex(len) ==
  IF Len(slots) = 0 THEN PAGE_SIZE - len
  ELSE IF FittingGaps(len) # {} THEN End(FirstGap(len) + 1)
  ELSE slots[Len(slots)].slot_offset - len

WriteBytes(p, start) ==
  [i \in Pos |-> IF start <= i /\ i < start + ValueLen[p]
                 THEN <<p, i - start>> ELSE data[i]]

ZeroRange(lo, hi) == [i \in Pos |-> IF lo <= i /\ i < hi THEN Zero ELSE data[i]]

RemoveAt(s, k) == [j \in 1..(Len(s) - 1) |-> IF j < k THEN s[j] ELSE s[j + 1]]

(* slot_vec.position(|s| s.slot_id == slot_id) *)
IndexOf(s) == CHOOSE k \in 1..Len(slots) :
                /\ slots[k].slot_id = s
                /\ \A j \in 1..(k - 1) : slots[j].slot_id # s

-----------------------------------------------------------------------------
(* Read-only operations, used by the properties.                           *)

(* get_value: the bytes at the slot's offset, or None. *)
None == <<"None">>
GetValue(s) ==
  IF s \notin SlotIds THEN None
  ELSE LET k == IndexOf(s)
       IN  [j \in 1..slots[k].size |-> data[slots[k].slot_offset + j - 1]]

(* The bytes a payload is made of. *)
Bytes(p) == [j \in 1..ValueLen[p] |-> <<p, j - 1>>]

(* PageIter::next probes slot ids 0..slot_count, where slot_count is the   *)
(* number of live slots when the iterator was made, and yields those that  *)
(* get_value finds.                                                        *)
IterIds == {i \in 0..Len(slots) : i \in SlotIds}

-----------------------------------------------------------------------------
(* Operations.                                                             *)

Init ==
  /\ slots = <<>>
  /\ lfs = PAGE_SIZE - FixedHeader
  /\ data = [i \in Pos |-> Zero]
  /\ panicked = FALSE

(* add_value after find_free: copy the bytes to the chosen offset and push *)
(* the new Slot.                                                           *)
Place(p) ==
  LET len == ValueLen[p] IN
  /\ data' = WriteBytes(p, StartIndex(len))
  /\ slots' = Append(slots, [slot_id |-> NewSlotId,
                             slot_offset |-> StartIndex(len),
                             size |-> len])

(* Mutant of AddValue: the charge leaves out the new Slot entry. *)
AddValueNoSlotCharge(p) ==
  LET len == ValueLen[p] IN
  /\ ~panicked
  /\ ~BelowLastUnderflows(len)
  /\ len <= lfs
  /\ lfs >= len + SlotSize
  /\ Place(p)
  /\ lfs' = lfs - len
  /\ UNCHANGED panicked

(* Mutant of AddValue: only input_len <= largest_free_space is checked    *)
(* before the charge, as if the subtraction could not go below zero.       *)
AddValueChargeUnchecked(p) ==
  LET len == ValueLen[p] IN
  /\ ~panicked
  /\ ~BelowLastUnderflows(len)
  /\ len <= lfs
  /\ Place(p)
  /\ lfs' = lfs - (len + SlotSize)
  /\ UNCHANGED panicked

(* add_value succeeds: find_free picks id and offset, the bytes are        *)
(* copied, the slot is pushed and largest_free_space is charged for the    *)
(* value and one Slot.  (input_len > largest_free_space returns None and   *)
(* changes nothing.)                                                       *)
AddValue(p) ==
  LET len == ValueLen[p] IN
  /\ ~panicked
  /\ ~BelowLastUnderflows(len)
  /\ len <= lfs
  /\ lfs >= len + SlotSize
  /\ Place(p)
  /\ lfs' = lfs - (len + SlotSize)
  /\ UNCHANGED panicked

(* add_value panics in find_free: the u16 subtraction below the last slot  *)
(* underflows.  find_free runs before the free-space check, so this        *)
(* happens even for values add_value would have refused.                   *)
AddValueFindFreePanics(p) ==
  /\ ~panicked
  /\ BelowLastUnderflows(ValueLen[p])
  /\ panicked' = TRUE
  /\ UNCHANGED <<slots, lfs, data>>

(* add_value passes the check input_len <= largest_free_space, copies the  *)
(* bytes and pushes the Slot, and then                                     *)
(* `largest_free_space -= input_len + size_of::<Slot>()` underflows.       *)
AddValueChargePanics(p) ==
  LET len == ValueLen[p] IN
  /\ ~panicked
  /\ ~BelowLastUnderflows(len)
  /\ len <= lfs
  /\ lfs < len + SlotSize
  /\ Place(p)
  /\ panicked' = TRUE
  /\ UNCHANGED lfs

(* delete_value of a live slot: zero its bytes and remove its entry.  For  *)
(* slot id 0 the code zeroes from the offset of slot_vec[0] -- the first   *)
(* entry of the Vec, whatever its id -- to the end of the page.  The       *)
(* free-space counter is left as it is.  (An unknown id returns None.)     *)
DeleteValue(s) ==
  LET k == IndexOf(s) IN
  /\ ~panicked
  /\ s \in SlotIds
  /\ data' = IF s = 0 THEN ZeroRange(slots[1].slot_offset, PAGE_SIZE)
                      ELSE ZeroRange(slots[k].slot_offset, End(k))
  /\ slots' = RemoveAt(slots, k)
  /\ UNCHANGED <<lfs, panicked>>

Next ==
  \/ \E p \in Payloads : AddValue(p)
  \/ \E p \in Payloads : AddValueFindFreePanics(p)
  \/ \E p \in Payloads : AddValueChargePanics(p)
  \/ \E s \in SlotIds : DeleteValue(s)

Spec == Init /\ [][Next]_vars

-----------------------------------------------------------------------------
(* Properties.                                                             *)

(* Type invariant of the page state. *)
TypeOK ==
  /\ slots \in Seq(Slot)
  /\ lfs \in 0..PAGE_SIZE
  /\ data \in [Pos -> Byte]
  /\ panicked \in BOOLEAN

(* Every directory entry lies inside the page, and slot ids are unique     *)
(* (find_free's id search in add_value, and delete_value removing exactly  *)
(* one entry).                                                             *)
DirectoryWellFormed ==
  /\ \A k \in 1..Len(slots) : End(k) <= PAGE_SIZE
  /\ \A j, k \in 1..Len(slots) : j # k => slots[j].slot_id # slots[k].slot_id

(* The free-space counter add_value trusts is sound for an in-memory page  *)
(* that has not panicked (a panic unwinds and drops the page): the         *)
(* directory plus largest_free_space still fit below every live record,    *)
(* so an accepted value never makes the header overlap data.  (add_value   *)
(* charges every insert, delete_value never credits, and the record goes   *)
(* either into a hole or below some existing record.)                      *)
FreeSpaceSound ==
  ~panicked =>
    /\ HeaderSize + lfs <= PAGE_SIZE
    /\ \A k \in 1..Len(slots) : slots[k].slot_offset >= HeaderSize + lfs

(* Spec 4.1: live records occupy disjoint byte ranges.  find_free checks   *)
(* only Vec neighbours, so a hole can be handed out twice.                 *)
RecordsDisjoint ==
  \A j, k \in 1..Len(slots) :
    j # k => End(j) <= slots[k].slot_offset \/ End(k) <= slots[j].slot_offset

=============================================================================
