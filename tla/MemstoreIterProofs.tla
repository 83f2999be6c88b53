------------------------- MODULE MemstoreIterProofs -------------------------
(***************************************************************************)
(* Proof that ValueIterator of the memstore (storage_manager.rs) yields    *)
(* every value live when get_iterator cloned the map's Arc and still live *)
(* when next returns None (IterComplete), for every set of threads,       *)
(* containers and values and every MAX_SLOT.                              *)
(*                                                                         *)
(* The bound of the iteration is last_insert, read after the Arc was      *)
(* cloned, and the iterator walks the slot ids 0..max one by one.  That   *)
(* is enough because a key of any ContainerMap -- registered or already   *)
(* removed -- lies at or below last_insert of its container id, and       *)
(* last_insert never goes down while the process runs; an insert into    *)
(* the iterated map takes a slot id above every key the iterator started  *)
(* with, so the keys below `current` that it must yield never come back.  *)
(* create_container makes a map under a fresh generation, so it never     *)
(* replaces the map an iterator holds.                                    *)
(***************************************************************************)
EXTENDS MemstoreProofs

(* A registered ContainerMap is of a generation below gen: create_container*)
(* never makes a map under an instance already in use.                    *)
RegGen ==
  /\ gen \in [ContainerIds -> Nat]
  /\ \A c \in DOMAIN reg : reg[c][2] < gen[c]

(* Every key of every ContainerMap made in this process, removed ones     *)
(* included, lies at or below last_insert of its container id.            *)
MapsBelowLast ==
  \A i \in DOMAIN maps :
    DOMAIN maps[i] # {} =>
      /\ i[1] \in DOMAIN last
      /\ \A k \in DOMAIN maps[i] : k <= last[i[1]]

(* What an open ValueIterator of thread t knows: its map is an instance of *)
(* its container id and of an earlier generation; the keys it started     *)
(* with lie at or below last_insert and, once max is read, below max; and *)
(* every start key still in the map and below `current` has been yielded. *)
ItRec == [c : ContainerIds, inst : ContainerIds \X Nat, cur : Nat,
          max : Nat, start : SUBSET Slots, yielded : SUBSET Nat]

IterOK(t) ==
  pc[t] \in {"iter_max", "iter_next"} =>
    LET i == it[t] IN
    /\ i \in ItRec
    /\ i.inst \in DOMAIN maps
    /\ i.inst[1] = i.c /\ i.inst[2] < gen[i.c]
    /\ i.start # {} => i.c \in DOMAIN last /\ \A k \in i.start : k <= last[i.c]
    /\ pc[t] = "iter_next" => \A k \in i.start : k <= i.max
    /\ \A k \in i.start \cap DOMAIN maps[i.inst] : k < i.cur => k \in i.yielded

IterInv ==
  /\ DOMAIN it = Threads
  /\ RegGen /\ MapsBelowLast
  /\ \A t \in Threads : IterOK(t)


(* The iterator states of get_iterator and ValueIterator::next. *)
Iterating(t) == pc[t] \in {"iter_max", "iter_next"}

-----------------------------------------------------------------------------
(* Lemmas.                                                                 *)

(* A thread whose pc and iterator are untouched keeps IterOK when gen and  *)
(* last_insert only grow, no map an iterator may hold disappears, and     *)
(* every key a step adds to a map lies above last_insert of its id.        *)
LEMMA IterOKFrame ==
  ASSUME NEW s, IterOK(s), pc'[s] = pc[s], it'[s] = it[s],
         gen \in [ContainerIds -> Nat], gen' \in [ContainerIds -> Nat],
         \A c \in ContainerIds : gen[c] <= gen'[c],
         DOMAIN maps \subseteq DOMAIN maps',
         \A c \in DOMAIN last : /\ last[c] \in Nat /\ c \in DOMAIN last'
                                /\ last'[c] \in Nat /\ last[c] <= last'[c],
         \A i \in DOMAIN maps : \A k \in DOMAIN maps'[i] \ DOMAIN maps[i] :
           i[1] \in DOMAIN last => last[i[1]] < k
  PROVE  IterOK(s)'
<1>. DEFINE i == it[s]
<1>. SUFFICES ASSUME pc[s] \in {"iter_max", "iter_next"}
              PROVE  IterOK(s)'
  BY DEF IterOK
<1>1. /\ i \in ItRec
      /\ i.inst \in DOMAIN maps
      /\ i.inst[1] = i.c /\ i.inst[2] < gen[i.c]
      /\ i.start # {} => i.c \in DOMAIN last /\ \A k \in i.start : k <= last[i.c]
      /\ pc[s] = "iter_next" => \A k \in i.start : k <= i.max
      /\ \A k \in i.start \cap DOMAIN maps[i.inst] : k < i.cur => k \in i.yielded
  BY DEF IterOK
<1>2. i.inst[2] < gen'[i.c]
  BY <1>1 DEF ItRec
<1>3. i.start # {} => i.c \in DOMAIN last' /\ \A k \in i.start : k <= last'[i.c]
  BY <1>1, ConstantsAssumption DEF Slots, ItRec
<1>4. \A k \in i.start \cap DOMAIN maps'[i.inst] : k < i.cur => k \in i.yielded
  <2>. SUFFICES ASSUME NEW k \in i.start \cap DOMAIN maps'[i.inst], k < i.cur
                PROVE  k \in i.yielded
    OBVIOUS
  <2>1. CASE k \in DOMAIN maps[i.inst]
    BY <2>1, <1>1
  <2>2. CASE k \notin DOMAIN maps[i.inst]
    <3>1. i.c \in DOMAIN last /\ k <= last[i.c] /\ last[i.c] < k
      BY <2>2, <1>1
    <3>. QED
      BY <3>1, <1>1, ConstantsAssumption DEF Slots, ItRec
  <2>. QED
    BY <2>1, <2>2
<1>. QED
  BY <1>1, <1>2, <1>3, <1>4 DEF IterOK

(* A step that changes no map, gen or last_insert, takes thread t out of   *)
(* the iterator states and leaves every other thread alone keeps IterInv. *)
LEMMA LeaveIter ==
  ASSUME IterInv, NEW t \in Threads, ~Iterating(t)',
         \A s \in Threads \ {t} : pc'[s] = pc[s] /\ it'[s] = it[s],
         DOMAIN it' = Threads, UNCHANGED <<reg, maps, gen, last>>
  PROVE  IterInv'
<1>1. \A s \in Threads \ {t} : IterOK(s)'
  BY DEF IterInv, IterOK
<1>2. IterOK(t)'
  BY DEF IterOK, Iterating
<1>. QED
  BY <1>1, <1>2 DEF IterInv, RegGen, MapsBelowLast

(* Return and Panic take the thread out of the iterator states. *)
LEMMA ReturnPanicLeaves ==
  ASSUME NEW t \in Threads, DOMAIN pc = Threads, DOMAIN it = Threads,
         Return(t) \/ Panic(t)
  PROVE  /\ ~Iterating(t)' /\ DOMAIN it' = Threads
         /\ \A s \in Threads \ {t} : pc'[s] = pc[s] /\ it'[s] = it[s]
BY DEF Return, Panic, Iterating

(* StorageManager::new on an empty directory: no map, no iterator. *)
LEMMA InitIterInv == Init => IterInv
BY DEF Init, IterInv, RegGen, MapsBelowLast, IterOK, EmptyMap


(* A step that touches no map, gen, last_insert, pc or iterator. *)
LEMMA QuietStep ==
  ASSUME IterInv, UNCHANGED <<reg, maps, gen, last, pc, it>>
  PROVE  IterInv'
BY DEF IterInv, RegGen, MapsBelowLast, IterOK

(* Setting max of an iterator record. *)
LEMMA ItSetMax ==
  ASSUME NEW r \in ItRec, NEW m \in Nat
  PROVE  LET q == [r EXCEPT !.max = m] IN
         /\ q \in ItRec /\ q.max = m
         /\ q.c = r.c /\ q.inst = r.inst /\ q.cur = r.cur
         /\ q.start = r.start /\ q.yielded = r.yielded
BY Zenon DEF ItRec

(* One turn of next's loop on an iterator record. *)
LEMMA ItStep ==
  ASSUME NEW r \in ItRec, NEW y \in SUBSET Nat
  PROVE  LET q == [r EXCEPT !.cur = r.cur + 1, !.yielded = y] IN
         /\ q \in ItRec /\ q.cur = r.cur + 1 /\ q.yielded = y
         /\ q.c = r.c /\ q.inst = r.inst /\ q.max = r.max /\ q.start = r.start
<1>1. r.cur + 1 \in Nat
  BY DEF ItRec
<1>. QED
  BY <1>1, Zenon DEF ItRec


-----------------------------------------------------------------------------
(* One lemma per action that opens or moves an iterator.                   *)

(* get_iterator clones the Arc of the registered map: its keys are slot    *)
(* ids at or below last_insert, and none lies below current = 0.           *)
LEMMA IterOpenIterInv ==
  ASSUME IInv, IterInv, NEW t \in Threads, NEW c \in ContainerIds, IterOpen(t, c)
  PROVE  IterInv'
<1>. DEFINE R == [c |-> c, inst |-> reg[c], cur |-> 0, max |-> 0,
                  start |-> DOMAIN maps[reg[c]], yielded |-> {}]
<1>0. /\ c \in DOMAIN reg
      /\ pc' = [pc EXCEPT ![t] = "iter_max"] /\ it' = [it EXCEPT ![t] = R]
      /\ UNCHANGED <<reg, maps, gen, last>>
  BY DEF IterOpen
<1>1. DOMAIN pc = Threads /\ DOMAIN it = Threads
  BY DEF IInv, ShutdownOK, IterInv
<1>2. /\ reg[c] \in ({c} \X Nat) \cap DOMAIN maps /\ reg[c][2] < gen[c]
      /\ DOMAIN maps[reg[c]] \subseteq Slots
  BY <1>0 DEF IInv, RegOK, SlotsOK, IterInv, RegGen
<1>3. DOMAIN maps[reg[c]] # {} =>
        c \in DOMAIN last /\ \A k \in DOMAIN maps[reg[c]] : k <= last[c]
  BY <1>2 DEF IterInv, MapsBelowLast
<1>4. IterOK(t)'
  <2>1. it'[t] = R /\ pc'[t] = "iter_max"
    BY <1>0, <1>1
  <2>2. R \in ItRec
    BY <1>2 DEF ItRec
  <2>3. \A k \in R.start : ~(k < 0)
    BY <1>2, ConstantsAssumption DEF Slots
  <2>. QED
    BY <1>0, <1>2, <1>3, <2>1, <2>2, <2>3 DEF IterOK
<1>5. \A s \in Threads \ {t} : IterOK(s)'
  BY <1>0, <1>1 DEF IterInv, IterOK
<1>. QED
  BY <1>0, <1>1, <1>4, <1>5 DEF IterInv, RegGen, MapsBelowLast

(* get_iterator reads max = last_insert[c]: every start key lies below.    *)
LEMMA IterMaxIterInv ==
  ASSUME IInv, IterInv, NEW t \in Threads, IterMax(t)
  PROVE  IterInv'
<1>. DEFINE r == it[t]
<1>0. /\ pc[t] = "iter_max" /\ r.c \in DOMAIN last
      /\ pc' = [pc EXCEPT ![t] = "iter_next"] /\ it' = [it EXCEPT ![t].max = last[r.c]]
      /\ UNCHANGED <<reg, maps, gen, last>>
  BY DEF IterMax
<1>1. DOMAIN pc = Threads /\ DOMAIN it = Threads
  BY DEF IInv, ShutdownOK, IterInv
<1>2. /\ r \in ItRec /\ r.inst \in DOMAIN maps
      /\ r.inst[1] = r.c /\ r.inst[2] < gen[r.c]
      /\ r.start # {} => \A k \in r.start : k <= last[r.c]
      /\ \A k \in r.start \cap DOMAIN maps[r.inst] : k < r.cur => k \in r.yielded
  BY <1>0 DEF IterInv, IterOK
<1>3. last[r.c] \in Nat
  BY <1>0, ConstantsAssumption DEF IInv, SlotsOK, Slots
<1>4. it'[t] = [r EXCEPT !.max = last[r.c]] /\ pc'[t] = "iter_next"
  BY <1>0, <1>1, Zenon
<1>5. LET q == it'[t] IN
      /\ q \in ItRec /\ q.max = last[r.c]
      /\ q.c = r.c /\ q.inst = r.inst /\ q.cur = r.cur
      /\ q.start = r.start /\ q.yielded = r.yielded
  BY <1>2, <1>3, <1>4, ItSetMax
<1>6. IterOK(t)'
  BY <1>0, <1>2, <1>4, <1>5 DEF IterOK
<1>7. \A s \in Threads \ {t} : IterOK(s)'
  BY <1>0, <1>1 DEF IterInv, IterOK
<1>. QED
  BY <1>0, <1>1, <1>6, <1>7 DEF IterInv, RegGen, MapsBelowLast

(* One turn of ValueIterator::next: slot `current`, if live, is yielded.  *)
LEMMA IterNextIterInv ==
  ASSUME IInv, IterInv, NEW t \in Threads, IterNext(t)
  PROVE  IterInv'
<1>. DEFINE r == it[t]
            y == IF r.cur \in DOMAIN maps[r.inst] THEN r.yielded \cup {r.cur}
                 ELSE r.yielded
<1>0. /\ pc[t] = "iter_next"
      /\ it' = [it EXCEPT ![t].cur = r.cur + 1,
                          ![t].yielded = IF r.cur \in DOMAIN maps[r.inst]
                                         THEN @ \cup {r.cur} ELSE @]
      /\ UNCHANGED <<reg, maps, gen, last, pc>>
  BY DEF IterNext
<1>1. DOMAIN it = Threads
  BY DEF IterInv
<1>2. /\ r \in ItRec /\ r.inst \in DOMAIN maps
      /\ r.inst[1] = r.c /\ r.inst[2] < gen[r.c]
      /\ r.start # {} => r.c \in DOMAIN last /\ \A k \in r.start : k <= last[r.c]
      /\ \A k \in r.start : k <= r.max
      /\ \A k \in r.start \cap DOMAIN maps[r.inst] : k < r.cur => k \in r.yielded
  BY <1>0 DEF IterInv, IterOK
<1>3. y \in SUBSET Nat
  BY <1>2 DEF ItRec
<1>4. it'[t] = [r EXCEPT !.cur = r.cur + 1, !.yielded = y]
  BY <1>0, <1>1, Zenon
<1>5. LET q == it'[t] IN
      /\ q \in ItRec /\ q.cur = r.cur + 1 /\ q.yielded = y
      /\ q.c = r.c /\ q.inst = r.inst /\ q.max = r.max /\ q.start = r.start
  <2>. DEFINE q0 == [r EXCEPT !.cur = r.cur + 1, !.yielded = y]
  <2>1. /\ q0 \in ItRec /\ q0.cur = r.cur + 1 /\ q0.yielded = y
        /\ q0.c = r.c /\ q0.inst = r.inst /\ q0.max = r.max /\ q0.start = r.start
    BY <1>2, <1>3, ItStep
  <2>. QED
    BY <2>1, <1>4
<1>6. \A k \in r.start \cap DOMAIN maps[r.inst] : k < r.cur + 1 => k \in y
  BY <1>2, ConstantsAssumption DEF ItRec, Slots
<1>7. IterOK(t)'
  BY <1>0, <1>2, <1>5, <1>6 DEF IterOK
<1>8. \A s \in Threads \ {t} : IterOK(s)'
  BY <1>0, <1>1 DEF IterInv, IterOK
<1>. QED
  BY <1>0, <1>1, <1>7, <1>8 DEF IterInv, RegGen, MapsBelowLast


-----------------------------------------------------------------------------
(* One lemma per action that changes the maps, gen or last_insert.         *)

(* insert_value puts slot last_insert + 1 (0 for a first insert) into the *)
(* registered map and makes it the last: every key stays at or below     *)
(* last_insert, and the new key lies above every key any iterator of that *)
(* map started with.                                                       *)
LEMMA InsertValueIterInv ==
  ASSUME IInv, IterInv, NEW t \in Threads, NEW c \in ContainerIds, NEW v \in Values,
         InsertValue(t, c, v)
  PROVE  IterInv'
<1>. DEFINE next == NextSlot(c)
<1>0. /\ c \in DOMAIN reg /\ ~Overflows(c)
      /\ maps' = [maps EXCEPT ![reg[c]] = Put(@, next, v)]
      /\ last' = Put(last, c, next)
      /\ UNCHANGED <<reg, gen>>
      /\ Return(t)
  BY DEF InsertValue
<1>1. /\ DOMAIN pc = Threads /\ DOMAIN it = Threads
      /\ reg[c] \in ({c} \X Nat) \cap DOMAIN maps
      /\ \A d \in DOMAIN last : last[d] \in Slots
      /\ gen \in [ContainerIds -> Nat]
  BY <1>0 DEF IInv, ShutdownOK, RegOK, SlotsOK, IterInv
<1>2. /\ next \in Nat
      /\ c \in DOMAIN last => last[c] < next
      /\ DOMAIN last' = DOMAIN last \cup {c} /\ last'[c] = next
      /\ \A d \in DOMAIN last \ {c} : last'[d] = last[d]
  BY <1>0, <1>1, ConstantsAssumption DEF NextSlot, Put, Slots
<1>3. /\ DOMAIN maps' = DOMAIN maps
      /\ DOMAIN maps'[reg[c]] = DOMAIN maps[reg[c]] \cup {next}
      /\ \A i \in DOMAIN maps \ {reg[c]} : maps'[i] = maps[i]
  BY <1>0, <1>1 DEF Put
<1>4. DOMAIN maps[reg[c]] # {} => c \in DOMAIN last
  BY <1>1 DEF IterInv, MapsBelowLast
<1>5. MapsBelowLast'
  <2>. SUFFICES ASSUME NEW i \in DOMAIN maps', DOMAIN maps'[i] # {}
                PROVE  i[1] \in DOMAIN last' /\ \A k \in DOMAIN maps'[i] : k <= last'[i[1]]
    BY DEF MapsBelowLast
  <2>1. CASE i = reg[c]
    <3>1. i[1] = c
      BY <2>1, <1>1
    <3>2. \A k \in DOMAIN maps[reg[c]] : k \in Nat /\ k <= last[c]
      BY <1>1, <1>4, ConstantsAssumption DEF IterInv, MapsBelowLast, IInv, SlotsOK, Slots
    <3>3. \A k \in DOMAIN maps[reg[c]] : k <= next
      BY <3>2, <1>1, <1>2, <1>4, ConstantsAssumption DEF Slots
    <3>. QED
      BY <2>1, <3>1, <3>3, <1>2, <1>3
  <2>2. CASE i # reg[c]
    <3>1. maps'[i] = maps[i] /\ i \in DOMAIN maps
      BY <2>2, <1>3
    <3>2. i[1] \in DOMAIN last /\ \A k \in DOMAIN maps[i] : k <= last[i[1]]
      BY <3>1 DEF IterInv, MapsBelowLast
    <3>3. \A k \in DOMAIN maps[i] : k \in Nat
      BY <3>1, ConstantsAssumption DEF IInv, SlotsOK, Slots
    <3>4. CASE i[1] = c
      BY <3>1, <3>2, <3>3, <3>4, <1>1, <1>2, ConstantsAssumption DEF Slots
    <3>5. CASE i[1] # c
      BY <3>1, <3>2, <3>5, <1>2
    <3>. QED
      BY <3>4, <3>5
  <2>. QED
    BY <2>1, <2>2
<1>6. \A s \in Threads \ {t} : IterOK(s)'
  <2>. SUFFICES ASSUME NEW s \in Threads \ {t} PROVE IterOK(s)'
    OBVIOUS
  <2>1. pc'[s] = pc[s] /\ it'[s] = it[s]
    BY <1>0, <1>1 DEF Return
  <2>2. \A i \in DOMAIN maps : \A k \in DOMAIN maps'[i] \ DOMAIN maps[i] :
          i[1] \in DOMAIN last => last[i[1]] < k
    BY <1>1, <1>2, <1>3
  <2>3. \A d \in DOMAIN last : /\ last[d] \in Nat /\ d \in DOMAIN last'
                               /\ last'[d] \in Nat /\ last[d] <= last'[d]
    BY <1>1, <1>2, ConstantsAssumption DEF Slots
  <2>. QED
    BY <1>0, <1>1, <1>3, <2>1, <2>2, <2>3, IterOKFrame DEF IterInv
<1>7. ~Iterating(t)' /\ DOMAIN it' = Threads
  BY <1>0, <1>1, ReturnPanicLeaves
<1>. QED
  BY <1>0, <1>5, <1>6, <1>7 DEF IterInv, RegGen, IterOK, Iterating

(* delete_value, and the delete half of update_value, only remove a key.  *)
LEMMA DropIterInv ==
  ASSUME IInv, IterInv, NEW c \in DOMAIN reg, NEW k,
         reg[c] \in DOMAIN maps,
         maps' = [maps EXCEPT ![reg[c]] = Drop(@, k)],
         UNCHANGED <<reg, gen, last, it>>,
         \A s \in Threads : pc'[s] = pc[s] \/ ~Iterating(s)'
  PROVE  IterInv'
<1>1. /\ DOMAIN maps' = DOMAIN maps
      /\ \A i \in DOMAIN maps : DOMAIN maps'[i] \subseteq DOMAIN maps[i]
  BY DEF Drop
<1>2. MapsBelowLast'
  BY <1>1 DEF IterInv, MapsBelowLast
<1>3. \A s \in Threads : IterOK(s)'
  <2>. SUFFICES ASSUME NEW s \in Threads, pc'[s] = pc[s] PROVE IterOK(s)'
    BY DEF IterOK, Iterating
  <2>. QED
    BY <1>1, IterOKFrame, ConstantsAssumption DEF IterInv, RegGen, IInv, SlotsOK, Slots
<1>. QED
  BY <1>2, <1>3 DEF IterInv, RegGen

(* create_container makes a fresh map under generation gen[c], which no   *)
(* iterator holds, and moves gen[c] on.                                   *)
LEMMA CreateContainerIterInv ==
  ASSUME IInv, IterInv, NEW t \in Threads, NEW c \in ContainerIds, CreateContainer(t, c)
  PROVE  IterInv'
<1>. DEFINE new == <<c, gen[c]>>
<1>0. /\ c \notin DOMAIN reg
      /\ reg' = Put(reg, c, new) /\ maps' = Put(maps, new, EmptyMap)
      /\ gen' = [gen EXCEPT ![c] = @ + 1]
      /\ UNCHANGED <<last, pc, it>>
  BY DEF CreateContainer
<1>1. gen \in [ContainerIds -> Nat] /\ gen' \in [ContainerIds -> Nat]
      /\ \A d \in ContainerIds : gen[d] <= gen'[d]
  BY <1>0 DEF IterInv, RegGen
<1>2. RegGen'
  BY <1>0, <1>1 DEF IterInv, RegGen, Put
<1>3. /\ DOMAIN maps' = DOMAIN maps \cup {new} /\ DOMAIN maps'[new] = {}
      /\ \A i \in DOMAIN maps \ {new} : maps'[i] = maps[i]
  BY <1>0 DEF Put, EmptyMap
<1>4. MapsBelowLast'
  BY <1>0, <1>3 DEF IterInv, MapsBelowLast
<1>5. \A s \in Threads : IterOK(s)'
  <2>. SUFFICES ASSUME NEW s \in Threads PROVE IterOK(s)'
    OBVIOUS
  <2>1. \A i \in DOMAIN maps : \A k \in DOMAIN maps'[i] \ DOMAIN maps[i] : FALSE
    BY <1>3
  <2>. QED
    BY <1>0, <1>1, <1>3, <2>1, IterOKFrame, ConstantsAssumption
       DEF IterInv, IInv, SlotsOK, Slots
<1>. QED
  BY <1>0, <1>2, <1>4, <1>5 DEF IterInv

(* remove_container drops the registry entry only. *)
LEMMA RemoveContainerIterInv ==
  ASSUME IterInv, NEW t \in Threads, NEW c \in ContainerIds, RemoveContainer(t, c)
  PROVE  IterInv'
BY DEF RemoveContainer, IterInv, RegGen, MapsBelowLast, IterOK, Drop

(* load, after a restart: each map is a file's and last_insert its        *)
(* greatest key; no thread is iterating.                                   *)
LEMMA RestartIterInv ==
  ASSUME IInv, IterInv, Restart
  PROVE  IterInv'
<1>0. /\ reg' = [c \in DOMAIN files |-> <<c, 0>>]
      /\ maps' = [i \in {<<c, 0>> : c \in DOMAIN files} |-> files[i[1]].map]
      /\ gen' = [c \in ContainerIds |-> IF c \in DOMAIN files THEN 1 ELSE 0]
      /\ last' = [c \in DOMAIN files |-> MaxKey(files[c].map)]
      /\ pc' = [u \in Threads |-> "idle"] /\ it' = [u \in Threads |-> NoCall]
  BY DEF Restart
<1>1. \A c \in DOMAIN files : \A k \in DOMAIN files[c].map : k <= MaxKey(files[c].map)
  BY MaxKeyIsMax DEF IInv, SlotsOK
<1>2. RegGen'
  BY <1>0 DEF IInv, SlotsOK, RegGen
<1>3. MapsBelowLast'
  BY <1>0, <1>1 DEF MapsBelowLast
<1>. QED
  BY <1>0, <1>2, <1>3 DEF IterInv, IterOK


-----------------------------------------------------------------------------
(* Every step keeps IterInv. *)
LEMMA NextIterInv == IInv /\ IterInv /\ [Next]_vars => IterInv'
<1>. SUFFICES ASSUME IInv, IterInv, [Next]_vars PROVE IterInv'
  OBVIOUS
<1>a. DOMAIN pc = Threads /\ DOMAIN it = Threads
  BY DEF IInv, ShutdownOK, IterInv
(* A step of thread t that sets its pc to l, not an iterator state, and   *)
(* touches no map, gen, last_insert or other thread.                      *)
<1>b. ASSUME NEW t \in Threads, NEW l, l \notin {"iter_max", "iter_next"},
             pc' = [pc EXCEPT ![t] = l], UNCHANGED <<reg, maps, gen, last, it>>
      PROVE  IterInv'
  BY <1>b, <1>a, LeaveIter DEF Iterating
<1>c. ASSUME NEW t \in Threads, Return(t) \/ Panic(t), UNCHANGED <<reg, maps, gen, last>>
      PROVE  IterInv'
  BY <1>c, <1>a, ReturnPanicLeaves, LeaveIter
<1>1. ASSUME NEW t \in Threads, NEW c \in ContainerIds, NEW v \in Values,
             InsertValue(t, c, v)
      PROVE  IterInv'
  BY <1>1, InsertValueIterInv
<1>2. ASSUME NEW t \in Threads, NEW c \in ContainerIds, NEW v \in Values,
             InsertMissingPanics(t, c, v) \/ InsertOverflowPanics(t, c, v)
      PROVE  IterInv'
  BY <1>2, <1>c DEF InsertMissingPanics, InsertOverflowPanics
<1>3. ASSUME NEW t \in Threads, NEW c \in ContainerIds, NEW k \in Slots,
             DeleteValue(t, c, k)
      PROVE  IterInv'
  <2>1. c \in DOMAIN reg /\ reg[c] \in DOMAIN maps
    BY <1>3 DEF DeleteValue, IInv, RegOK
  <2>. QED
    BY <1>3, <2>1, DropIterInv DEF DeleteValue
<1>4. ASSUME NEW t \in Threads, NEW c \in ContainerIds, NEW k \in Slots,
             NEW v \in Values, UpdateDelete(t, c, k, v)
      PROVE  IterInv'
  <2>1. c \in DOMAIN reg /\ reg[c] \in DOMAIN maps
    BY <1>4 DEF UpdateDelete, IInv, RegOK
  <2>2. \A s \in Threads : pc'[s] = pc[s] \/ ~Iterating(s)'
    BY <1>4, <1>a DEF UpdateDelete, Iterating
  <2>3. CASE k \in DOMAIN maps[reg[c]]
    BY <1>4, <2>1, <2>2, <2>3, DropIterInv DEF UpdateDelete
  <2>4. CASE k \notin DOMAIN maps[reg[c]]
    BY <1>4, <2>4, <1>b DEF UpdateDelete
  <2>. QED
    BY <2>3, <2>4
<1>5. ASSUME NEW t \in Threads, NEW c \in ContainerIds, CreateContainer(t, c)
      PROVE  IterInv'
  BY <1>5, CreateContainerIterInv
<1>6. ASSUME NEW t \in Threads, NEW c \in ContainerIds, RemoveContainer(t, c)
      PROVE  IterInv'
  BY <1>6, RemoveContainerIterInv
<1>7. ASSUME NEW t \in Threads, NEW c \in ContainerIds, IterOpen(t, c)
      PROVE  IterInv'
  BY <1>7, IterOpenIterInv
<1>8. ASSUME NEW t \in Threads, NEW c \in ContainerIds, IterOpenPanics(t, c)
      PROVE  IterInv'
  BY <1>8, <1>c DEF IterOpenPanics
<1>9. ASSUME NEW t \in Threads, NEW c \in ContainerIds, ShutdownWrite(t, c)
      PROVE  IterInv'
  BY <1>9, QuietStep DEF ShutdownWrite
<1>10. ASSUME NEW t \in Threads,
              CallPanicsPoisoned(t) \/ IterMaxPanics(t) \/ IterNextPanics(t)
              \/ IterEnd(t)
       PROVE  IterInv'
  BY <1>10, <1>c DEF CallPanicsPoisoned, IterMaxPanics, IterNextPanics, IterEnd
<1>11. ASSUME NEW t \in Threads, IterMax(t) PROVE IterInv'
  BY <1>11, IterMaxIterInv
<1>12. ASSUME NEW t \in Threads, IterNext(t) PROVE IterInv'
  BY <1>12, IterNextIterInv
<1>13. ASSUME NEW t \in Threads, ShutdownBegin(t) \/ ShutdownEnd(t)
       PROVE  IterInv'
  BY <1>13, <1>b DEF ShutdownBegin, ShutdownEnd
<1>14. CASE Restart
  BY <1>14, RestartIterInv
<1>15. CASE RestartLoadPanics
  BY <1>15, QuietStep DEF RestartLoadPanics
<1>16. CASE UNCHANGED vars
  BY <1>16, QuietStep DEF vars
<1>. QED
  BY <1>1, <1>2, <1>3, <1>4, <1>5, <1>6, <1>7, <1>8, <1>9, <1>10, <1>11, <1>12,
     <1>13, <1>14, <1>15, <1>16 DEF Next

-----------------------------------------------------------------------------
(* The theorem.                                                            *)

(* Spec 4.5, for every number of threads, containers, values and every    *)
(* slot-id width: when ValueIterator::next returns None, it has yielded   *)
(* every value that was live when get_iterator cloned the map's Arc and is *)
(* still live, whatever inserts, deletes, remove/create_container of the  *)
(* same id and shutdowns other threads interleave with the iteration.     *)
THEOREM IterCompleteHolds == Spec => []IterComplete
<1>1. Init => IInv /\ IterInv
  BY InitIInv, InitIterInv
<1>2. IInv /\ IterInv /\ [Next]_vars => IInv' /\ IterInv'
  BY NextIInv, NextIterInv
<1>3. IterInv => IterComplete
  <2>. SUFFICES ASSUME IterInv, NEW t \in Threads, pc[t] = "iter_next",
                       it[t].cur > it[t].max,
                       NEW k \in it[t].start \cap DOMAIN maps[it[t].inst]
                PROVE  k \in it[t].yielded
    BY DEF IterComplete
  <2>1. /\ it[t] \in ItRec /\ k <= it[t].max
        /\ k < it[t].cur => k \in it[t].yielded
    BY DEF IterInv, IterOK
  <2>. QED
    BY <2>1, ConstantsAssumption DEF ItRec, Slots
<1>. QED
  BY <1>1, <1>2, <1>3, PTL DEF Spec

=============================================================================
