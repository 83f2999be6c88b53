--------------------------- MODULE MemstoreProofs ---------------------------
(***************************************************************************)
(* Proofs about the memstore storage manager (Memstore.tla), for every    *)
(* set of threads, containers and values and every MAX_SLOT.              *)
(*                                                                         *)
(* The invariant proved is ValueIdStable: a live ValueId of a registered   *)
(* container maps to what the insert that returned it stored.  It is not  *)
(* inductive: insert_value writes slot last_insert + 1 without looking     *)
(* whether it is free, so the proof needs that last_insert bounds every    *)
(* slot id ever handed out for the container id (HistBelowLast), also      *)
(* after remove/create_container (last_insert is kept) and after a        *)
(* restart (load recomputes it as the greatest key of the file).          *)
(***************************************************************************)
EXTENDS Memstore, WellFoundedInduction, TLAPS

(* Each registered id points at a ContainerMap made for that id. *)
RegOK ==
  /\ DOMAIN reg \subseteq ContainerIds
  /\ \A c \in DOMAIN reg : reg[c] \in ({c} \X Nat) \cap DOMAIN maps

(* Keys of maps and files are u16 slot ids, and last_insert is one. *)
SlotsOK ==
  /\ \A i \in DOMAIN maps : DOMAIN maps[i] \subseteq Slots
  /\ \A c \in DOMAIN last : last[c] \in Slots
  /\ DOMAIN files \subseteq ContainerIds
  /\ \A c \in DOMAIN files : DOMAIN files[c].map \subseteq Slots
  /\ gen \in [ContainerIds -> Nat]

(* The history of handed-out slot ids lies at or below last_insert, and is *)
(* empty for an id that has none.                                          *)
HistBelowLast ==
  /\ DOMAIN hist = ContainerIds
  /\ \A c \in ContainerIds :
       /\ DOMAIN hist[c] \subseteq Slots
       /\ c \notin DOMAIN last => DOMAIN hist[c] = {}
       /\ c \in DOMAIN last => \A k \in DOMAIN hist[c] : k <= last[c]

(* A running shutdown writes only registered containers. *)
ShutdownOK ==
  /\ DOMAIN pc = Threads /\ DOMAIN todo = Threads
  /\ \A t \in Threads : pc[t] = "shutdown" => todo[t] \subseteq DOMAIN reg

IInv == RegOK /\ SlotsOK /\ HistBelowLast /\ ShutdownOK /\ ValueIdStable

-----------------------------------------------------------------------------
(* Lemmas about the helpers.                                               *)

(* HashMap insert: the new key maps to the value, the others are kept. *)
LEMMA PutProps ==
  ASSUME NEW f, NEW k, NEW v
  PROVE  /\ DOMAIN Put(f, k, v) = DOMAIN f \cup {k}
         /\ Put(f, k, v)[k] = v
         /\ \A x \in DOMAIN f \ {k} : Put(f, k, v)[x] = f[x]
BY DEF Put

(* HashMap remove: the key is gone, the others are kept. *)
LEMMA DropProps ==
  ASSUME NEW f, NEW k
  PROVE  /\ DOMAIN Drop(f, k) = DOMAIN f \ {k}
         /\ \A x \in DOMAIN f \ {k} : Drop(f, k)[x] = f[x]
BY DEF Drop

(* A nonempty set of naturals has a least element. *)
LEMMA NatSetHasMin ==
  ASSUME NEW T, T \subseteq Nat, T # {}
  PROVE  \E x \in T : \A y \in T : x <= y
<1>1. \E x \in T : \A y \in T : ~(<<y, x>> \in OpToRel(<, Nat))
  BY NatLessThanWellFounded, WFMin
<1>2. PICK x \in T : \A y \in T : ~(y < x)
  BY <1>1, Zenon DEF OpToRel
<1>. QED
  BY <1>2

(* load's scan finds the greatest key of a map of u16 slot ids. *)
LEMMA MaxKeyIsMax ==
  ASSUME NEW m, DOMAIN m \subseteq Slots
  PROVE  /\ MaxKey(m) \in Slots
         /\ \A k \in DOMAIN m : k <= MaxKey(m)
<1>a. MAX_SLOT \in Nat
  BY ConstantsAssumption
<1>1. CASE DOMAIN m = {}
  BY <1>1, <1>a DEF MaxKey, Slots
<1>2. CASE DOMAIN m # {}
  <2>. DEFINE T == {MAX_SLOT - s : s \in DOMAIN m}
  <2>1. T \subseteq Nat /\ T # {}
    BY <1>2, <1>a DEF Slots
  <2>2. PICK x \in T : \A y \in T : x <= y
    BY <2>1, NatSetHasMin
  <2>3. PICK s0 \in DOMAIN m : x = MAX_SLOT - s0
    OBVIOUS
  <2>4. \A j \in DOMAIN m : j <= s0
    <3>. SUFFICES ASSUME NEW j \in DOMAIN m PROVE j <= s0
      OBVIOUS
    <3>1. x <= MAX_SLOT - j
      BY <2>2
    <3>. QED
      BY <3>1, <2>3, <1>a DEF Slots
  <2>5. \E k \in DOMAIN m : \A j \in DOMAIN m : j <= k
    BY <2>4
  <2>6. MaxKey(m) \in DOMAIN m /\ \A j \in DOMAIN m : j <= MaxKey(m)
    BY <1>2, <2>5 DEF MaxKey
  <2>. QED
    BY <2>6
<1>. QED
  BY <1>1, <1>2

-----------------------------------------------------------------------------
(* The invariant holds initially and is kept by every step.                *)

(* StorageManager::new on an empty directory: nothing registered, no       *)
(* last_insert entry, no history.                                          *)
LEMMA InitIInv == Init => IInv
<1>. SUFFICES ASSUME Init PROVE IInv
  OBVIOUS
<1>1. RegOK /\ SlotsOK
  BY DEF Init, RegOK, SlotsOK, EmptyMap
<1>2. HistBelowLast
  BY DEF Init, HistBelowLast, EmptyMap
<1>3. ShutdownOK
  BY DEF Init, ShutdownOK
<1>4. ValueIdStable
  BY DEF Init, ValueIdStable, EmptyMap
<1>. QED
  BY <1>1, <1>2, <1>3, <1>4 DEF IInv

(* A step that changes only thread-local state and flags keeps the         *)
(* invariant as long as it keeps ShutdownOK.                               *)
LEMMA LocalStep ==
  ASSUME IInv, UNCHANGED <<reg, maps, gen, last, files, hist>>, ShutdownOK'
  PROVE  IInv'
BY DEF IInv, RegOK, SlotsOK, HistBelowLast, ValueIdStable

(* Setting thread t's pc to anything but "shutdown" keeps ShutdownOK. *)
LEMMA LeaveShutdown ==
  ASSUME ShutdownOK, NEW t \in Threads, NEW l, l # "shutdown",
         pc' = [pc EXCEPT ![t] = l], UNCHANGED <<reg, todo>>
  PROVE  ShutdownOK'
BY DEF ShutdownOK

(* Return and Panic leave the call's thread out of shutdown. *)
LEMMA ReturnPanicShutdownOK ==
  ASSUME ShutdownOK, NEW t \in Threads, Return(t) \/ Panic(t), UNCHANGED <<reg, todo>>
  PROVE  ShutdownOK'
BY LeaveShutdown DEF Return, Panic

(* delete_value, and the delete half of update_value: removing a key keeps *)
(* every other key's value.                                                *)
LEMMA DropKeepsIInv ==
  ASSUME IInv, NEW c \in DOMAIN reg, NEW k,
         maps' = [maps EXCEPT ![reg[c]] = Drop(@, k)],
         UNCHANGED <<reg, gen, last, files, hist>>, ShutdownOK'
  PROVE  IInv'
<1>0. reg' = reg /\ gen' = gen /\ last' = last /\ files' = files /\ hist' = hist
  OBVIOUS
<1>1. reg[c] \in DOMAIN maps
  BY DEF IInv, RegOK
<1>2. DOMAIN maps' = DOMAIN maps
  OBVIOUS
<1>3. RegOK'
  BY <1>0, <1>2 DEF IInv, RegOK
<1>4. SlotsOK'
  <2>1. DOMAIN maps'[reg[c]] \subseteq DOMAIN maps[reg[c]]
    BY <1>1 DEF Drop
  <2>. QED
    BY <1>0, <1>1, <1>2, <2>1 DEF IInv, SlotsOK
<1>5. ValueIdStable'
  <2>. SUFFICES ASSUME NEW d \in DOMAIN reg, NEW j \in DOMAIN maps'[reg[d]]
                PROVE  j \in DOMAIN hist[d] /\ hist[d][j] = maps'[reg[d]][j]
    BY <1>0 DEF ValueIdStable
  <2>1. CASE reg[d] = reg[c]
    <3>0. maps'[reg[d]] = Drop(maps[reg[d]], k)
      BY <2>1, <1>1
    <3>1. j \in DOMAIN maps[reg[d]] \ {k} /\ maps'[reg[d]][j] = maps[reg[d]][j]
      BY <3>0 DEF Drop
    <3>. QED
      BY <3>1 DEF IInv, ValueIdStable
  <2>2. CASE reg[d] # reg[c]
    BY <2>2, <1>1 DEF IInv, ValueIdStable
  <2>. QED
    BY <2>1, <2>2
<1>. QED
  BY <1>0, <1>3, <1>4, <1>5 DEF IInv, HistBelowLast

(* insert_value: the slot it writes, last_insert + 1 (or 0), lies above    *)
(* every slot id handed out for the container id, so it is fresh in the    *)
(* history and no live value is overwritten.                               *)
LEMMA InsertValueIInv ==
  ASSUME IInv, NEW t \in Threads, NEW c \in ContainerIds, NEW v \in Values,
         InsertValue(t, c, v)
  PROVE  IInv'
<1>. DEFINE next == NextSlot(c)
            m == maps[reg[c]]
<1>0. /\ reg' = reg /\ gen' = gen /\ files' = files /\ todo' = todo
      /\ c \in DOMAIN reg /\ ~Overflows(c)
      /\ maps' = [maps EXCEPT ![reg[c]] = Put(@, next, v)]
      /\ last' = Put(last, c, next)
      /\ hist' = IF next \in DOMAIN hist[c] THEN hist
                 ELSE [hist EXCEPT ![c] = Put(@, next, v)]
      /\ Return(t)
  BY DEF InsertValue
<1>1. reg[c] \in DOMAIN maps
  BY <1>0 DEF IInv, RegOK
<1>a. MAX_SLOT \in Nat
  BY ConstantsAssumption
<1>2. next \in Slots
  <2>1. CASE c \in DOMAIN last
    <3>1. last[c] \in Slots /\ last[c] # MAX_SLOT
      BY <2>1, <1>0 DEF IInv, SlotsOK, Overflows
    <3>. QED
      BY <2>1, <3>1, <1>a DEF NextSlot, Slots
  <2>2. CASE c \notin DOMAIN last
    BY <2>2, <1>a DEF NextSlot, Slots
  <2>. QED
    BY <2>1, <2>2
<1>3. \A k \in DOMAIN hist[c] : k < next
  <2>1. CASE c \in DOMAIN last
    <3>1. last[c] \in Nat /\ \A k \in DOMAIN hist[c] : k \in Nat /\ k <= last[c]
      BY <2>1 DEF IInv, SlotsOK, HistBelowLast, Slots
    <3>. QED
      BY <2>1, <3>1 DEF NextSlot
  <2>2. CASE c \notin DOMAIN last
    BY <2>2 DEF IInv, HistBelowLast
  <2>. QED
    BY <2>1, <2>2
<1>4. next \notin DOMAIN hist[c]
  BY <1>2, <1>3, <1>a DEF Slots
<1>5. hist' = [hist EXCEPT ![c] = Put(@, next, v)]
  BY <1>0, <1>4
<1>6. RegOK'
  BY <1>0 DEF IInv, RegOK
<1>7. SlotsOK'
  <2>1. DOMAIN maps'[reg[c]] \subseteq Slots
    <3>1. DOMAIN maps'[reg[c]] = DOMAIN m \cup {next}
      BY <1>0, <1>1 DEF Put
    <3>. QED
      BY <3>1, <1>1, <1>2 DEF IInv, SlotsOK
  <2>2. \A d \in DOMAIN last' : last'[d] \in Slots
    BY <1>0, <1>2 DEF IInv, SlotsOK, Put
  <2>. QED
    BY <1>0, <2>1, <2>2 DEF IInv, SlotsOK
<1>8. HistBelowLast'
  <2>1. DOMAIN hist' = ContainerIds
    BY <1>5 DEF IInv, HistBelowLast
  <2>2. ASSUME NEW d \in ContainerIds
        PROVE  /\ DOMAIN hist'[d] \subseteq Slots
               /\ d \notin DOMAIN last' => DOMAIN hist'[d] = {}
               /\ d \in DOMAIN last' => \A k \in DOMAIN hist'[d] : k <= last'[d]
    <3>1. CASE d = c
      <4>1. DOMAIN hist'[c] = DOMAIN hist[c] \cup {next} /\ c \in DOMAIN last'
            /\ last'[c] = next
        BY <1>5, <1>0 DEF IInv, HistBelowLast, Put
      <4>2. \A k \in DOMAIN hist[c] : k <= next
        BY <1>3, <1>2, <1>a DEF IInv, HistBelowLast, Slots
      <4>. QED
        BY <3>1, <4>1, <4>2, <1>2, <1>a DEF IInv, HistBelowLast, Slots
    <3>2. CASE d # c
      <4>1. hist'[d] = hist[d] /\ (d \in DOMAIN last' <=> d \in DOMAIN last)
        BY <3>2, <1>5, <1>0 DEF IInv, HistBelowLast, Put
      <4>2. d \in DOMAIN last => last'[d] = last[d]
        BY <3>2, <1>0 DEF Put
      <4>. QED
        BY <4>1, <4>2 DEF IInv, HistBelowLast
    <3>. QED
      BY <3>1, <3>2
  <2>. QED
    BY <2>1, <2>2 DEF HistBelowLast
<1>9. ShutdownOK'
  BY <1>0, ReturnPanicShutdownOK DEF IInv
<1>10. ValueIdStable'
  <2>. SUFFICES ASSUME NEW d \in DOMAIN reg, NEW j \in DOMAIN maps'[reg[d]]
                PROVE  j \in DOMAIN hist'[d] /\ hist'[d][j] = maps'[reg[d]][j]
    BY <1>0 DEF ValueIdStable
  <2>a. d \in ContainerIds /\ reg[d] \in DOMAIN maps
    BY DEF IInv, RegOK
  <2>1. CASE d = c
    <3>1. maps'[reg[c]] = Put(m, next, v) /\ hist'[c] = Put(hist[c], next, v)
      BY <1>0, <1>1, <1>5 DEF IInv, HistBelowLast
    <3>2. CASE j = next
      BY <2>1, <3>1, <3>2 DEF Put
    <3>3. CASE j # next
      <4>1. j \in DOMAIN m
        BY <2>1, <3>1, <3>3 DEF Put
      <4>2. j \in DOMAIN hist[c] /\ hist[c][j] = m[j]
        BY <4>1, <1>0 DEF IInv, ValueIdStable
      <4>. QED
        BY <2>1, <3>1, <3>3, <4>1, <4>2 DEF Put
    <3>. QED
      BY <3>2, <3>3
  <2>2. CASE d # c
    <3>1. reg[d] # reg[c]
      BY <2>2, <1>0 DEF IInv, RegOK
    <3>2. maps'[reg[d]] = maps[reg[d]] /\ hist'[d] = hist[d]
      BY <3>1, <2>2, <2>a, <1>0, <1>5 DEF IInv, HistBelowLast
    <3>. QED
      BY <3>2 DEF IInv, ValueIdStable
  <2>. QED
    BY <2>1, <2>2
<1>. QED
  BY <1>6, <1>7, <1>8, <1>9, <1>10 DEF IInv

(* create_container registers a fresh, empty map under <<c, gen[c]>>,      *)
(* which no other registered id points at.                                 *)
LEMMA CreateContainerIInv ==
  ASSUME IInv, NEW t \in Threads, NEW c \in ContainerIds, CreateContainer(t, c)
  PROVE  IInv'
<1>. DEFINE new == <<c, gen[c]>>
<1>0. /\ c \notin DOMAIN reg /\ ~ShutdownRunning
      /\ reg' = Put(reg, c, new) /\ maps' = Put(maps, new, EmptyMap)
      /\ gen' = [gen EXCEPT ![c] = @ + 1]
      /\ last' = last /\ files' = files /\ hist' = hist /\ pc' = pc /\ todo' = todo
  BY DEF CreateContainer
<1>1. gen[c] \in Nat
  BY DEF IInv, SlotsOK
<1>2. \A d \in DOMAIN reg : reg[d] # new /\ reg'[d] = reg[d] /\ maps'[reg[d]] = maps[reg[d]]
  BY <1>0 DEF IInv, RegOK, Put
<1>3. RegOK'
  BY <1>0, <1>1, <1>2 DEF IInv, RegOK, Put
<1>4. SlotsOK'
  BY <1>0, <1>1 DEF IInv, SlotsOK, Put, EmptyMap
<1>5. ShutdownOK'
  BY <1>0 DEF IInv, ShutdownOK, ShutdownRunning
<1>6. ValueIdStable'
  <2>. SUFFICES ASSUME NEW d \in DOMAIN reg', NEW j \in DOMAIN maps'[reg'[d]]
                PROVE  j \in DOMAIN hist'[d] /\ hist'[d][j] = maps'[reg'[d]][j]
    BY DEF ValueIdStable
  <2>1. d # c
    BY <1>0 DEF Put, EmptyMap
  <2>2. d \in DOMAIN reg
    BY <2>1, <1>0 DEF Put
  <2>3. reg'[d] = reg[d] /\ maps'[reg[d]] = maps[reg[d]]
    BY <2>2, <1>2
  <2>. QED
    BY <2>2, <2>3, <1>0 DEF IInv, ValueIdStable
<1>. QED
  BY <1>0, <1>3, <1>4, <1>5, <1>6 DEF IInv, HistBelowLast

(* remove_container drops only the registry entry. *)
LEMMA RemoveContainerIInv ==
  ASSUME IInv, NEW t \in Threads, NEW c \in ContainerIds, RemoveContainer(t, c)
  PROVE  IInv'
<1>0. /\ ~ShutdownRunning /\ reg' = Drop(reg, c)
      /\ maps' = maps /\ gen' = gen /\ last' = last /\ files' = files /\ hist' = hist
      /\ pc' = pc /\ todo' = todo
  BY DEF RemoveContainer
<1>. QED
  BY <1>0 DEF IInv, RegOK, SlotsOK, HistBelowLast, ShutdownOK, ShutdownRunning,
              ValueIdStable, Drop

(* shutdown starts with the registered ids as its to-do list. *)
LEMMA ShutdownBeginIInv ==
  ASSUME IInv, NEW t \in Threads, ShutdownBegin(t)
  PROVE  IInv'
<1>1. ShutdownOK'
  BY DEF ShutdownBegin, IInv, ShutdownOK
<1>. QED
  BY <1>1, LocalStep DEF ShutdownBegin

(* shutdown writes a registered container's map to its file. *)
LEMMA ShutdownWriteIInv ==
  ASSUME IInv, NEW t \in Threads, NEW c \in ContainerIds, ShutdownWrite(t, c)
  PROVE  IInv'
<1>0. /\ pc[t] = "shutdown" /\ c \in todo[t]
      /\ reg' = reg /\ maps' = maps /\ gen' = gen /\ last' = last /\ hist' = hist
      /\ pc' = pc /\ todo' = [todo EXCEPT ![t] = @ \ {c}]
  BY DEF ShutdownWrite
<1>1. c \in DOMAIN reg /\ reg[c] \in DOMAIN maps
  BY <1>0 DEF IInv, ShutdownOK, RegOK
<1>2. /\ DOMAIN files' = DOMAIN files \cup {c}
      /\ files'[c].map = maps[reg[c]]
      /\ \A d \in DOMAIN files \ {c} : files'[d] = files[d]
  BY DEF ShutdownWrite, Put
<1>3. SlotsOK'
  BY <1>0, <1>1, <1>2 DEF IInv, SlotsOK
<1>4. ShutdownOK'
  BY <1>0 DEF IInv, ShutdownOK
<1>. QED
  BY <1>0, <1>3, <1>4 DEF IInv, RegOK, HistBelowLast, ValueIdStable

(* load: each file becomes a registered map and its history, and           *)
(* last_insert its greatest key.                                           *)
LEMMA RestartIInv ==
  ASSUME IInv, Restart
  PROVE  IInv'
<1>0. /\ reg' = [c \in DOMAIN files |-> <<c, 0>>]
      /\ maps' = [i \in {<<c, 0>> : c \in DOMAIN files} |-> files[i[1]].map]
      /\ gen' = [c \in ContainerIds |-> IF c \in DOMAIN files THEN 1 ELSE 0]
      /\ last' = [c \in DOMAIN files |-> MaxKey(files[c].map)]
      /\ pc' = [u \in Threads |-> "idle"] /\ todo' = [u \in Threads |-> {}]
      /\ hist' = [c \in ContainerIds |-> IF c \in DOMAIN files THEN files[c].map
                                          ELSE EmptyMap]
      /\ files' = files
  BY DEF Restart
<1>1. \A c \in DOMAIN files : maps'[<<c, 0>>] = files[c].map /\ reg'[c] = <<c, 0>>
  BY <1>0
<1>2. \A c \in DOMAIN files : MaxKey(files[c].map) \in Slots
                              /\ \A k \in DOMAIN files[c].map : k <= MaxKey(files[c].map)
  BY MaxKeyIsMax DEF IInv, SlotsOK
<1>3. RegOK'
  BY <1>0, <1>1 DEF IInv, SlotsOK, RegOK
<1>4. SlotsOK'
  BY <1>0, <1>1, <1>2 DEF IInv, SlotsOK
<1>5. HistBelowLast'
  BY <1>0, <1>2 DEF IInv, SlotsOK, HistBelowLast, EmptyMap
<1>6. ShutdownOK'
  BY <1>0 DEF ShutdownOK
<1>7. ValueIdStable'
  BY <1>0, <1>1 DEF IInv, SlotsOK, ValueIdStable
<1>. QED
  BY <1>3, <1>4, <1>5, <1>6, <1>7 DEF IInv

(* Every step of Next keeps the invariant. *)
LEMMA NextIInv == IInv /\ [Next]_vars => IInv'
<1>. SUFFICES ASSUME IInv, [Next]_vars PROVE IInv'
  OBVIOUS
<1>a. ShutdownOK
  BY DEF IInv
<1>1. ASSUME NEW t \in Threads, NEW c \in ContainerIds, NEW v \in Values,
             InsertValue(t, c, v)
      PROVE  IInv'
  BY <1>1, InsertValueIInv
<1>2. ASSUME NEW t \in Threads, NEW c \in ContainerIds, NEW v \in Values,
             InsertMissingPanics(t, c, v) \/ InsertOverflowPanics(t, c, v)
      PROVE  IInv'
  <2>1. ShutdownOK'
    BY <1>2, <1>a, ReturnPanicShutdownOK DEF InsertMissingPanics, InsertOverflowPanics
  <2>. QED
    BY <1>2, <2>1, LocalStep DEF InsertMissingPanics, InsertOverflowPanics
<1>3. ASSUME NEW t \in Threads, NEW c \in ContainerIds, NEW k \in Slots,
             DeleteValue(t, c, k)
      PROVE  IInv'
  <2>1. ShutdownOK'
    BY <1>3, <1>a DEF DeleteValue, ShutdownOK
  <2>. QED
    BY <1>3, <2>1, DropKeepsIInv DEF DeleteValue
<1>4. ASSUME NEW t \in Threads, NEW c \in ContainerIds, NEW k \in Slots,
             NEW v \in Values, UpdateDelete(t, c, k, v)
      PROVE  IInv'
  <2>1. ShutdownOK'
    BY <1>4, <1>a, LeaveShutdown DEF UpdateDelete
  <2>2. CASE k \in DOMAIN maps[reg[c]]
    BY <1>4, <2>1, <2>2, DropKeepsIInv DEF UpdateDelete
  <2>3. CASE k \notin DOMAIN maps[reg[c]]
    BY <1>4, <2>1, <2>3, LocalStep DEF UpdateDelete
  <2>. QED
    BY <2>2, <2>3
<1>5. ASSUME NEW t \in Threads, NEW c \in ContainerIds, CreateContainer(t, c)
      PROVE  IInv'
  BY <1>5, CreateContainerIInv
<1>6. ASSUME NEW t \in Threads, NEW c \in ContainerIds, RemoveContainer(t, c)
      PROVE  IInv'
  BY <1>6, RemoveContainerIInv
<1>7. ASSUME NEW t \in Threads, NEW c \in ContainerIds, IterOpen(t, c)
      PROVE  IInv'
  <2>1. ShutdownOK'
    BY <1>7, <1>a, LeaveShutdown DEF IterOpen
  <2>. QED
    BY <1>7, <2>1, LocalStep DEF IterOpen
<1>8. ASSUME NEW t \in Threads, NEW c \in ContainerIds, IterOpenPanics(t, c)
      PROVE  IInv'
  <2>1. ShutdownOK'
    BY <1>8, <1>a, ReturnPanicShutdownOK DEF IterOpenPanics
  <2>. QED
    BY <1>8, <2>1, LocalStep DEF IterOpenPanics
<1>9. ASSUME NEW t \in Threads, NEW c \in ContainerIds, ShutdownWrite(t, c)
      PROVE  IInv'
  BY <1>9, ShutdownWriteIInv
<1>10. ASSUME NEW t \in Threads,
              CallPanicsPoisoned(t) \/ IterMaxPanics(t) \/ IterNextPanics(t)
              \/ IterEnd(t)
       PROVE  IInv'
  <2>1. ShutdownOK'
    BY <1>10, <1>a, ReturnPanicShutdownOK
       DEF CallPanicsPoisoned, IterMaxPanics, IterNextPanics, IterEnd
  <2>. QED
    BY <1>10, <2>1, LocalStep
       DEF CallPanicsPoisoned, IterMaxPanics, IterNextPanics, IterEnd
<1>11. ASSUME NEW t \in Threads, IterMax(t) \/ ShutdownEnd(t)
       PROVE  IInv'
  <2>1. ShutdownOK'
    BY <1>11, <1>a, LeaveShutdown DEF IterMax, ShutdownEnd
  <2>. QED
    BY <1>11, <2>1, LocalStep DEF IterMax, ShutdownEnd
<1>12. ASSUME NEW t \in Threads, IterNext(t)
       PROVE  IInv'
  BY <1>12, <1>a, LocalStep DEF IterNext, ShutdownOK
<1>13. ASSUME NEW t \in Threads, ShutdownBegin(t)
       PROVE  IInv'
  BY <1>13, ShutdownBeginIInv
<1>14. CASE Restart
  BY <1>14, RestartIInv
<1>15. CASE RestartLoadPanics
  BY <1>15, <1>a, LocalStep DEF RestartLoadPanics, ShutdownOK
<1>16. CASE UNCHANGED vars
  BY <1>16, <1>a, LocalStep DEF vars, ShutdownOK
<1>. QED
  BY <1>1, <1>2, <1>3, <1>4, <1>5, <1>6, <1>7, <1>8, <1>9, <1>10, <1>11, <1>12,
     <1>13, <1>14, <1>15, <1>16 DEF Next

-----------------------------------------------------------------------------
(* The theorem.                                                            *)

(* Spec 8.1/8.4, for every number of threads, containers, values and every *)
(* slot-id width: while a ValueId is live in a registered container,       *)
(* get_value returns the bytes of the insert_value that returned it --     *)
(* insert_value's last_insert + 1 never lands on a live key, through       *)
(* interleaved calls, remove/create of the same id, and restarts.          *)
THEOREM ValueIdStableHolds == Spec => []ValueIdStable
<1>1. IInv => ValueIdStable
  BY DEF IInv
<1>. QED
  BY InitIInv, NextIInv, <1>1, PTL DEF Spec

-----------------------------------------------------------------------------
(* last_insert within one process.                                         *)

(* Every step either keeps restarts or counts one restart. *)
LEMMA RestartsStep ==
  ASSUME restarts \in Nat, [Next]_vars
  PROVE  restarts' \in Nat /\ (restarts' = restarts \/ Restart \/ RestartLoadPanics)
<1>1. CASE Restart \/ RestartLoadPanics
  BY <1>1 DEF Restart, RestartLoadPanics
<1>2. CASE ~Restart /\ ~RestartLoadPanics
  <2>1. UNCHANGED restarts
    BY <1>2, Zenon DEF Next, vars, InsertValue, InsertMissingPanics,
       InsertOverflowPanics, DeleteValue, UpdateDelete, CreateContainer,
       RemoveContainer, IterOpen, IterOpenPanics, ShutdownWrite,
       CallPanicsPoisoned, IterMax, IterMaxPanics, IterNext, IterNextPanics,
       IterEnd, ShutdownBegin, ShutdownEnd
  <2>. QED
    BY <2>1
<1>. QED
  BY <1>1, <1>2

(* A step that is not a restart keeps every last_insert entry and moves   *)
(* none of them down.                                                      *)
LEMMA LastStep ==
  ASSUME IInv, restarts \in Nat, [Next]_vars, restarts' = restarts
  PROVE  \A c \in DOMAIN last : c \in DOMAIN last' /\ last[c] <= last'[c]
<1>1. ~Restart /\ ~RestartLoadPanics
  BY DEF Restart, RestartLoadPanics
<1>2. CASE \E t \in Threads, c \in ContainerIds, v \in Values : InsertValue(t, c, v)
  <2>1. PICK t \in Threads, c \in ContainerIds, v \in Values : InsertValue(t, c, v)
    BY <1>2
  <2>2. last' = Put(last, c, NextSlot(c))
    BY <2>1 DEF InsertValue
  <2>3. \A d \in DOMAIN last : last[d] \in Nat
    BY ConstantsAssumption DEF IInv, SlotsOK, Slots
  <2>. QED
    BY <2>2, <2>3 DEF Put, NextSlot
<1>3. CASE ~\E t \in Threads, c \in ContainerIds, v \in Values : InsertValue(t, c, v)
  <2>1. UNCHANGED last
    BY <1>1, <1>3, Zenon DEF Next, vars, InsertMissingPanics,
       InsertOverflowPanics, DeleteValue, UpdateDelete, CreateContainer,
       RemoveContainer, IterOpen, IterOpenPanics, ShutdownWrite,
       CallPanicsPoisoned, IterMax, IterMaxPanics, IterNext, IterNextPanics,
       IterEnd, ShutdownBegin, ShutdownEnd
  <2>2. \A d \in DOMAIN last : last[d] \in Nat
    BY ConstantsAssumption DEF IInv, SlotsOK, Slots
  <2>. QED
    BY <2>1, <2>2
<1>. QED
  BY <1>2, <1>3

(* insert_value only moves last_insert on and remove_container keeps it:  *)
(* within one process a container id's last_insert never loses its entry *)
(* nor goes down, for every number of threads, containers and values.     *)
THEOREM LastInsertGrowsHolds == Spec => LastInsertGrows
<1>. DEFINE Inv == IInv /\ restarts \in Nat
<1>1. Init => Inv
  BY InitIInv DEF Init
<1>2. Inv /\ [Next]_vars => Inv'
  BY NextIInv, RestartsStep
<1>3. Inv /\ [Next]_vars =>
        [restarts' = restarts =>
           \A c \in DOMAIN last : c \in DOMAIN last' /\ last[c] <= last'[c]]_vars
  BY LastStep
<1>. QED
  BY <1>1, <1>2, <1>3, PTL DEF Spec, LastInsertGrows

=============================================================================
