------------------------------ MODULE Memstore ------------------------------
(***************************************************************************)
(* The in-memory storage manager the server runs with                     *)
(* (memstore/src/storage_manager.rs), shared by several server threads.   *)
(*                                                                         *)
(* State, as in `struct StorageManager`:                                   *)
(*   reg      -- `containers`: ContainerId -> the ContainerMap registered  *)
(*               under it (a partial function)                             *)
(*   maps     -- every ContainerMap (Arc<RwLock<HashMap<ValueId,Vec<u8>>>>) *)
(*               made in this process, by instance <<c, g>>; an iterator   *)
(*               keeps its Arc after remove_container drops the entry      *)
(*   last     -- `last_insert`: ContainerId -> slot id of the last insert  *)
(*   files    -- persist_path/<c>.ms: the map last written and the file's  *)
(*               length in bytes                                           *)
(*   poisoned -- a writer panicked holding the `containers` and            *)
(*               `last_insert` write guards, so both locks are poisoned    *)
(*   mapPoisoned -- the ContainerMaps whose own lock is poisoned           *)
(*   down     -- StorageManager::new panicked in load; the store is gone   *)
(* and per thread: pc, the pending insert of update_value (upd), the       *)
(* iterator (it) and the containers left to write in shutdown (todo).      *)
(*                                                                         *)
(* Every call except update_value, get_iterator/next and shutdown holds    *)
(* the `containers` lock for its whole body and is one step.  A key of a   *)
(* container's map is the ValueId's slot id (container_id is the map's     *)
(* own, segment and page ids are None).  Values are model values with a    *)
(* length.  History variables, used only by the properties:                *)
(*   hist  -- per container id, the value the first insert returning each  *)
(*            slot id stored (reset to the loaded files on restart)        *)
(*   clean -- no write since the last completed shutdown                  *)
(***************************************************************************)
EXTENDS Naturals, FiniteSets

CONSTANTS
  Threads,       \* server threads calling the shared StorageManager
  ContainerIds,  \* container ids the callers use
  Values,        \* the byte vectors callers store, as model values
  ValueLen,      \* ValueLen[v] = encoded length of v in the .ms file
  EntryLen,      \* encoded length of one ValueId key in the .ms file
  MAX_SLOT,      \* u16::MAX for SlotId (65535 in the code)
  MaxGen,        \* bound: ContainerMaps made per container id per process
  MaxRestarts    \* bound: process restarts

ASSUME ConstantsAssumption ==
  /\ MAX_SLOT \in Nat
  /\ EntryLen \in Nat
  /\ ValueLen \in [Values -> Nat]
  /\ MaxGen \in Nat /\ MaxRestarts \in Nat

Slots     == 0..MAX_SLOT
Instances == ContainerIds \X (0..MaxGen)

VARIABLES reg, maps, gen, last, files, poisoned, mapPoisoned, down, restarts,
          pc, upd, it, todo, hist, clean

vars == <<reg, maps, gen, last, files, poisoned, mapPoisoned, down, restarts,
          pc, upd, it, todo, hist, clean>>

-----------------------------------------------------------------------------
(* HashMap operations on partial functions.                                *)

Put(f, k, v) == [x \in DOMAIN f \cup {k} |-> IF x = k THEN v ELSE f[x]]
Drop(f, k)   == [x \in DOMAIN f \ {k} |-> f[x]]
EmptyMap     == [x \in {} |-> MAX_SLOT]

(* Length of serde_cbor::to_writer(file, map): one key and one value per   *)
(* entry (the map header is left out; only comparisons of lengths matter).*)
EncLen(m) ==
  LET sum[S \in SUBSET DOMAIN m] ==
        IF S = {} THEN 0
        ELSE LET k == CHOOSE x \in S : TRUE
             IN  EntryLen + ValueLen[m[k]] + sum[S \ {k}]
  IN  sum[DOMAIN m]

(* Mutant of MaxKey: the comparison in load's loop inverted, so max_val   *)
(* stays Some(0).                                                          *)
MaxKeyNoScan(m) == 0

(* load: the greatest slot id among the keys, starting from Some(0). *)
MaxKey(m) == IF DOMAIN m = {} THEN 0
             ELSE CHOOSE k \in DOMAIN m : \A j \in DOMAIN m : j <= k

(* What the registry holds: container id -> its map's contents. *)
Contents == [c \in DOMAIN reg |-> maps[reg[c]]]

(* A call's locals, when the thread has none. *)
NoCall == "none"

-----------------------------------------------------------------------------
(* Guards.                                                                 *)

(* A thread may start a call: the process is up and the `containers` lock  *)
(* is not poisoned (every call starts with containers.read/write().unwrap()).*)
Ready(t) == pc[t] = "idle" /\ ~down /\ ~poisoned

(* A running shutdown holds the containers read guard over all its writes, *)
(* so the calls that take the write guard wait.                            *)
ShutdownRunning == \E t \in Threads : pc[t] = "shutdown"

(* insert_value's body may run: called directly on a registered container  *)
(* (callers create a table's container before inserting), or as the second *)
(* half of update_value with the container and value it was given.        *)
InsertCall(t, c, v) ==
  /\ ~down /\ ~poisoned /\ ~ShutdownRunning
  /\ \/ pc[t] = "idle" /\ c \in DOMAIN reg
     \/ pc[t] = "upd_insert" /\ upd[t] = [c |-> c, v |-> v]

(* `slot.slot_id.expect(..) + 1` on the u16 slot id. *)
Overflows(c) == c \in DOMAIN last /\ last[c] = MAX_SLOT

(* Mutant of NextSlot: the last slot id is returned again. *)
NextSlotNoIncrement(c) == IF c \in DOMAIN last THEN last[c] ELSE 0

(* insert_value: 0 for a container never inserted into, else last + 1. *)
NextSlot(c) == IF c \in DOMAIN last THEN last[c] + 1 ELSE 0

(* The end of a call: back to idle with no locals. *)
Return(t) ==
  /\ pc' = [pc EXCEPT ![t] = "idle"]
  /\ upd' = [upd EXCEPT ![t] = NoCall]
  /\ it' = [it EXCEPT ![t] = NoCall]

(* A panic unwinds the thread (the server's handler thread for a client). *)
Panic(t) ==
  /\ pc' = [pc EXCEPT ![t] = "panicked"]
  /\ upd' = [upd EXCEPT ![t] = NoCall]
  /\ it' = [it EXCEPT ![t] = NoCall]

-----------------------------------------------------------------------------
(* Operations.                                                             *)

Init ==
  /\ reg = EmptyMap
  /\ maps = EmptyMap
  /\ gen = [c \in ContainerIds |-> 0]
  /\ last = EmptyMap
  /\ files = EmptyMap
  /\ poisoned = FALSE
  /\ mapPoisoned = {}
  /\ down = FALSE
  /\ restarts = 0
  /\ pc = [t \in Threads |-> "idle"]
  /\ upd = [t \in Threads |-> NoCall]
  /\ it = [t \in Threads |-> NoCall]
  /\ todo = [t \in Threads |-> {}]
  /\ hist = [c \in ContainerIds |-> EmptyMap]
  /\ clean = TRUE

(* Mutant of InsertValue: the u16 addition is not checked for overflow. *)
InsertValueUnchecked(t, c, v) ==
  LET next == NextSlot(c) IN
  /\ InsertCall(t, c, v)
  /\ c \in DOMAIN reg
  /\ maps' = [maps EXCEPT ![reg[c]] = Put(@, next, v)]
  /\ last' = Put(last, c, next)
  /\ hist' = IF next \in DOMAIN hist[c] THEN hist
             ELSE [hist EXCEPT ![c] = Put(@, next, v)]
  /\ clean' = FALSE
  /\ Return(t)
  /\ UNCHANGED <<reg, gen, files, poisoned, mapPoisoned, down, restarts, todo>>

(* insert_value: under the containers, last_insert and map write guards,  *)
(* store the value under the next slot id and record it as the last.      *)
InsertValue(t, c, v) ==
  LET next == NextSlot(c) IN
  /\ InsertCall(t, c, v)
  /\ c \in DOMAIN reg
  /\ ~Overflows(c)
  /\ maps' = [maps EXCEPT ![reg[c]] = Put(@, next, v)]
  /\ last' = Put(last, c, next)
  /\ hist' = IF next \in DOMAIN hist[c] THEN hist
             ELSE [hist EXCEPT ![c] = Put(@, next, v)]
  /\ clean' = FALSE
  /\ Return(t)
  /\ UNCHANGED <<reg, gen, files, poisoned, mapPoisoned, down, restarts, todo>>

(* insert_value on a container no longer registered: the expect panics    *)
(* while the containers and last_insert write guards are held.            *)
InsertMissingPanics(t, c, v) ==
  /\ InsertCall(t, c, v)
  /\ c \notin DOMAIN reg
  /\ poisoned' = TRUE
  /\ Panic(t)
  /\ UNCHANGED <<mapPoisoned, reg, maps, gen, last, files, down, restarts, todo, hist, clean>>

(* insert_value past slot id u16::MAX: the addition panics while all three *)
(* write guards, the map's included, are held.                            *)
InsertOverflowPanics(t, c, v) ==
  /\ InsertCall(t, c, v)
  /\ c \in DOMAIN reg
  /\ Overflows(c)
  /\ poisoned' = TRUE
  /\ mapPoisoned' = mapPoisoned \cup {reg[c]}
  /\ Panic(t)
  /\ UNCHANGED <<reg, maps, gen, last, files, down, restarts, todo, hist, clean>>

(* delete_value of a live value (a missing container is an Err and a      *)
(* missing key is Ok; neither changes anything).                          *)
DeleteValue(t, c, k) ==
  /\ Ready(t) /\ ~ShutdownRunning
  /\ c \in DOMAIN reg
  /\ k \in DOMAIN maps[reg[c]]
  /\ maps' = [maps EXCEPT ![reg[c]] = Drop(@, k)]
  /\ clean' = FALSE
  /\ UNCHANGED <<reg, gen, last, files, poisoned, mapPoisoned, down, restarts,
                 pc, upd, it, todo, hist>>

(* update_value, first half: delete_value(id)? (returns early with Err     *)
(* when the container is missing); the insert is a separate call that      *)
(* takes the locks again.                                                  *)
UpdateDelete(t, c, k, v) ==
  /\ Ready(t) /\ ~ShutdownRunning
  /\ c \in DOMAIN reg
  /\ maps' = IF k \in DOMAIN maps[reg[c]]
             THEN [maps EXCEPT ![reg[c]] = Drop(@, k)] ELSE maps
  /\ clean' = (clean /\ k \notin DOMAIN maps[reg[c]])
  /\ pc' = [pc EXCEPT ![t] = "upd_insert"]
  /\ upd' = [upd EXCEPT ![t] = [c |-> c, v |-> v]]
  /\ UNCHANGED <<reg, gen, last, files, poisoned, mapPoisoned, down, restarts, it, todo, hist>>

(* create_container of a new id registers a fresh, empty ContainerMap. *)
CreateContainer(t, c) ==
  /\ Ready(t) /\ ~ShutdownRunning
  /\ c \notin DOMAIN reg
  /\ gen[c] < MaxGen
  /\ reg' = Put(reg, c, <<c, gen[c]>>)
  /\ maps' = Put(maps, <<c, gen[c]>>, EmptyMap)
  /\ gen' = [gen EXCEPT ![c] = @ + 1]
  /\ clean' = FALSE
  /\ UNCHANGED <<last, files, poisoned, mapPoisoned, down, restarts, pc, upd, it, todo, hist>>

(* Mutant of RemoveContainer: the container's last_insert entry is       *)
(* dropped with its registry entry.                                       *)
RemoveContainerForgetsLast(t, c) ==
  /\ Ready(t) /\ ~ShutdownRunning
  /\ c \in DOMAIN reg
  /\ reg' = Drop(reg, c)
  /\ last' = Drop(last, c)
  /\ clean' = FALSE
  /\ UNCHANGED <<maps, gen, files, poisoned, mapPoisoned, down, restarts,
                 pc, upd, it, todo, hist>>

(* remove_container drops the registry entry only: last_insert keeps its  *)
(* entry and the .ms file stays on disk.                                  *)
RemoveContainer(t, c) ==
  /\ Ready(t) /\ ~ShutdownRunning
  /\ c \in DOMAIN reg
  /\ reg' = Drop(reg, c)
  /\ clean' = FALSE
  /\ UNCHANGED <<maps, gen, last, files, poisoned, mapPoisoned, down, restarts,
                 pc, upd, it, todo, hist>>
(* Any call while the containers lock is poisoned: its unwrap panics. *)
CallPanicsPoisoned(t) ==
  /\ pc[t] \in {"idle", "upd_insert"}
  /\ ~down
  /\ poisoned
  /\ Panic(t)
  /\ UNCHANGED <<reg, maps, gen, last, files, poisoned, mapPoisoned, down, restarts,
                 todo, hist, clean>>

(* get_iterator, first statement: clone the ContainerMap's Arc under the  *)
(* containers read guard (dropped at the end of the statement).  `start`  *)
(* records the keys live at this point, for the properties only.          *)
IterOpen(t, c) ==
  /\ Ready(t)
  /\ c \in DOMAIN reg
  /\ pc' = [pc EXCEPT ![t] = "iter_max"]
  /\ it' = [it EXCEPT ![t] = [c |-> c, inst |-> reg[c], cur |-> 0, max |-> 0,
                              start |-> DOMAIN maps[reg[c]], yielded |-> {}]]
  /\ UNCHANGED <<reg, maps, gen, last, files, poisoned, mapPoisoned, down, restarts,
                 upd, todo, hist, clean>>

(* get_iterator on an unregistered container: `.get(..).unwrap()` panics. *)
IterOpenPanics(t, c) ==
  /\ Ready(t)
  /\ c \notin DOMAIN reg
  /\ Panic(t)
  /\ UNCHANGED <<reg, maps, gen, last, files, poisoned, mapPoisoned, down, restarts,
                 todo, hist, clean>>

(* get_iterator, then: max = last_insert[c].slot_id, taken under the       *)
(* last_insert read guard.                                                 *)
IterMax(t) ==
  /\ pc[t] = "iter_max" /\ ~down
  /\ ~poisoned
  /\ it[t].c \in DOMAIN last
  /\ pc' = [pc EXCEPT ![t] = "iter_next"]
  /\ it' = [it EXCEPT ![t].max = last[it[t].c]]
  /\ UNCHANGED <<reg, maps, gen, last, files, poisoned, mapPoisoned, down, restarts,
                 upd, todo, hist, clean>>

(* `last_insert.get(&container_id).unwrap()` panics for a container that  *)
(* was never inserted into (as does a poisoned last_insert lock).          *)
IterMaxPanics(t) ==
  /\ pc[t] = "iter_max" /\ ~down
  /\ poisoned \/ it[t].c \notin DOMAIN last
  /\ Panic(t)
  /\ UNCHANGED <<reg, maps, gen, last, files, poisoned, mapPoisoned, down, restarts,
                 todo, hist, clean>>

(* ValueIterator::next, one turn of its loop: read slot `current` under   *)
(* the map's read guard, yield it if present, advance both counters.      *)
IterNext(t) ==
  LET i == it[t] IN
  /\ pc[t] = "iter_next" /\ ~down
  /\ i.cur <= i.max
  /\ i.inst \notin mapPoisoned
  /\ i.cur < MAX_SLOT
  /\ it' = [it EXCEPT ![t].cur = i.cur + 1,
                      ![t].yielded = IF i.cur \in DOMAIN maps[i.inst]
                                     THEN @ \cup {i.cur} ELSE @]
  /\ UNCHANGED <<reg, maps, gen, last, files, poisoned, mapPoisoned, down, restarts,
                 pc, upd, todo, hist, clean>>

(* ValueIterator::next at current = u16::MAX: `current += 1` overflows     *)
(* (or the map's lock is poisoned).                                        *)
IterNextPanics(t) ==
  /\ pc[t] = "iter_next" /\ ~down
  /\ it[t].cur <= it[t].max
  /\ it[t].inst \in mapPoisoned \/ it[t].cur = MAX_SLOT
  /\ Panic(t)
  /\ UNCHANGED <<reg, maps, gen, last, files, poisoned, mapPoisoned, down, restarts,
                 todo, hist, clean>>

(* ValueIterator::next returns None once current > max. *)
IterEnd(t) ==
  /\ pc[t] = "iter_next" /\ ~down
  /\ it[t].cur > it[t].max
  /\ Return(t)
  /\ UNCHANGED <<reg, maps, gen, last, files, poisoned, mapPoisoned, down, restarts,
                 todo, hist, clean>>

(* shutdown takes the containers read guard and writes every container,   *)
(* in HashMap order, one file at a time.                                   *)
ShutdownBegin(t) ==
  /\ Ready(t)
  /\ pc' = [pc EXCEPT ![t] = "shutdown"]
  /\ todo' = [todo EXCEPT ![t] = DOMAIN reg]
  /\ UNCHANGED <<reg, maps, gen, last, files, poisoned, mapPoisoned, down, restarts,
                 upd, it, hist, clean>>

(* OpenOptions::new().write(true).create(true) without truncate: the       *)
(* encoding overwrites the start of the file and a longer old file keeps   *)
(* its tail.                                                               *)
ShutdownWrite(t, c) ==
  LET m   == maps[reg[c]]
      old == IF c \in DOMAIN files THEN files[c].len ELSE 0
  IN
  /\ pc[t] = "shutdown" /\ ~down
  /\ c \in todo[t]
  /\ files' = Put(files, c, [map |-> m,
                             len |-> IF old > EncLen(m) THEN old ELSE EncLen(m)])
  /\ todo' = [todo EXCEPT ![t] = @ \ {c}]
  /\ UNCHANGED <<reg, maps, gen, last, poisoned, mapPoisoned, down, restarts,
                 pc, upd, it, hist, clean>>

ShutdownEnd(t) ==
  /\ pc[t] = "shutdown" /\ ~down
  /\ todo[t] = {}
  /\ pc' = [pc EXCEPT ![t] = "idle"]
  /\ clean' = TRUE
  /\ UNCHANGED <<reg, maps, gen, last, files, poisoned, mapPoisoned, down, restarts,
                 upd, it, todo, hist>>

(* serde_cbor::from_reader rejects bytes after the encoded map. *)
TrailingData(c) == files[c].len > EncLen(files[c].map)

(* The process ends (after a shutdown or not) and StorageManager::new on   *)
(* the same path runs load: one ContainerMap per .ms file, last_insert     *)
(* the greatest key (Some(0) for an empty file).  Threads start idle.      *)
Restart ==
  /\ ~down
  /\ restarts < MaxRestarts
  /\ \A c \in DOMAIN files : ~TrailingData(c)
  /\ reg' = [c \in DOMAIN files |-> <<c, 0>>]
  /\ maps' = [i \in {<<c, 0>> : c \in DOMAIN files} |-> files[i[1]].map]
  /\ gen' = [c \in ContainerIds |-> IF c \in DOMAIN files THEN 1 ELSE 0]
  /\ last' = [c \in DOMAIN files |-> MaxKey(files[c].map)]
  /\ poisoned' = FALSE
  /\ mapPoisoned' = {}
  /\ restarts' = restarts + 1
  /\ pc' = [t \in Threads |-> "idle"]
  /\ upd' = [t \in Threads |-> NoCall]
  /\ it' = [t \in Threads |-> NoCall]
  /\ todo' = [t \in Threads |-> {}]
  /\ hist' = [c \in ContainerIds |-> IF c \in DOMAIN files THEN files[c].map
                                      ELSE EmptyMap]
  /\ clean' = TRUE
  /\ UNCHANGED <<files, down>>

(* load's `expect("cannot read file")` panics on a file with trailing data. *)
RestartLoadPanics ==
  /\ ~down
  /\ restarts < MaxRestarts
  /\ \E c \in DOMAIN files : TrailingData(c)
  /\ down' = TRUE
  /\ restarts' = restarts + 1
  /\ UNCHANGED <<reg, maps, gen, last, files, poisoned, mapPoisoned, pc, upd, it, todo,
                 hist, clean>>

Next ==
  \/ \E t \in Threads, c \in ContainerIds, v \in Values :
        \/ InsertValue(t, c, v)
        \/ InsertMissingPanics(t, c, v)
        \/ InsertOverflowPanics(t, c, v)
  \/ \E t \in Threads, c \in ContainerIds, k \in Slots :
        \/ DeleteValue(t, c, k)
        \/ \E v \in Values : UpdateDelete(t, c, k, v)
  \/ \E t \in Threads, c \in ContainerIds :
        \/ CreateContainer(t, c)
        \/ RemoveContainer(t, c)
        \/ IterOpen(t, c)
        \/ IterOpenPanics(t, c)
        \/ ShutdownWrite(t, c)
  \/ \E t \in Threads :
        \/ CallPanicsPoisoned(t)
        \/ IterMax(t) \/ IterMaxPanics(t)
        \/ IterNext(t) \/ IterNextPanics(t) \/ IterEnd(t)
        \/ ShutdownBegin(t) \/ ShutdownEnd(t)
  \/ Restart
  \/ RestartLoadPanics

Spec == Init /\ [][Next]_vars

-----------------------------------------------------------------------------
(* Properties.                                                             *)

FileRec == [map : UNION {[S -> Values] : S \in SUBSET Slots}, len : Nat]

(* Type invariant of the storage manager's state. *)
TypeOK ==
  /\ DOMAIN reg \subseteq ContainerIds /\ \A c \in DOMAIN reg : reg[c] \in Instances
  /\ gen \in [ContainerIds -> 0..MaxGen]
  /\ \A c \in DOMAIN last : last[c] \in Slots
  /\ \A c \in DOMAIN files : files[c] \in FileRec
  /\ poisoned \in BOOLEAN /\ mapPoisoned \subseteq Instances
  /\ down \in BOOLEAN /\ clean \in BOOLEAN
  /\ restarts \in 0..MaxRestarts
  /\ pc \in [Threads -> {"idle", "upd_insert", "iter_max", "iter_next",
                         "shutdown", "panicked"}]

(* Spec 8.1/8.4: while a ValueId is live, get_value returns the bytes of   *)
(* the insert_value that returned it.  insert_value takes last_insert + 1  *)
(* without checking the key is free, so this needs last_insert to stay     *)
(* above every id handed out for the container id -- across               *)
(* remove/create_container and, after a restart, as recomputed by load.   *)
ValueIdStable ==
  \A c \in DOMAIN reg : \A k \in DOMAIN maps[reg[c]] :
    k \in DOMAIN hist[c] /\ hist[c][k] = maps[reg[c]][k]

(* Spec 4.5: an iterator yields every record that existed when it was     *)
(* created and has not been deleted, by the time it returns None; the      *)
(* bound is last_insert read after the Arc was cloned.                     *)
IterComplete ==
  \A t \in Threads :
    pc[t] = "iter_next" /\ it[t].cur > it[t].max =>
      it[t].start \cap DOMAIN maps[it[t].inst] \subseteq it[t].yielded

(* Within one process, last_insert of a container id never loses its      *)
(* entry and never goes down: insert_value only moves it on, and          *)
(* remove_container leaves it, so a slot id handed out before a           *)
(* remove/create_container of the same id is not handed out again.       *)
LastInsertGrows ==
  [][restarts' = restarts =>
       \A c \in DOMAIN last : c \in DOMAIN last' /\ last[c] <= last'[c]]_vars

(* Spec 5/7: restarting after a completed shutdown does not fail. *)
RestartAfterShutdownSucceeds == [][clean /\ RestartLoadPanics => FALSE]_vars

(* Spec 7: errors are returned, and a failed call leaves the store usable: *)
(* no lock is ever poisoned.                                               *)
NeverPoisoned == ~poisoned

=============================================================================
