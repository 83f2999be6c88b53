# Formal models of the crustydb storage core

This directory holds TLA+ models of the storage core in `src/`. It has
TLC configurations that check the models on small instances, and TLAPS
proofs that cover every instance. Each module is written from the Rust
source. The comments in a module quote the function each definition
translates, and `PROJECT.json` ("map") gives the exact lines.

## 1. The system

The storage core is a set of Rust crates:

| Part | Source | Role |
|---|---|---|
| Page | `heapstore/src/page.rs` | A 4096-byte slotted page. The header holds the page id, the slot count and one `Slot {slot_id, slot_offset, size}` (6 bytes) per live record. Records grow down from the end of the page. The `largest_free_space` counter gates inserts. The operations are `new`, `add_value` (with the search `find_free`), `get_value`, `delete_value`, `get_bytes`/`from_bytes` and `PageIter`. |
| HeapFile | `heapstore/src/heapfile.rs` | One file of pages per container. `write_page_to_file` and `read_page_from_file` seek the shared file cursor and transfer 4096 bytes. Both take only the *read* guard of the file's `RwLock`. |
| HeapFileIterator | `heapstore/src/heapfileiter.rs` | Iterates the pages of a heap file. Only reachable through the heapstore storage manager's `get_iterator`, which is `panic!("TODO")`. |
| Heapstore StorageManager | `heapstore/src/storage_manager.rs` | The intended page-based storage manager. It does not compile: `create_container` stops mid-expression at line 288, and most operations are `panic!("TODO")`. |
| Buffer pool | (none) | Spec section 4.3 describes one, and `bp_tests.rs` tests one, but no source implements it. |
| Memstore StorageManager | `memstore/src/storage_manager.rs` | The storage manager the server actually runs with (`server/src/main.rs`). It keeps containers as hash maps behind `RwLock`s, plus a `last_insert` map for the next slot id. It persists with CBOR on `shutdown` and reloads in `load`. |
| Server state | `server/src/server_state.rs`, `database_state.rs`, `handler.rs`, `main.rs` | One thread per client. It keeps the connection maps behind `RwLock`s and persists a database when its last client leaves. |
| Executor, planner, catalog, CLI | `queryexe/`, `common/src/logical_plan`, `cli-crusty/` | Query evaluation and user I/O over the storage interface. |

How the parts interact:
- Client threads call into the server state.
- The server state calls the memstore storage manager through the executor.
- The heapstore stack (storage manager, buffer pool, heap file, page) is the intended replacement for memstore. Of that stack, only the page and the heap file are complete enough to run; they are exercised by their unit tests.

## 2. What is modelled

### Page (`Page.tla`)

The model tracks four pieces of state:
- `slots`: the `Vec<Slot>` in insertion order, as a sequence of records.
- `lfs`: `largest_free_space`.
- `data`: the data array. A byte is `Zero` or `<<p, k>>`, meaning byte `k` of payload `p`. This lets the model see whether a record's bytes are still its own.
- `panicked`: a debug-build overflow panic happened inside a call. The page is then dropped and takes no further calls.

Each operation maps to one action, and each action covers the whole call:
- `AddValue(p)` is the success path of `add_value`. Its guards are the checks `find_free` and `add_value` make. It copies the bytes and pushes the Slot (the helper `Place`), then charges `len + 6`.
- `AddValueFindFreePanics(p)` is the u16 underflow at `page.rs:182`. `find_free` runs before the size check.
- `AddValueChargePanics(p)` is the u16 underflow at `page.rs:225`. It happens after the bytes are copied and the slot is pushed.
- `DeleteValue(s)` covers both branches of `delete_value`. Id 0 zeroes from the offset of `slot_vec[0]` to the end of the page. The free-space counter is never credited.
- `find_free` is split into helpers:
  - `NewSlotId` is the least unused id, found by scanning the sorted ids.
  - `FittingGaps`, `FirstGap` and `GapFits` search for holes between *Vec neighbours*, as the loop does.
  - `BelowLastUnderflows` and `StartIndex` place the record below the last slot when no hole fits.
- `GetValue` and `IterIds` are the read-only `get_value` and `PageIter::next`. `IterIds` probes ids `0..slot_count`.

`PageSpec.tla` is the abstract page of spec section 4.1: a map from slot id to payload, where a new id is the least unused one. `MCPage.tla` maps the byte array back to payloads (`AbsRecords`) and checks `PageSpec` as a property of `Page`.

### HeapFile and its iterator (`HeapFile.tla`, `PageStore.tla`)

The model's state:
- `file` is the file's contents as a sequence of page images, one per 4096-byte block. A page image is `[pid, body]`: the page id in its header and its records, abstracted to one model value of `Bodies`, or `NoBody` for a page with no records.
- `cursor` is the offset of the one OS file cursor, in pages. Every thread seeks and reads or writes through the same `File`, and the `RwLock` around it is only ever read-locked. Taking the lock never blocks, so it is not a step.
- Per thread: `pc`, the return point of a read in progress (`retpc`), the page id it reads (`rq`), the page the read returned (`res`) and the page it writes (`wp`).
- `it` is each thread's `HeapFileIterator`: `curr_pid`, whether the current `PageIter` still has a record (`pend`), and `pageCnt`. The history fields `start`, `touched` and `seen` serve only `IterYieldsAll`.

The whole calls map to actions as follows:
- `write_page_to_file` is `WriteSeek` (the seek to `pid * PAGE_SIZE`), then `WriteFlush`. The `BufWriter` flush writes at wherever the cursor is by then, and moves it on. A write past the end leaves a hole that reads back as zeros (`WriteAt`).
- `read_page_from_file` is `ReadSeek`, then `ReadExact`. `read_exact` fills a zeroed buffer and its error is ignored, so a read at or past the end returns the zero page (`ZeroImage`, what `Page::from_bytes` makes of 4096 zeros) and leaves the cursor where it is.
- A caller's read is `ReadPage`.
- `HeapFileIterator::new` is `IterNew` and `IterNewDone` (read page 0).
- `next` is the following sequence:
  - `IterNextCall`, which re-reads `num_pages`;
  - `IterYield` when the current page has a record;
  - `IterAdvance` and `IterGot` to read the next page, also one and two pages past the end;
  - `IterEnd` when `curr_pid > pageCnt`.

Fairness: `FairSpec` makes each thread's `Step` weakly fair. `Step` is every step inside a call the thread has begun. None of these steps waits: the lock is only read-locked and file I/O returns. Beginning a call is the caller's choice, so it is not fair.

`PageStore.tla` is what a heap file promises its callers (spec 5.3): a map from page id to the page last written under it, with reads as a call and a return. `HeapFile` maps onto it by `store <- [i |-> FileAt(i)]` and checks it as the property `PageStoreSpec`.

### Memstore StorageManager (`Memstore.tla`)

The model's state follows `struct StorageManager`:
- `reg` is the `containers` registry: a partial function from container id to the `ContainerMap` instance `<<c, g>>` registered under it.
- `maps` holds the contents of every `ContainerMap` made in this process. An iterator keeps its `Arc` after `remove_container` drops the registry entry, so a map outlives its registration.
- `last` is `last_insert`.
- `files` holds the `.ms` files: the map last written and the file's length.
- `poisoned` and `mapPoisoned` record `RwLock` poisoning. `down` records a panic in `load`, after which the store cannot be opened.
- Per thread: `pc`, the pending insert of `update_value` (`upd`), the iterator (`it`), and the containers `shutdown` still has to write (`todo`).

Every call that holds the `containers` lock for its whole body is one action:
- `insert_value`: its success path is `InsertValue`, and the two panics are `InsertMissingPanics` and `InsertOverflowPanics` (the u16 `last + 1`).
- `delete_value`, `create_container` and `remove_container` are one action each.

The calls that release and retake locks are split at those points:
- `update_value` is `UpdateDelete`, then an insert.
- `get_iterator` is `IterOpen`, which clones the Arc, then `IterMax`, which reads `last_insert`.
- `ValueIterator::next` is one `IterNext` per slot probed, and `IterEnd` at the end.
- `shutdown` is `ShutdownBegin`, one `ShutdownWrite` per file, then `ShutdownEnd`.

A process restart followed by `StorageManager::new` is `Restart`, which runs `load`. `RestartLoadPanics` is `load`'s `expect` failing on trailing bytes.

Two history variables serve only the properties:
- `hist` records, per container id, the value stored by the first insert that returned each slot id.
- `clean` means no write has happened since the last completed shutdown.

### Server connection state (`Server.tla`)

There is one handler thread per TCP connection (`main.rs`). Each thread has a `pc` for the step it is at inside a request.

The shared state:
- `idToDb` is `id_to_db`. It maps a name to the `DatabaseState` object `<<d, g>>`.
- `dbClients` is each object's `active_client_connections`.
- `active` is `active_connections`.
- `acLock` and `dbLock` are the two `RwLock`s. Each records the threads holding a read guard and the write guard.
- `persisted` holds the objects written to `<name>.json`.

A thread takes a step at every lock acquisition that can block, in the code's order:
- `create_database` is one step under `id_to_db.write()`.
- `connect_to_db` is four steps. Its last three hold an `id_to_db` read guard, and the third also takes `active_connections.write()`.
- The SQL path of `handle_client_request` is two steps. It holds the `active_connections` read guard while it takes the `id_to_db` read guard.
- `close_client_connection` is three steps (`CloseLookup`, `CloseRemove`, then `ClosePersist` or `CloseKeep`), all under its `active_connections` read guard. It then asks for `active_connections.write()` on the same lock. No action leaves that point, because the write can never be granted while the thread is one of the readers.

`WRITER_PREFERRING` chooses the lock policy:
- `TRUE` is std's futex `RwLock` on Linux: `read()` waits while a writer waits.
- `FALSE` is a reader-preferring lock.

The source does not pin a toolchain, so `FALSE` is kept as a parameter. The runs use `TRUE`, which is what a Linux build gets. Write guards are taken and released within one step, so no action records a writer. Under `FALSE`, every `read()` would therefore be granted at once, and a run would show little. `Commands` chooses which requests clients send.

Fairness: each thread's steps are weakly fair (`WF_vars(Progress(t))`). Every handler has its own OS thread, so a thread whose lock is grantable keeps being scheduled. Clients are not obliged to send requests, so `Request` is not fair.

## 3. Runs

All runs use `MCPage.tla` with `PAGE_SIZE = 48` and three payloads of length 2, 3 and 30:
- With the 2- and 3-byte values, holes appear and get reused after a delete. Sequences of 7 or more calls stay reachable.
- The 30-byte value triggers both panics: the free-space charge, and find_free's offset subtraction under a low last slot.
- A fresh page has 44 free bytes, so about six inserts fill it.

The state space is complete in about a second (7,550 states). `CHECK_DEADLOCK FALSE` is justified because a page really can stop: after a panic, or once it is permanently full (deletes never free space).

`MCMemstore.tla` has two threads, one container id, two values of encoded length 1 and 3, slot ids `0..1`, `MaxGen = 2` and one restart. Thread symmetry is used. Reasons for these bounds:
- `MAX_SLOT = 1` makes the u16 overflow reachable after two inserts.
- `MaxGen = 2` allows remove followed by re-create of the same id.
- The two value lengths let a later shutdown write a shorter file.

The run covers 354,733 states in about 20 seconds. The poisoning run uses `MAX_SLOT = 2`, so that the shortest counterexample is the `update_value` race, not the overflow.

`MCServer.tla` has up to three connections, two database names and up to two creates per name. `CHECK_DEADLOCK FALSE` is justified here because connections end: a closed or panicked thread takes no more steps. The symmetry of connections is not used, because the liveness run forbids it. The bounds per run:
- `server_invariants` has two connections from one host, so they share a client id. It allows a re-create of each name (`MaxGen = 2`) and has 79,458 states.
- `server_sql_completes` needs only two connections: one close and one reader.
- `server_lock_order` needs three: an SQL request, a connect and a create.

`MCHeapFile.tla` has `MAX_PAGES = 2` and two record bodies. With these bounds:
- a write to page 1 of an empty file leaves a hole at page 0;
- the iterator's reads run one and two pages past the end;
- pages can be rewritten with and without records while an iterator is open.

The passing run has one thread (38,050 states). The violation run has two threads.

| Run | Expect | What it shows |
|---|---|---|
| `page_invariants` | pass | `TypeOK`, `DirectoryWellFormed` and `FreeSpaceSound` hold. Every slot lies inside the page, ids are unique (`find_free`'s id search never returns a live id), and on a live page the header plus the free-space counter stays below every record. |
| `page_records_overlap` | violation | `RecordsDisjoint` fails after 6 calls. The sequence is add, add, add, delete id 1, then add (the record goes into the hole at 44). The Vec is now out of offset order, and the next add finds a "hole" between Vec neighbours 0 and 2 that is occupied by id 1. Two live records share bytes 44–45. |
| `page_refines_spec` | violation | `PageRefinesSpec` fails. The sequence is add, add, delete 0, add (it gets id 0 below id 1), then delete 0. That last delete zeroes from `slot_vec[0]` (id 1's offset) to the end, and id 1's bytes are lost. |
| `memstore_invariants` | pass | With two interleaved threads, remove/re-create and a restart:<br>- `ValueIdStable`: a live ValueId maps to the value its insert stored.<br>- `IterComplete`: an iterator yields every record that was live when it was created and has not been deleted since.<br>- `LastInsertGrows` (action property): between restarts, `last_insert` of a container id never loses its entry and never goes down. |
| `memstore_update_poisons` | violation | `NeverPoisoned` fails. The sequence is create, `update_value`'s delete half, then `remove_container` by the other thread. The insert half panics on `expect` with the `containers` and `last_insert` write guards held, and every later call panics. |
| `memstore_trailing_data` | violation | `RestartAfterShutdownSucceeds` fails. `shutdown` opens files without truncation; a shorter map leaves old bytes, and `load`'s `expect` panics. |
| `server_sql_completes` | violation | `SqlCompletes` fails with writer-preferring locks and every command. A client connects, then `\close` takes the `active_connections` read guard and waits at server_state.rs:120 for the write guard of the same lock. That wait never ends. Every later `read()` of `active_connections` queues behind the waiting writer, so another client's SQL request at handler.rs:112 is never answered. |
| `server_invariants` | pass | With writer-preferring locks, every command, two connections from one host and a re-create of each name, `IdsResolve` holds. Every database id in `active_connections` stays a key of `id_to_db`, and every database there has its client set. So the `unwrap`s at handler.rs:116 and server_state.rs:111 never panic. This rests on `connect_to_db` returning at the `?` for an unknown name, and on nothing removing a database from `id_to_db`: the `clear()` in `reset_database` (server_state.rs:90) is commented out. |
| `server_lock_order` | violation | `NoDeadlock` fails with writer-preferring locks:<br>- an SQL request holds the `active_connections` read guard and waits for `id_to_db`;<br>- a `create` waits for `id_to_db.write()`, which blocks new readers;<br>- a `connect` holds the `id_to_db` read guard and waits for `active_connections.write()`.<br>Each of the three waits for the next. |
| `server_client_sets` | violation | `ClientSetsAccurate` fails. `create_database` of an existing name replaces the `DatabaseState`, so the connected client is in no client set. |
| `heapfile_refines_store` | pass | With one thread, `TypeOK`, `IterYieldsAll`, `PageStoreSpec` and `NextReturns` hold under `FairSpec`. Every `next()` call returns. Every read returns the page last written under its id, or the zero page. An iterator that returns `None` has yielded every page that held records when it was made and has not been rewritten since. |
| `heapfile_shared_cursor` | violation | `PageStoreSpec` fails with two threads. `t1` seeks to page 0 to write, `t2` seeks to page 1 to read, and `t1`'s flush lands at page 1. Both calls take only the read guard, so nothing serializes them (spec section 3 asks for I/O serialized per file). |

Each property of a passing run has a mutant that TLC must catch (`PROJECT.json`, "mutants"):
- Charging the free space without the `lfs >= len + 6` check breaks `TypeOK`.
- Using the slot count as the new id breaks `DirectoryWellFormed`.
- Charging only `len` (not the 6-byte slot) breaks `FreeSpaceSound`.
- An unchecked u16 `last + 1` in `insert_value` breaks Memstore's `TypeOK`.
- Reusing `last_insert` as the next id breaks `ValueIdStable`.
- `load` leaving `max_val` at 0 breaks `IterComplete`.
- `remove_container` also dropping the `last_insert` entry breaks `LastInsertGrows`.
- `connect_to_db` inserting the client after a failed name lookup (a missing `?`) breaks `IdsResolve`.
- `read_exact` moving the cursor on at the end of the file breaks HeapFile's `TypeOK`.
- `HeapFileIterator::new` dropping page 0's iterator breaks `IterYieldsAll`.
- `read_page_from_file` seeking one page too far breaks `PageStoreSpec`.
- `next()` without `curr_pid += 1` spins on an empty page and breaks `NextReturns`.

Defects the models reproduce but that no run checks:
- `PageIter` probes ids `0..slot_count`, so after deletes it skips live ids.
- `delete_value` never credits `largest_free_space`.
- `add_value` panics on u16 underflow instead of returning `None`.
- `get_iterator` panics on a container with no insert yet.
- `ValueIterator::next` overflows at slot 65535.
- An SQL request before `\connect` panics its handler thread.
- Two connections from one host share a client id (handler.rs:68). A connect by one overwrites the other's `active_connections` entry. `server_invariants` reaches this, but its property does not look at client sets.
- `remove_container` leaves the `.ms` file, so after an orderly shutdown and restart the removed container is back.

The actions for these fire in the passing runs. `PROJECT.json` lists them as hazards.

## 4. Proofs

`PageProofs.tla` proves three theorems for every `PAGE_SIZE > 4` and every payload set with lengths in `1..PAGE_SIZE`:
- `TypeCorrect`: `Spec => []TypeOK`.
- `DirectoryWellFormedHolds`: `Spec => []DirectoryWellFormed`.
- `FreeSpaceSoundHolds`: `Spec => []FreeSpaceSound`.

These assumptions are the `ASSUME`s of `Page.tla`.

None of the three invariants is inductive alone:
- The offset `find_free` computes under the last slot is non-negative only because that slot lies above `HeaderSize + lfs >= len`. That is `FreeSpaceSound`.
- The hole case needs every record to end inside the page.

The inductive invariant `IInv` is the conjunction `TypeOK /\ InBounds /\ UniqueIds /\ FreeSpaceSound`. TLC checks exactly these conjuncts in `page_invariants`.

The lemmas are:
- `StartIndexBounds`: the offset `find_free` returns lies in the page, and the new record sits above the shrunken free space.
- `NewSlotIdFresh`: the id search always finds an unused id. The proof is a pigeonhole argument (`FS_Surjection`) plus a least element taken from `WFMin`.
- `IndexOfLive` and `RemoveAtProps`: what `delete_value` looks up and removes.
- One preservation lemma per action (`PlaceKeepsDirectory`, `AddValueIInv`, `ChargePanicsIInv`, `FindFreePanicsIInv`, `DeleteValueIInv`), combined in `NextIInv`.

`MemstoreProofs.tla` proves `ValueIdStableHolds`: `Spec => []ValueIdStable`. It holds for every set of threads, container ids and values, and every `MAX_SLOT`. It needs only `ConstantsAssumption` of `Memstore.tla`.

`ValueIdStable` is not inductive. `insert_value` writes slot `last_insert + 1` without checking that it is free. The inductive invariant `IInv` therefore adds:
- `HistBelowLast`: every slot id ever handed out for a container id lies at or below `last_insert`, and there are none when `last_insert` has no entry. This survives `remove_container`, because `last_insert` is kept, and a restart, because `load` takes the greatest key (lemma `MaxKeyIsMax`).
- `RegOK`: a registered id points at a map made for that id, so an insert into one container never touches another's map.
- `SlotsOK`: keys and `last_insert` are u16 slot ids. `insert_value`'s overflow check keeps `last + 1` in range.
- `ShutdownOK`: a running shutdown writes only registered containers.

The proof has one lemma per action (`InsertValueIInv`, `CreateContainerIInv`, `RemoveContainerIInv`, `ShutdownWriteIInv`, `RestartIInv`, ...), combined in `NextIInv`. TLC checked `IInv` as an invariant of the `memstore_invariants` configuration before the proof was written.

`MemstoreProofs.tla` also proves `LastInsertGrowsHolds`: `Spec => LastInsertGrows`. The step lemma `LastStep` holds because only `insert_value` writes `last_insert` between restarts, and it writes `last + 1` or adds a new entry. The proof also uses `IInv`, which keeps the entries natural numbers, and `restarts \in Nat` (`RestartsStep`).

`MemstoreIterProofs.tla` proves `IterCompleteHolds`: `Spec => []IterComplete`. It holds for the same constants and under the same assumption. `IterComplete` is not inductive, because it speaks only of an iterator that has finished. The inductive invariant is `IInv /\ IterInv`. `IterInv` has three parts:
- `MapsBelowLast`: every key of every `ContainerMap` made in this process lies at or below `last_insert` of its container id. This covers removed maps too, which an iterator may still hold through its `Arc`.
- `RegGen`: the registered map of an id has a generation below `gen`. So `create_container` never replaces a map an iterator holds.
- `IterOK(t)`, for a thread in `get_iterator` or `next`:
  - its map is an instance of its own container id;
  - its start keys lie at or below `last_insert`, and at or below `max` once `max` is read;
  - every start key still in the map and below `current` has been yielded.

The key step is `insert_value`: it puts `last + 1` into a map. That key lies above every start key of every iterator of that map, so no key below `current` ever appears unyielded. The frame lemma `IterOKFrame` states this once for all the threads a step does not touch. There is one lemma per action that moves an iterator or changes a map (`IterOpenIterInv`, `IterMaxIterInv`, `IterNextIterInv`, `InsertValueIterInv`, `DropIterInv`, `CreateContainerIterInv`, `RestartIterInv`, ...). `NextIterInv` combines them. TLC checked `IInv /\ IterInv` before the proof was written, on two configurations:
- the `memstore_invariants` bounds without symmetry: 693,005 states;
- one thread with `MAX_SLOT = 2`: 142,378 states.

`HeapFileProofs.tla` proves three theorems for every `MAX_PAGES > 0` and every set of record bodies, when one thread uses the file (`Threads = {u}`):
- `HeapFileTypeCorrect`: `Spec => []TypeOK`.
- `HeapFileRefinesPageStore`: `Spec => PageStoreSpec`.
- `IterYieldsAllHolds`: `Spec => []IterYieldsAll`.

With two threads both fail: the `heapfile_shared_cursor` run shows how.

The inductive invariant `IInv(u)` adds three facts to `TypeOK`:
- `pc` and `retpc` stay among the code's labels.
- The iterator's `pageCnt` is at most the file length, and `curr_pid <= pageCnt + 1`. So the iterator reads at most two pages past the end, and the file never grows past `MAX_PAGES`.
- While the thread's write or read is pending, the cursor is where its own seek put it.

The refinement argument has three parts:
- The lemma `WriteAtProps` says what a write leaves at each offset, holes included.
- With it, `WriteFlush` is PageStore's `Write(wp[u])`, `ReadExact` is `ReadReturn`, and the seeks of `ReadPage`, `IterNew` and `IterAdvance` are `ReadCall`.
- Every other step is a stutter (`NextRefines`).

`IterYieldsAll` is not inductive. It speaks only of an iterator that has ended, and says nothing about one that is still running. The inductive invariant is `IInv(u) /\ IterInv(u)`. `IterInv(u)` speaks about the pages still *due*: those in `start` and not in `touched`. It has six parts:
- `DueHasRecords`: a due page still holds records, so it lies below the file length (lemma `BodyInFile`). `FlushFileAt` shows that a write changes only the page at the cursor, and that page leaves the due set.
- `DueBelowSeen`: every due page below `curr_pid` has been yielded.
- `CurrentPending`: when no read is pending and page `curr_pid` is due but not yet seen, its `PageIter` still holds a record. So `IterAdvance`, which needs `pend = NoBody`, never skips a due page.
- `LoadingCurrent`: while the iterator's read is pending, the read is of page `curr_pid`, and the result it gets back is that page.
- `CntIsLen`: inside `next`, `pageCnt` equals the file length. With one thread nothing writes during the call.
- `EndedSeen`: `IterYieldsAll` itself.

When `IterEnd` fires, `curr_pid > pageCnt = Len(file)`. Every due page lies below `Len(file)`, so it lies below `curr_pid` and has been seen. `NextIterInv` has one case per action and, under each, one step per part. TLC checked `IInv(u) /\ IterInv(u)` as an invariant of the one-thread heap-file spec (`MAX_PAGES = 3`, two bodies) before the proof was written.

`ServerProofs.tla` proves three theorems for every set of connections, client ids and database names, for either lock policy and every `MaxGen`. They rest on `ServerAssumption` of `Server.tla`. That assumption asks that `ClientOf` map connections to client ids and that `DbNames` be nonempty. The second is needed because `Init` chooses each thread's first target from it.
- `TypeCorrect`: `Spec => []TypeOK`. Here `TypeOK` is the type of every variable, stated in `ServerProofs.tla`.
- `IdsResolveHolds`: `Spec => []IdsResolve`.
- `CloseBlocksConnects`: `Spec => [](ClosingStuck => [][NoConnectActivates]_vars)`. Once some thread waits at server_state.rs:120, no thread ever again takes `ConnectActivate`, the `active_connections.write()` of `connect_to_db`. So after the first `\close`, every later `\connect` on the server hangs.

`IdsResolve` is not inductive:
- `ConnectActivate` inserts the name the thread looked up two steps earlier.
- The close path and the SQL path index `id_to_db` with a value read from `active_connections` one step earlier.

The inductive invariant `IInv` is `TypeOK /\ GuardsHeld /\ IdsResolve /\ ThreadsResolve`. `GuardsHeld` is lock bookkeeping: each lock's read guards are held by exactly the threads inside that guard's scope. It mirrors what each action does to its own thread's reader, so it is a lemma of the proof and not a property of its own. `CloseBlocksConnects` needs it. `ThreadsResolve` says that a thread at `conn_get`, `conn_acw` or `close_db` has its target in `id_to_db`, and that a thread at `sql_db` has its client in `active_connections`. Every lock step either adds or drops the stepping thread's read guard (lemma `ReaderProps`). It also moves the thread's `pc` into or out of the matching set of `GuardsHeld`. `Put` adds or overwrites one entry (`PutProps`). Nothing removes a key from `id_to_db` or `active_connections`, so lookups that were good stay good. There is one lemma per action, combined in `NextIInv`. Before the proof was written, TLC checked `IInv` on three connections with every command: 693,368 states with distinct hosts and reader-preferring locks, and again with two connections sharing a client id and writer-preferring locks.

`CloseBlocksConnects` follows from two facts:
- `NextMovesOne`: every step changes the `pc` of one thread, and never of a thread at `close_acw`. So `ClosingStuck` stays true once it holds.
- `GuardsHeld`: that thread is a reader of `acLock`, so `CanWrite(acLock)` is false.

Only TLC checks these:
- The violation runs. These are counterexamples, not theorems.
- The refinement property of the page.
- `TypeOK` of the memstore. `files[c].len` is `EncLen` of a map, a recursive function over its key set. Proving that it is a natural number needs induction over the set, and the library's induction theorems take an operator parameter that the installed provers cannot instantiate.
- `NextReturns`, a liveness property.

## 5. Not modelled, and the plan

These parts stay unmodelled:
- **The buffer pool**: there is no source.
- **The heapstore storage manager**: it does not compile.
- **The executor, planner, catalog and CLI**: pure query evaluation and terminal I/O.
- **In the server**: `\shutdown` (an empty `ServerState::shutdown`, then `process::exit`), `import_database`, and the table and catalog side of `DatabaseState` (`create_table`, `load_database_from_file`).

- **Page serialization** (`get_bytes`/`from_bytes`). `from_bytes` recomputes `largest_free_space` from the live sizes, which over-estimates it after a delete has left a hole (page.rs:331). The heap-file model abstracts a page image to its id and whether it has records.
- **A crash in the middle of `write_page_to_file`**. The model has no crash step, since nothing in the code recovers from one.

The order for the next work:
1. **Page serialization**, as a reload action of `Page.tla`.
2. **The server's `DatabaseState` table map and its calls into the memstore**. Every `DatabaseState` makes its own `StorageManager` on the same path.

`PROJECT.json` lists every hazard found in the source, with the properties that cover it or a note on why none does.
